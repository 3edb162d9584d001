SPECIFICATION Spec
CONSTANTS
    q1 = q1
    q2 = q2
    s1 = s1
    s2 = s2
    imported = imported
    kept = kept
    evicted = evicted
    none = none
    Requests <- MCRequests
    Scopes <- MCScopes
    Imported <- MCImported
    Release <- MCRelease
    Advisory <- MCAdvisory
    Capacity = 1
    None <- none
    MaxChanges = 2
SYMMETRY Symmetry
CHECK_DEADLOCK FALSE
INVARIANTS
    TypeOK
    AnswersAreTimely
    UsesAreAccountedFor
    ForgottenStaysForgotten
