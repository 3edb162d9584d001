SPECIFICATION Spec
CONSTANTS
    None = None
    Absent = Absent
    Torn = Torn
    Procs = {p1, p2}
    Secrets = {s1, s2, s3, s4}
    MaxOthers = 2
    MaxFaults = 4
SYMMETRY Symmetry
INVARIANTS
    TypeOK
    DatabasePasswordIsKept
    SuccessIsComplete
    DisagreementIsRecorded
PROPERTIES
    PublishedIsKept
    NoLostOwnership
\* The secrets of the instance run out.
CHECK_DEADLOCK FALSE
