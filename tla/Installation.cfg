SPECIFICATION Spec
CONSTANTS
    p1 = p1
    p2 = p2
    c1 = c1
    c2 = c2
    none = none
    Procs <- MCProcs
    Clients <- MCClient
    None <- none
    MaxKeys = 1
    MaxMishaps = 1
SYMMETRY Symmetry
CHECK_DEADLOCK FALSE
INVARIANTS
    TypeOK
    RecordIsTrue
PROPERTIES
    RemovedIsGone
