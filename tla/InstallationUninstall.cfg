SPECIFICATION Spec
CONSTANTS
    p1 = p1
    p2 = p2
    c1 = c1
    c2 = c2
    none = none
    Procs <- MCProcess
    Clients <- MCClient
    None <- none
    MaxKeys = 1
    MaxMishaps = 0
CHECK_DEADLOCK FALSE
INVARIANTS
    UninstallRemoves
