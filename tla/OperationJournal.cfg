SPECIFICATION Spec
CONSTANTS
    None = None
    Procs = {p1, p2}
    Steps = 2
    Changes = {2}
    Repairs = {0, 1}
    MaxOps = 3
    MaxFaults = 2
    Exact = TRUE
SYMMETRY ProcSymmetry
CONSTRAINT LastIsRepair
INVARIANTS
    TypeOK
    SuccessIsProven
    NothingForgotten
    PlainFailureIsClean
PROPERTY
    OneWriter
\* The operations bounded by MaxOps run out.
CHECK_DEADLOCK FALSE
