SPECIFICATION Spec
CONSTANTS
    None = None
    Absent = Absent
    Torn = Torn
    Procs = {p1}
    Secrets = {s1, s2, s3}
    MaxOthers = 0
    MaxFaults = 1
SYMMETRY Symmetry
INVARIANT PriorSecretRetained
CHECK_DEADLOCK FALSE
