SPECIFICATION Spec
CONSTANTS
    None = None
    Procs = {p1, p2}
    Clients = {codex, claude}
    Keys = {k1, k2, k3, k4, k5}
    MaxFaults = 3
SYMMETRY RotationSymmetry
INVARIANTS
    TypeOK
    ClientIsServed
    
\* A rotation for which no key is left stays where it is.
CHECK_DEADLOCK FALSE
