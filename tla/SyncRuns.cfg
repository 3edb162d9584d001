SPECIFICATION Spec
CONSTANTS
    None = None
    Sources = {s1}
    Bootstrapped = {}
    Ticks = {t1, t2}
    MaxAttempts = 2
    AttemptCeiling = 100
    Limit = 1
    MaxRuns = 3
    Reserve = 1
    MaxCommits = 1
    MaxFaults = 2
SYMMETRY TickSymmetry
INVARIANTS
    TypeOK
    
    RetryIsQueuedOnce
PROPERTIES
    FencedHead
    SuccessIsPublished
    ResultIsFinal
\* The rows bounded by MaxRuns run out, after which no tick can go on.
CHECK_DEADLOCK FALSE
