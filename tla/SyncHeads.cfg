SPECIFICATION Spec
CONSTANTS
    None = None
    Sources = {s1}
    Bootstrapped = {}
    Ticks = {t1, t2}
    MaxAttempts = 1
    AttemptCeiling = 100
    Limit = 1
    MaxRuns = 3
    Reserve = 1
    MaxCommits = 2
    MaxFaults = 1
SYMMETRY TickSymmetry
PROPERTY
    NoCommitRegression
