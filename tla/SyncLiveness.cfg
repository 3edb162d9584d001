SPECIFICATION FairSpec
CONSTANTS
    None = None
    Sources = {s1}
    Bootstrapped = {s1}
    Ticks = {t1, t2}
    MaxAttempts = 2
    AttemptCeiling = 100
    Limit = 1
    MaxRuns = 3
    Reserve = 2
    MaxCommits = 1
    MaxFaults = 1
PROPERTY
    EveryRunEnds
