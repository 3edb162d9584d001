SPECIFICATION Spec
CONSTANTS
    j1 = j1
    j2 = j2
    none = none
    synthetic = synthetic
    Jobs <- MCJobs
    None <- none
    Paths <- MCPaths
    Synthetic <- synthetic
    Commits <- MCCommits
    Repositories <- MCRepositories
    Tree <- MCTree
    MaxMoves = 2
    MaxLost = 1
    MaxOrders = 1
SYMMETRY Symmetry
INVARIANTS
    TypeOK
    
    DependenciesArePublished
    CommitHasOneCatalog
PROPERTIES
    AdvisoriesFollowTheHead
    QuarantineIsKept
