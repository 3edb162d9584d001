SPECIFICATION Spec
CONSTANTS
    None = None
    Procs = {p1, p2}
    Releases = {1, 2, 3}
    Schema <- MCSchema
    Oldest <- MCOldest
    ForwardOnly = {3}
    Backups = {b1, b2}
    MaxWrites = 1
    MaxFaults = 2
SYMMETRY Symmetry
INVARIANTS
    TypeOK
    SchemaIsKnown
    DisagreementIsRecorded
    SuccessIsComplete
PROPERTIES
    MigratesDrainedAndBackedUp
CHECK_DEADLOCK FALSE
