SPECIFICATION Spec
CONSTANTS
    MaxTxn = 2
    MaxRow = 1
    Columns <- OneColumn
    Levels <- ReadCommittedOnly
    ReadCommittedSnapshot = FALSE
    AllowSnapshotIsolation = FALSE
    Kinds <- UpdatesAndDeletes
    MaxStatements <- OneEach
    MaxSavepoints = 0
    MayRefuse = FALSE
    MayVacuum = FALSE
    NoRow = NoRow
    NoSnap = NoSnap
INVARIANTS
    WritesAreCurrent
CHECK_DEADLOCK FALSE
