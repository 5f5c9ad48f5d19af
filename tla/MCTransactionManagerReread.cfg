SPECIFICATION Spec
CONSTANTS
    MaxTxn = 3
    MaxRow = 1
    Columns <- TwoColumns
    Levels <- ReadCommittedOnly
    ReadCommittedSnapshot = FALSE
    AllowSnapshotIsolation = FALSE
    Kinds <- Updates
    MaxStatements <- OneEach
    MaxSavepoints = 0
    MayRefuse = FALSE
    MayVacuum = FALSE
    NoRow = NoRow
    NoSnap = NoSnap
INVARIANTS
    RereadIsLatest
CHECK_DEADLOCK FALSE
