SPECIFICATION Spec
CONSTANTS
    MaxTxn = 3
    MaxRow = 1
    Columns <- TwoColumns
    Levels <- ReadCommittedOnly
    ReadCommittedSnapshot = FALSE
    AllowSnapshotIsolation = FALSE
    Kinds <- UpdatesAndDeletes
    MaxStatements <- OneEach
    MaxSavepoints = 0
    MayRefuse = FALSE
    MayVacuum = FALSE
    NoRow = NoRow
    NoSnap = NoSnap
INVARIANTS
    NoDirtyRead
    ProceedOverWhatWasRead
    AssignedOverLatest
CHECK_DEADLOCK FALSE
