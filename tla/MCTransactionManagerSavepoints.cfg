SPECIFICATION Spec
CONSTANTS
    MaxTxn = 2
    MaxRow = 2
    Columns <- OneColumn
    Levels <- ReadCommittedOnly
    ReadCommittedSnapshot = FALSE
    AllowSnapshotIsolation = FALSE
    Kinds <- AllKinds
    MaxStatements <- TwoThenOne
    MaxSavepoints = 2
    MayRefuse = TRUE
    MayVacuum = FALSE
    NoRow = NoRow
    NoSnap = NoSnap
INVARIANTS
    WriterHoldsRow
    RollbackErases
    MarksAgree
CHECK_DEADLOCK FALSE
