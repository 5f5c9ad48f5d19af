SPECIFICATION FairSpec
CONSTANTS
    MaxTxn = 3
    MaxRow = 1
    Columns <- OneColumn
    Levels <- SnapshotOnly
    ReadCommittedSnapshot = FALSE
    AllowSnapshotIsolation = TRUE
    Kinds <- UpdatesAndDeletes
    MaxStatements <- OneEach
    MaxSavepoints = 0
    MayRefuse = TRUE
    MayVacuum = TRUE
    NoRow = NoRow
    NoSnap = NoSnap
INVARIANTS
    TypeOK
    NoLostUpdate
    WritesAreCurrent
    OneVisibleVersion
PROPERTIES
    SnapshotsAreStable
    CommitsEnd
CHECK_DEADLOCK FALSE
