SPECIFICATION FairSpec
CONSTANTS
  Txn = {t1, t2, t3}
  Outcome = {"committed"}
  MaxLsn = 6
  MaxLogged = 1
  SyncMayFail = TRUE
  FailedSyncDrops = FALSE
  OthersFlush = FALSE
CHECK_DEADLOCK FALSE
INVARIANTS OneLeader EndedIsDurable FailedSyncFailsEach OneSyncEach
PROPERTIES WaitersReturn
