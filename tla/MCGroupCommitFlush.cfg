SPECIFICATION Spec
CONSTANTS
  Txn = {t1, t2}
  Outcome = {"committed", "aborted"}
  MaxLsn = 5
  MaxLogged = 1
  SyncMayFail = FALSE
  FailedSyncDrops = FALSE
  OthersFlush = TRUE
SYMMETRY ThreadSymmetry
CHECK_DEADLOCK FALSE
INVARIANTS TypeOK DurableIsOnDisk
PROPERTIES DurableNeverRetreats
