SPECIFICATION Spec
CONSTANTS
  Txn = {t1, t2}
  Outcome = {"committed"}
  MaxLsn = 4
  MaxLogged = 1
  SyncMayFail = TRUE
  FailedSyncDrops = TRUE
  OthersFlush = FALSE
SYMMETRY ThreadSymmetry
CHECK_DEADLOCK FALSE
INVARIANTS CommittedIsOnDisk
