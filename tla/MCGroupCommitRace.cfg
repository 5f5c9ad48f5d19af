SPECIFICATION Spec
CONSTANTS
  Txn = {t1, t2}
  Outcome = {"committed", "aborted"}
  MaxLsn = 4
  MaxLogged = 1
  SyncMayFail = TRUE
  FailedSyncDrops = FALSE
  OthersFlush = TRUE
SYMMETRY ThreadSymmetry
CHECK_DEADLOCK FALSE
INVARIANTS FailedSyncFailsEach
