SPECIFICATION Spec
CONSTANTS
  Txn = {1, 2, 3}
  Resource = {t1}
  Timeouts = {"NoWait", "Millis"}
  Priorities <- LowPriority
  Cancellable = {2}
  AskedModes <- TableModes
  MaxTicket = 4
INVARIANTS TypeOK OneModePerFamily PromisesKept NoLockLeaked VictimIsCheapest
