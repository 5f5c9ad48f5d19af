SPECIFICATION Spec
CONSTANTS
  Txn = {1, 2, 3}
  Resource = {r1, r2}
  Timeouts = {"Infinite"}
  Priorities = {}
  Cancellable = {}
  AskedModes = {"S", "X"}
  MaxTicket = 6
SYMMETRY ResourceSymmetry
INVARIANTS TableInvariant HoldersCompatible FrontIsRefused QueueIsFair TicketsAccounted DeadlockHasVictim OneVictimPerDeadlock
PROPERTIES NoOvertaking
