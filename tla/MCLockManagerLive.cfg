SPECIFICATION FairSpec
CONSTANTS
  Txn = {1, 2, 3}
  Resource = {r1, r2}
  Timeouts = {"Millis", "Infinite"}
  Priorities = {}
  Cancellable = {1}
  AskedModes = {"X"}
  MaxTicket = 4
PROPERTIES DeadlocksBroken WaitsEnd
