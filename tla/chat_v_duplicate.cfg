SPECIFICATION Spec
CONSTANTS
  Requests = {r1}
  Aborts = {}
  MaxAttempts = 2
  MaxEvents = 1
  MaxCrashes = 0
  Faults = {"drop"}
  NoRow = NoRow
INVARIANTS OneUserRow
CHECK_DEADLOCK FALSE
