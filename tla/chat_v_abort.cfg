SPECIFICATION Spec
CONSTANTS
  Requests = {r1}
  Aborts = {a1}
  MaxAttempts = 1
  MaxEvents = 1
  MaxCrashes = 0
  Faults = {}
  NoRow = NoRow
INVARIANTS AbortPersists
CHECK_DEADLOCK FALSE
