SPECIFICATION Spec
CONSTANTS
  Requests = {r1}
  Aborts = {a1}
  MaxAttempts = 2
  MaxEvents = 2
  MaxCrashes = 0
  Faults = {"broker", "store"}
  NoRow = NoRow
INVARIANTS TerminalEndsLog DoneIsDurable
CHECK_DEADLOCK FALSE
