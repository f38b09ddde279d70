SPECIFICATION Spec
CONSTANTS
  Requests = {r1}
  Aborts = {a1}
  MaxAttempts = 2
  MaxEvents = 2
  MaxCrashes = 0
  Faults = {"drop", "delete"}
  NoRow = NoRow
INVARIANTS VerdictAgrees LogReplaysRow
CHECK_DEADLOCK FALSE
