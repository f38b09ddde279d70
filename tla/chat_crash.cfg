SPECIFICATION FairSpec
CONSTANTS
  Requests = {r1}
  Aborts = {}
  MaxAttempts = 2
  MaxEvents = 2
  MaxCrashes = 1
  Faults = {"crash", "drop"}
  NoRow = NoRow
INVARIANTS AtMostOneCall RetryRepairs ResumeExact
PROPERTIES KeepsContract TurnSettles ResponseEnds
CHECK_DEADLOCK FALSE
