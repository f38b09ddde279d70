SPECIFICATION Spec
CONSTANTS
  Calls = {a, b, c}
  MaxRetries = 1
  MaxDeltas = 1
  MaxOpen = 2
  MaxTime = 1
  PageSize = 1
  SqlRetries = 1
INVARIANTS NoRepeatedDelta LedgerExact PagesComplete SqlResult
VIEW View
SYMMETRY Symmetry
CHECK_DEADLOCK FALSE
