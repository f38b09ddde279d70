SPECIFICATION FairSpec
CONSTANTS
  Datasets = {d1, d2}
  Deletions = {k1, k2}
  Readers = {q1}
  Nothing = Nothing
  Faults = {"store", "files"}
  MaxCrashes = 1
INVARIANTS ReadyReadable ReadersUndisturbed NoStrayFiles
PROPERTIES RestoreRepairs RemovalEnds
CHECK_DEADLOCK FALSE
