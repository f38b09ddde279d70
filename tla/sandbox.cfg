SPECIFICATION FairSpec
CONSTANTS
  Runs = {r1, r2}
  Threads = 1
  Faults = {"docker", "store", "cancel"}
  MaxCrashes = 1
INVARIANTS NothingLeft RunningAtMostThreads ToldTruth NoStrayBatch
PROPERTIES ThreadEnds
CHECK_DEADLOCK FALSE
