SPECIFICATION FairSpec
CONSTANTS
  Calls = {c1, c2}
  Probes = {p1}
  Tools = {t1}
  Twice = Twice
  ConnectAttempts = 2
  CallRetries = 1
  Nobody = Nobody
  Shutdown = Shutdown
  MaxTroubles = 1
INVARIANTS NoneForgotten
PROPERTIES KeepsCallContract EveryoneAnswered RecoversWhenQuiet
CHECK_DEADLOCK FALSE
