SPECIFICATION Spec
CONSTANTS
  Requests = {a, b, c}
  Host = host
  Default = default
  Nobody = Nobody
  Workspaces = {a, b, c, default}
  HostLimit = 2
  WorkspaceLimit = 1
  Second = 3
  Window = 6
  MaxOpen = 2
  MaxTime = 6
  SessionTtl = 1
  Faults = {"redis", "db"}
  MaxFailures = 1
  Bob = Bob
  bob = bob
  Names <- MCNames
  Lower <- MCLower
  Casefold <- MCCasefold
INVARIANTS OneOwner NamesApart DeadTokens NoCircle WithinLimit RetryAfterHonest
VIEW View
SYMMETRY Symmetry
CHECK_DEADLOCK FALSE
