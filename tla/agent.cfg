SPECIFICATION FairSpec
CONSTANTS
  sql = sql
  mcp = mcp
  x = x
  y = y
  z = z
  lower = lower
  upper = upper
  Tools = {sql, mcp}
  Volatile = {mcp}
  Unknown = {}
  Safe = {sql}
  SqlTools = {sql, mcp}
  Args = {x, y, z}
  Forms = {lower, upper}
  AnyForm = AnyForm
  Calls <- MCCalls
  MaxSteps = 2
  MaxTokens = 1
  MaxCalls = 3
  MaxReplans = 1
  MaxParallel = 2
  Parallel = TRUE
  Streams = TRUE
  MaxText = 1
  MaxUse = 1
INVARIANTS ToolOnce AskWellFormed ShownIsAnswer SafeTogether
PROPERTIES KeepsAgentContract RunEnds
CHECK_DEADLOCK FALSE
