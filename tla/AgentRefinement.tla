-------------------------- MODULE AgentRefinement --------------------------
(* AgentLoop as an implementation of AgentContract.                        *)
EXTENDS AgentLoop

\* The calls of the current batch that are no longer waiting.
Entered == {i \in DOMAIN exec : exec[i] # "waiting"}

Contract == INSTANCE AgentContract WITH
  asked <- stepNo,
  owing <- (pc = "receive"),
  spent <- usage,
  ran   <- runs,
  left  <- MaxCalls - Cardinality(Entered),
  open  <- (pc \notin Final)

\* Every run of the agent keeps the contract: bounded requests, a bounded number
\* of tool calls between two of them, no handler entered twice for one call, and
\* none once the tokens are spent.
KeepsAgentContract == Contract!ContractSpec
=============================================================================
