--------------------------- MODULE MCPRefinement ---------------------------
(* MCPClient as an implementation of MCPContract.                          *)
EXTENDS MCPClient

Contract == INSTANCE MCPContract WITH
  MaxSends <- CallRetries + 1,
  fate     <- [c \in Calls |-> fate[c]],
  sends    <- sends

\* A call is sent again only when the time before brought no result of the tool
\* (no answer, an error of the protocol, or a result that fails its schema), at
\* most once per retry, and its caller learns how the last time ended
\* (_handle_call, _call_once; docs/mcp-architecture.md:99,150).
KeepsCallContract == Contract!ContractSpec
=============================================================================
