---------------------------- MODULE MCMCPClient ----------------------------
(* A small instance of MCPClient for TLC: the values are in mcp_calls.cfg, *)
(* requests and tools being model values.                                  *)
EXTENDS MCPRefinement

=============================================================================
