---------------------------- MODULE MCAgentLoop ----------------------------
(* A small instance of AgentLoop for TLC: the model may ask for three      *)
(* different queries of a safe tool, one of them in two spellings, and for *)
(* a tool of an MCP server.                                                *)
EXTENDS AgentRefinement

CONSTANTS sql, mcp, x, y, z, lower, upper

MCCalls == {[tool |-> sql, arg |-> x, form |-> lower],
            [tool |-> sql, arg |-> x, form |-> upper],
            [tool |-> sql, arg |-> y, form |-> lower],
            [tool |-> sql, arg |-> z, form |-> lower],
            [tool |-> mcp, arg |-> x, form |-> lower]}
=============================================================================
