----------------------------- MODULE MCChatTurn -----------------------------
(* ChatTurn for TLC: the turn, the draft its browser shows, its contract.    *)
EXTENDS ChatClient, ChatRefinement
=============================================================================
