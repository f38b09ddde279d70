---------------------------- MODULE MCPContract ----------------------------
(***************************************************************************)
(* What MCPClient.call_tool promises to its caller, without connections,   *)
(* queues or maintenance: a call is sent to the server a bounded number of *)
(* times, again only if the time before brought no result of the tool; the *)
(* answer is that of the last time; and no call is answered twice.         *)
(***************************************************************************)
EXTENDS Naturals, Sequences

CONSTANTS Calls, MaxSends

VARIABLES
  fate,   \* what the caller of each call knows
  sends   \* how each time it was sent ended: ok, toolerror, refused or lost

contractVars == <<fate, sends>>

ContractInit ==
  /\ fate = [c \in Calls |-> "new"]
  /\ sends = [c \in Calls |-> <<>>]

\* No result of the tool: no answer, or one that is no result.
NoResult == {"refused", "lost"}
Fruitless(c) == \A i \in DOMAIN sends[c] : sends[c][i] \in NoResult

MaySend(c) ==
  /\ fate[c] \in {"asked", "cancelled"}
  /\ Len(sends[c]) < MaxSends /\ Fruitless(c)

\* The caller learns how its call ended, unless it is gone.
Learn(c, what) ==
  fate' = [fate EXCEPT ![c] = IF @ = "asked" THEN what ELSE @]

AskFor(c) ==
  /\ fate[c] = "new" /\ fate' = [fate EXCEPT ![c] = "asked"]
  /\ UNCHANGED sends

Leave(c) ==
  /\ fate[c] = "asked" /\ fate' = [fate EXCEPT ![c] = "cancelled"]
  /\ UNCHANGED sends

\* The tool's result, which may be an error of the tool.
Answer(c, end) ==
  /\ MaySend(c)
  /\ sends' = [sends EXCEPT ![c] = Append(@, end)]
  /\ Learn(c, end)

\* No result: the client may still try again, or give up.
Lose(c, end) ==
  /\ MaySend(c)
  /\ sends' = [sends EXCEPT ![c] = Append(@, end)]
  /\ Learn(c, "unreachable") \/ UNCHANGED fate

GiveUp(c) ==
  /\ Fruitless(c)
  /\ Learn(c, "unreachable")
  /\ UNCHANGED sends

ContractNext ==
  \E c \in Calls :
    \/ AskFor(c) \/ Leave(c) \/ GiveUp(c)
    \/ \E end \in NoResult : Lose(c, end)
    \/ \E end \in {"ok", "toolerror"} : Answer(c, end)

ContractSpec == ContractInit /\ [][ContractNext]_contractVars
=============================================================================
