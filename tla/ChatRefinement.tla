--------------------------- MODULE ChatRefinement ---------------------------
(* ChatTurn as an implementation of TurnContract: the phase of a turn is    *)
(* read off its row, the state of its log off its stream.                   *)
EXTENDS ChatTurn

PhaseOf(r) == IF conv = "deleted" THEN "deleted"
              ELSE IF row[r] = NoRow THEN "absent"
              ELSE IF row[r].status = "streaming" THEN "streaming" ELSE "settled"

Closed(r) == \E i \in DOMAIN stream[r] : stream[r][i] \in Terminal

LogOf(r) == IF Closed(r) THEN "closed"
            ELSE IF stream[r] = <<>> THEN "empty" ELSE "open"

Contract == INSTANCE TurnContract WITH
  phase <- [r \in Requests |-> PhaseOf(r)],
  log   <- [r \in Requests |-> LogOf(r)],
  asked <- calls

\* Every behaviour of the backend keeps the contract of its turns.
KeepsContract == Contract!ContractSpec
=============================================================================
