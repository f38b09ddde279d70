---------------------------- MODULE TurnContract ----------------------------
(***************************************************************************)
(* What a chat turn promises, without handlers, workers or stores: it is   *)
(* accepted once, asked once, its log opens once and closes once, and once *)
(* it has left "streaming" it never returns there.                         *)
(***************************************************************************)
EXTENDS Naturals

CONSTANT Requests

VARIABLES
  phase,  \* of each turn: "absent", "streaming", "settled" or "deleted"
  log,    \* of each turn: "empty", "open" or "closed"
  asked   \* how often the model was asked for the turn

contractVars == <<phase, log, asked>>

ContractInit ==
  /\ phase = [r \in Requests |-> "absent"]
  /\ log = [r \in Requests |-> "empty"]
  /\ asked = [r \in Requests |-> 0]

Accept(r) ==
  /\ phase[r] = "absent"
  /\ phase' = [phase EXCEPT ![r] = "streaming"]
  /\ UNCHANGED <<log, asked>>

\* The first event; a turn stopped at that moment is never asked.
Open(r) ==
  /\ phase[r] # "absent" /\ log[r] = "empty"
  /\ log' = [log EXCEPT ![r] = "open"]
  /\ \E n \in {0, 1} : asked' = [asked EXCEPT ![r] = n]
  /\ UNCHANGED phase

\* Only a turn that was asked gets a terminal event.
Close(r) ==
  /\ log[r] = "open" /\ asked[r] = 1
  /\ log' = [log EXCEPT ![r] = "closed"]
  /\ UNCHANGED <<phase, asked>>

Settle(r) ==
  /\ phase[r] = "streaming"
  /\ phase' = [phase EXCEPT ![r] = "settled"]
  /\ UNCHANGED <<log, asked>>

Forget ==
  /\ phase' = [r \in Requests |-> "deleted"]
  /\ UNCHANGED <<log, asked>>

ContractNext ==
  \/ \E r \in Requests : Accept(r) \/ Open(r) \/ Close(r) \/ Settle(r)
  \/ Forget

ContractSpec == ContractInit /\ [][ContractNext]_contractVars
=============================================================================
