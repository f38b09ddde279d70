--------------------------- MODULE AgentContract ---------------------------
(***************************************************************************)
(* What an agent run may do to the outside world, without messages, guards *)
(* or scheduling: it asks the model a bounded number of times, and between *)
(* two answers it enters a bounded number of tools, each for a call it     *)
(* never made before, and none once it has spent its tokens.               *)
(***************************************************************************)
EXTENDS Naturals

CONSTANTS MaxSteps, MaxTokens, MaxCalls, Signatures

VARIABLES
  asked,   \* requests to the model
  owing,   \* a request is not answered yet
  spent,   \* tokens
  ran,     \* how often each call was made
  left,    \* tools that may still be entered before the next request
  open     \* the run has not ended

contractVars == <<asked, owing, spent, ran, left, open>>

ContractInit ==
  /\ asked = 0 /\ owing = FALSE /\ spent = 0 
  /\ ran = [s \in Signatures |-> 0]
  /\ left = MaxCalls /\ open = TRUE

AskModel ==
  /\ open /\ ~owing /\ asked < MaxSteps
  /\ asked' = asked + 1 /\ owing' = TRUE /\ left' = MaxCalls
  /\ UNCHANGED <<spent, ran, open>>

Answer ==
  /\ open /\ owing
  /\ owing' = FALSE
  /\ spent' >= spent
  /\ UNCHANGED <<asked, ran, left, open>>

MayCall == open /\ ~owing /\ spent <= MaxTokens /\ left > 0

\* A handler is entered, for a call that was never made before.
EnterTool(s) ==
  /\ MayCall /\ ran[s] = 0
  /\ ran' = [ran EXCEPT ![s] = 1] /\ left' = left - 1
  /\ UNCHANGED <<asked, owing, spent, open>>

\* A call whose tool is unknown or whose arguments are refused enters nothing.
RefuseCall ==
  /\ MayCall /\ left' = left - 1
  /\ UNCHANGED <<asked, owing, spent, ran, open>>

End ==
  /\ open /\ open' = FALSE /\ owing' = FALSE
  /\ UNCHANGED <<asked, spent, ran, left>>

ContractNext ==
  AskModel \/ Answer \/ (\E s \in Signatures : EnterTool(s)) \/ RefuseCall \/ End
ContractSpec == ContractInit /\ [][ContractNext]_contractVars
=============================================================================
