-------------------------- MODULE AgentLoopProofs --------------------------
(***************************************************************************)
(* Proofs about AgentLoop for every registry, every model, every limit and *)
(* every way the calls of a batch interleave.                              *)
(***************************************************************************)
EXTENDS AgentRefinement, Recursion, SequenceTheorems

Messages   == [role : {"user", "assistant", "tool"}, n : Nat]
StepData   == [no : Nat, use : Nat, ran : Nat]
CallStates == {"waiting", "running", "ok", "error"}
EventNames == {"text", "text_reset", "step", "done", "error"}
Replies    == [text : Nat, calls : Seq(Call), use : Nat]

\* A batch has an entry for each of its calls, or has not begun.
ExecOK ==
  /\ pc \in {"receive", "decide"} => exec = <<>>
  /\ exec = <<>> \/ Len(exec) = Len(reply.calls)
  /\ pc = "tools" => Len(exec) = Len(reply.calls)

TInv == TypeOK /\ ExecOK

LEMMA SignatureType == \A c \in Call : Signature(c) \in Signatures
  BY DEF Signatures

LEMMA BatchType == \A calls \in Batches : calls \in Seq(Call)
<1> SUFFICES ASSUME NEW calls \in Batches PROVE calls \in Seq(Call)
  OBVIOUS
<1>0. Calls \subseteq Call
  BY AgentAssumption DEF Call
<1>1. CASE calls \in UNION {[1..n -> Calls] : n \in 0..MaxCalls}
  <2>1. PICK n \in 0..MaxCalls : calls \in [1..n -> Calls]
    BY <1>1
  <2> QED BY <2>1, <1>0
<1>2. CASE \E c \in Calls : calls = [i \in 1..(MaxCalls + 1) |-> c]
  <2>1. PICK c \in Calls : calls = [i \in 1..(MaxCalls + 1) |-> c]
    BY <1>2
  <2>2. PICK n \in Nat : n = MaxCalls + 1
    BY AgentAssumption
  <2>3. calls \in [1..n -> Call]
    BY <2>1, <2>2, <1>0
  <2> QED BY <2>3
<1>3. calls \in UNION {[1..n -> Calls] : n \in 0..MaxCalls}
        \/ calls \in {[i \in 1..(MaxCalls + 1) |-> c] : c \in Calls}
  BY DEF Batches
<1> QED BY <1>1, <1>2, <1>3

LEMMA RecordTypes ==
  ASSUME TypeOK
  PROVE  /\ \A k \in Nat : StepRecord(k) \in StepData
         /\ \A k \in Nat : Message("tool", k) \in Messages
         /\ \A k \in Nat : Message("assistant", k) \in Messages
         /\ Message("user", 0) \in Messages
  BY AgentAssumption DEF TypeOK, StepRecord, StepData, Message, Messages

LEMMA InitTyped == Init => TInv
<1> SUFFICES ASSUME Init PROVE TInv
  OBVIOUS
<1>1. NoReply \in Replies
  BY DEF NoReply, Replies
<1>2. <<Message("user", 0)>> \in Seq(Messages)
  BY DEF Message, Messages
<1>3. stepNo \in 0..MaxSteps /\ replans \in 0..MaxReplans
  BY AgentAssumption DEF Init
<1>4. registry \subseteq Tools
  BY AgentAssumption DEF Init
<1>5. runs \in [Signatures -> Nat]
  BY DEF Init
<1>6. seen \subseteq Signatures /\ steps \in Seq(StepData) /\ exec \in Seq(CallStates)
      /\ sent \in Seq(EventNames) /\ usage \in Nat
  BY DEF Init
<1> QED
  BY <1>1, <1>2, <1>3, <1>4, <1>5, <1>6
  DEF Init, TInv, TypeOK, ExecOK, Pcs, Final, Messages, Replies, StepData,
      CallStates, EventNames, NoReply

LEMMA AskTyped == TInv /\ Ask => TInv'
<1> SUFFICES ASSUME TInv, Ask PROVE TInv'
  OBVIOUS
<1>1. NoReply \in Replies
  BY DEF NoReply, Replies
<1>2. (stepNo < MaxSteps => stepNo + 1 \in 0..MaxSteps)
  BY AgentAssumption DEF TInv, TypeOK
<1>3. CASE stepNo < MaxSteps
  <2>1. exec' = <<>> /\ reply' \in Replies /\ stepNo' \in 0..MaxSteps /\ pc' = "receive"
    BY <1>1, <1>2, <1>3 DEF Ask
  <2> QED BY <2>1, <1>3 DEF TInv, TypeOK, ExecOK, Ask, Pcs, Replies
<1>4. CASE ~(stepNo < MaxSteps)
  BY <1>4 DEF TInv, TypeOK, ExecOK, Ask, Pcs, Verdicts
<1> QED BY <1>3, <1>4

LEMMA DeltaTyped == TInv /\ Delta => TInv'
<1> SUFFICES ASSUME TInv, Delta PROVE TInv'
  OBVIOUS
<1>1. reply' \in Replies /\ reply'.calls = reply.calls
  <2>1. reply \in Replies /\ reply.text + 1 \in Nat
    BY DEF TInv, TypeOK, Replies
  <2>2. reply' = [reply EXCEPT !.text = reply.text + 1]
    BY DEF Delta
  <2> QED BY <2>1, <2>2 DEF Replies
<1>2. sent' \in Seq(EventNames)
  BY DEF TInv, TypeOK, Delta, EventNames
<1> QED
  BY <1>1, <1>2
  DEF TInv, TypeOK, ExecOK, Delta, Replies, EventNames, resultVars, batchVars

LEMMA ResponseTyped == TInv /\ Response => TInv'
<1> SUFFICES ASSUME TInv, Response PROVE TInv'
  OBVIOUS
<1>1. PICK calls \in Batches, use \in 0..MaxUse :
        /\ reply' = [reply EXCEPT !.calls = calls, !.use = use]
        /\ usage' = usage + use
        /\ messages' = Append(messages, Message("assistant", Len(calls)))
        /\ sent' = sent \o Reset(calls)
  BY DEF Response
<1>2. calls \in Seq(Call) /\ Len(calls) \in Nat
  BY BatchType
<1>3. use \in Nat
  BY AgentAssumption
<1>4. reply' \in Replies
  BY <1>1, <1>2, <1>3 DEF TInv, TypeOK, Replies
<1>5. usage' \in Nat
  BY <1>1, <1>3 DEF TInv, TypeOK
<1>6. messages' \in Seq(Messages)
  <2>1. messages \in Seq(Messages)
    BY DEF TInv, TypeOK, Messages
  <2>2. Message("assistant", Len(calls)) \in Messages
    BY <1>2 DEF Message, Messages
  <2> QED BY <1>1, <2>1, <2>2
<1>7. sent' \in Seq(EventNames)
  <2>1. Reset(calls) \in Seq(EventNames)
    <3>1. <<>> \in Seq(EventNames) /\ <<"text_reset">> \in Seq(EventNames)
      BY DEF EventNames
    <3> QED BY <3>1 DEF Reset
  <2>2. sent \in Seq(EventNames)
    BY DEF TInv, TypeOK, EventNames
  <2> QED BY <1>1, <2>1, <2>2, ConcatProperties
<1>8. exec = <<>> /\ exec' = exec /\ pc' = "decide"
  BY DEF TInv, ExecOK, Response, batchVars
<1> QED
  BY <1>4, <1>5, <1>6, <1>7, <1>8
  DEF TInv, TypeOK, ExecOK, Response, Pcs, Replies, Messages, EventNames, batchVars

LEMMA StopTyped == TInv /\ Stop => TInv'
<1> SUFFICES ASSUME TInv, Stop PROVE TInv'
  OBVIOUS
<1>1. steps' \in Seq(StepData)
  BY RecordTypes DEF TInv, TypeOK, Stop, StepData
<1>2. sent' \in Seq(EventNames)
  BY DEF TInv, TypeOK, Stop, EventNames
<1>3. verdict' \in Verdicts
  BY DEF Stop
<1> QED
  BY <1>1, <1>2, <1>3
  DEF TInv, TypeOK, ExecOK, Stop, Pcs, StepData, EventNames, batchVars

LEMMA ReplanTyped == TInv /\ Replan => TInv'
<1> SUFFICES ASSUME TInv, Replan PROVE TInv'
  OBVIOUS
<1>1. steps' \in Seq(StepData)
  BY RecordTypes DEF TInv, TypeOK, Replan, StepsCounted, StepData
<1>2. messages' \in Seq(Messages)
  <2>1. messages \in Seq(Messages) /\ Len(messages) \in Nat
    BY DEF TInv, TypeOK, Messages
  <2>2. SubSeq(messages, 1, Len(messages) - 1) \in Seq(Messages)
    BY <2>1, SubSeqProperties, ElementOfSeq
  <2>3. <<Message("user", 0)>> \in Seq(Messages)
    BY DEF Message, Messages
  <2> QED BY <2>2, <2>3, ConcatProperties DEF Replan, Replanned
<1>3. replans' \in 0..MaxReplans
  <2>1. replans < MaxReplans
    BY DEF Replan, Judge
  <2> QED BY <2>1, AgentAssumption DEF TInv, TypeOK, Replan
<1> QED
  BY <1>1, <1>2, <1>3
  DEF TInv, TypeOK, ExecOK, Replan, Pcs, StepData, Messages, batchVars

LEMMA ExecuteTyped == TInv /\ Execute => TInv'
<1> SUFFICES ASSUME TInv, Execute PROVE TInv'
  OBVIOUS
<1>1. reply.calls \in Seq(Call) /\ Len(reply.calls) \in Nat
  BY DEF TInv, TypeOK
<1>2. exec' = [i \in 1..Len(reply.calls) |-> "waiting"]
  BY <1>1 DEF Execute
<1>3. exec' \in Seq(CallStates) /\ Len(exec') = Len(reply.calls)
  BY <1>1, <1>2 DEF CallStates
<1>4. seen' \subseteq Signatures
  BY <1>1, SignatureType DEF TInv, TypeOK, Execute, SeenAfter, SignaturesOf
<1>5. together' \in BOOLEAN
  BY AgentAssumption DEF Execute, MayRunTogether
<1> QED
  BY <1>3, <1>4, <1>5 DEF TInv, TypeOK, ExecOK, Execute, Pcs, CallStates

LEMMA CallTyped ==
  ASSUME TInv, NEW i \in DOMAIN exec, StartCall(i) \/ EndCall(i)
  PROVE  TInv'
<1>1. exec \in Seq(CallStates) /\ i \in 1..Len(exec)
  BY DEF TInv, TypeOK, CallStates
<1>2. \E s \in CallStates : exec' = [exec EXCEPT ![i] = s]
  BY DEF StartCall, EndCall, CallStates
<1>3. exec' \in Seq(CallStates) /\ Len(exec') = Len(exec)
  BY <1>1, <1>2, ExceptSeq
<1>4. pc = "tools" /\ Len(exec) = Len(reply.calls)
  BY DEF StartCall, EndCall, TInv, ExecOK
<1>5. runs' \in [Signatures -> Nat]
  <2>1. runs \in [Signatures -> Nat]
    BY DEF TInv, TypeOK
  <2>2. \A s \in Signatures : [runs EXCEPT ![s] = @ + 1] \in [Signatures -> Nat]
    BY <2>1
  <2>3. reply.calls[i] \in Call
    BY <1>1, <1>4, ElementOfSeq DEF TInv, TypeOK
  <2> QED BY <2>1, <2>2, <2>3, SignatureType DEF StartCall, EndCall
<1>6. UNCHANGED <<pc, stepNo, messages, reply, usage, steps, seen, replans,
                  verdict, together, registry, sent>>
  BY DEF StartCall, EndCall, resultVars
<1> QED BY <1>3, <1>4, <1>5, <1>6 DEF TInv, TypeOK, ExecOK, CallStates

LEMMA ResumeTyped == TInv /\ Resume => TInv'
<1> SUFFICES ASSUME TInv, Resume PROVE TInv'
  OBVIOUS
<1>1. exec \in Seq(CallStates) /\ Len(exec) \in Nat
  BY DEF TInv, TypeOK, CallStates
<1>2. steps' \in Seq(StepData)
  BY <1>1, RecordTypes DEF TInv, TypeOK, Resume, StepData
<1>3. messages' \in Seq(Messages)
  <2>1. Results = [k \in 1..Len(exec) |-> Message("tool", k)]
    BY <1>1 DEF Results
  <2>2. Results \in Seq(Messages)
    BY <1>1, <2>1 DEF Message, Messages
  <2>3. messages \in Seq(Messages)
    BY DEF TInv, TypeOK, Messages
  <2> QED BY <2>2, <2>3, ConcatProperties DEF Resume
<1>4. sent' \in Seq(EventNames)
  BY DEF TInv, TypeOK, Resume, EventNames
<1>5. exec' = exec /\ reply' = reply
  BY DEF Resume, batchVars
<1> QED
  BY <1>2, <1>3, <1>4, <1>5
  DEF TInv, TypeOK, ExecOK, Resume, Pcs, StepData, Messages, EventNames, batchVars

LEMMA EndTyped == TInv /\ (ModelFails \/ SignatureFails \/ Close \/ Cancel) => TInv'
<1> SUFFICES ASSUME TInv, ModelFails \/ SignatureFails \/ Close \/ Cancel PROVE TInv'
  OBVIOUS
<1>1. sent' \in Seq(EventNames)
  <2>1. sent \in Seq(EventNames)
    BY DEF TInv, TypeOK, EventNames
  <2>2. CASE sent' = sent
    BY <2>1, <2>2
  <2>3. CASE \E e \in EventNames : sent' = Append(sent, e)
    BY <2>1, <2>3
  <2> QED BY <2>2, <2>3 DEF ModelFails, SignatureFails, Close, Cancel, EventNames
<1>2. pc' \in Final /\ UNCHANGED <<stepNo, messages, reply, resultVars, batchVars, registry>>
  BY DEF ModelFails, SignatureFails, Close, Cancel, Final
<1>3. TypeOK'
  BY <1>1, <1>2 DEF TInv, TypeOK, EventNames, resultVars, batchVars
<1>4. ExecOK'
  BY <1>2 DEF TInv, ExecOK, Final, batchVars
<1> QED BY <1>3, <1>4 DEF TInv

LEMMA RefreshTyped == TInv /\ Refresh => TInv'
  BY AgentAssumption DEF TInv, TypeOK, ExecOK, Refresh, resultVars, batchVars

LEMMA NextTyped == TInv /\ [Next]_vars => TInv'
<1> SUFFICES ASSUME TInv, [Next]_vars PROVE TInv'
  OBVIOUS
<1>1. CASE AgentStep
  BY <1>1, AskTyped, DeltaTyped, ResponseTyped, StopTyped, ReplanTyped,
     ExecuteTyped, CallTyped, ResumeTyped, EndTyped DEF AgentStep
<1>2. CASE Cancel \/ Refresh
  BY <1>2, EndTyped, RefreshTyped
<1>3. CASE UNCHANGED vars
  BY <1>3 DEF vars, TInv, TypeOK, ExecOK
<1> QED BY <1>1, <1>2, <1>3 DEF Next

LEMMA TypedAlways == Spec => []TInv
  BY InitTyped, NextTyped, PTL DEF Spec

\* Every variable of a run keeps its type, for all limits and all models.
THEOREM AgentTypeCorrect == Spec => []TypeOK
<1>1. TInv => TypeOK
  BY DEF TInv
<1> QED BY <1>1, TypedAlways, PTL

-----------------------------------------------------------------------------
(* A call is made once.  What was executed is among the remembered         *)
(* signatures; the calls of the batch are remembered, distinct, and those  *)
(* still waiting were never executed.                                      *)

SigOf(i) == Signature(reply.calls[i])

BatchFresh ==
  pc = "tools" =>
    /\ \A i, j \in DOMAIN exec : i # j => SigOf(i) # SigOf(j)
    /\ \A i \in DOMAIN exec :
         SigOf(i) \in seen /\ (exec[i] = "waiting" => runs[SigOf(i)] = 0)

RunsRemembered ==
  \A s \in Signatures : runs[s] <= 1 /\ (runs[s] # 0 => s \in seen)

OnceInv == TInv /\ RunsRemembered /\ BatchFresh

LEMMA BatchTypes ==
  ASSUME TInv, pc = "tools"
  PROVE  /\ DOMAIN exec = 1..Len(reply.calls)
         /\ DOMAIN reply.calls = 1..Len(reply.calls)
         /\ \A i \in DOMAIN exec : SigOf(i) \in Signatures
<1>1. exec \in Seq(CallStates) /\ reply.calls \in Seq(Call)
  BY DEF TInv, TypeOK, CallStates
<1>2. Len(exec) = Len(reply.calls)
  BY DEF TInv, ExecOK
<1> QED BY <1>1, <1>2, ElementOfSeq, SignatureType DEF SigOf

LEMMA ExecuteOnce == OnceInv /\ Execute => (RunsRemembered /\ BatchFresh)'
<1> SUFFICES ASSUME OnceInv, Execute PROVE (RunsRemembered /\ BatchFresh)'
  OBVIOUS
<1>1. ~Repeated(reply.calls)
  <2>1. Judge = "execute"
    BY DEF Execute
  <2> QED BY <2>1 DEF Judge
<1>2. /\ DOMAIN exec' = DOMAIN reply.calls
      /\ reply' = reply /\ runs' = runs
      /\ seen' = seen \cup SignaturesOf(reply.calls)
  BY DEF Execute, SeenAfter
<1>3. RunsRemembered'
  BY <1>2 DEF OnceInv, RunsRemembered
<1>4. ASSUME NEW i \in DOMAIN reply.calls
      PROVE  SigOf(i) \in Signatures /\ SigOf(i) \in seen' /\ runs[SigOf(i)] = 0
  <2>1. SigOf(i) \in SignaturesOf(reply.calls) /\ SigOf(i) \notin seen
    BY <1>1, <1>4 DEF Repeated, SignaturesOf, SigOf
  <2>2. SigOf(i) \in Signatures
    BY <1>4, SignatureType, ElementOfSeq DEF OnceInv, TInv, TypeOK, SigOf
  <2> QED BY <1>2, <2>1, <2>2 DEF OnceInv, RunsRemembered
<1>5. \A i, j \in DOMAIN reply.calls : i # j => SigOf(i) # SigOf(j)
  BY <1>1 DEF Repeated, SigOf
<1>6. \A i \in DOMAIN reply.calls : SigOf(i)' = SigOf(i)
  BY <1>2 DEF SigOf
<1> QED BY <1>2, <1>3, <1>4, <1>5, <1>6 DEF BatchFresh

LEMMA CallOnce ==
  ASSUME OnceInv, NEW i \in DOMAIN exec, StartCall(i) \/ EndCall(i)
  PROVE  (RunsRemembered /\ BatchFresh)'
<1>1. pc = "tools"
  BY DEF StartCall, EndCall
<1>2. /\ \A k \in DOMAIN exec : SigOf(k) \in Signatures
      /\ \A k \in DOMAIN exec : SigOf(k)' = SigOf(k)
      /\ DOMAIN exec' = DOMAIN exec
      /\ seen' = seen
  BY <1>1, BatchTypes DEF OnceInv, StartCall, EndCall, SigOf, resultVars
<1>3. runs \in [Signatures -> Nat]
  BY DEF OnceInv, TInv, TypeOK
<1>4. CASE /\ exec[i] = "waiting" /\ exec' = [exec EXCEPT ![i] = "running"]
           /\ runs' = [runs EXCEPT ![SigOf(i)] = @ + 1]
  <2>1. runs[SigOf(i)] = 0 /\ SigOf(i) \in seen
    BY <1>1, <1>4 DEF OnceInv, BatchFresh
  <2>2. \A s \in Signatures : runs'[s] = IF s = SigOf(i) THEN 1 ELSE runs[s]
    BY <1>2, <1>3, <1>4, <2>1
  <2>3. RunsRemembered'
    BY <1>2, <2>1, <2>2 DEF OnceInv, RunsRemembered
  <2>4. \A k \in DOMAIN exec : exec'[k] = "waiting" => k # i /\ exec[k] = "waiting"
    BY <1>4
  <2>5. \A k \in DOMAIN exec : k # i => SigOf(k) # SigOf(i)
    BY <1>1 DEF OnceInv, BatchFresh
  <2> QED BY <1>1, <1>2, <2>2, <2>3, <2>4, <2>5 DEF OnceInv, BatchFresh
<1>5. CASE /\ runs' = runs
           /\ \E e \in {"ok", "error"} : exec' = [exec EXCEPT ![i] = e]
  <2>1. \A k \in DOMAIN exec : exec'[k] = "waiting" => exec[k] = "waiting"
    BY <1>5
  <2> QED BY <1>1, <1>2, <1>5, <2>1 DEF OnceInv, RunsRemembered, BatchFresh
<1> QED BY <1>4, <1>5 DEF StartCall, EndCall, SigOf

LEMMA NextOnce == OnceInv /\ [Next]_vars => OnceInv'
<1> SUFFICES ASSUME OnceInv, [Next]_vars PROVE OnceInv'
  OBVIOUS
<1>1. TInv'
  BY NextTyped DEF OnceInv
<1>2. CASE Execute
  BY <1>1, <1>2, ExecuteOnce DEF OnceInv
<1>3. CASE \E i \in DOMAIN exec : StartCall(i) \/ EndCall(i)
  BY <1>1, <1>3, CallOnce DEF OnceInv
<1>4. CASE Refresh
  BY <1>1, <1>4
  DEF OnceInv, RunsRemembered, BatchFresh, Refresh, SigOf, resultVars, batchVars
<1>5. CASE UNCHANGED vars
  BY <1>1, <1>5 DEF OnceInv, RunsRemembered, BatchFresh, SigOf, vars
<1>6. CASE Ask \/ Delta \/ Response \/ ModelFails \/ SignatureFails \/ Stop
           \/ Replan \/ Resume \/ Close \/ Cancel
  <2>1. pc' # "tools"
    BY <1>6 DEF Ask, Delta, Response, ModelFails, SignatureFails, Stop, Replan,
                Resume, Close, Cancel
  <2>2. runs' = runs /\ seen' = seen
    BY <1>6 DEF Ask, Delta, Response, ModelFails, SignatureFails, Stop, Replan,
                Resume, Close, Cancel, batchVars, resultVars
  <2> QED BY <1>1, <2>1, <2>2 DEF OnceInv, RunsRemembered, BatchFresh
<1> QED BY <1>2, <1>3, <1>4, <1>5, <1>6 DEF Next, AgentStep

LEMMA InitOnce == Init => OnceInv
<1> SUFFICES ASSUME Init PROVE OnceInv
  OBVIOUS
<1>1. pc # "tools" /\ \A s \in Signatures : runs[s] = 0
  BY DEF Init
<1> QED BY <1>1, InitTyped DEF OnceInv, RunsRemembered, BatchFresh

\* No run of the agent executes a call twice, in whatever spelling, however
\* its batches interleave with a registry that changes.
THEOREM CallsOnce == Spec => []ToolOnce
<1>1. OnceInv => ToolOnce
  BY DEF OnceInv, RunsRemembered, ToolOnce
<1> QED BY <1>1, InitOnce, NextOnce, PTL DEF Spec

-----------------------------------------------------------------------------
(* Handlers run side by side only if all of them may.                      *)

BatchOrdered ==
  /\ together => /\ Len(exec) <= MaxParallel
                 /\ \A i \in DOMAIN exec : ToolOf(i) \in Safe
  /\ ~together => \A i, j \in DOMAIN exec :
                   j < i /\ exec[i] # "waiting" => Over(j)

SafeInv == TInv /\ BatchOrdered

LEMMA CallOrdered ==
  ASSUME SafeInv, NEW i \in DOMAIN exec, StartCall(i) \/ EndCall(i)
  PROVE  BatchOrdered'
<1>1. /\ exec \in Seq(CallStates) /\ i \in 1..Len(exec)
      /\ together' = together /\ reply' = reply
  BY DEF SafeInv, TInv, TypeOK, CallStates, StartCall, EndCall
<1>2. PICK e \in {"running", "ok", "error"} :
        /\ exec' = [exec EXCEPT ![i] = e]
        /\ exec[i] = "waiting" => MayStart(i)
        /\ exec[i] # "waiting" => e \in {"ok", "error"}
  BY DEF StartCall, EndCall
<1>3. /\ DOMAIN exec' = DOMAIN exec /\ Len(exec') = Len(exec)
      /\ \A k \in DOMAIN exec : exec'[k] = IF k = i THEN e ELSE exec[k]
  BY <1>1, <1>2
<1>4. CASE together
  BY <1>1, <1>3, <1>4 DEF SafeInv, BatchOrdered, ToolOf
<1>5. CASE ~together
  <2> SUFFICES ASSUME NEW k \in DOMAIN exec, NEW j \in DOMAIN exec,
                      j < k, exec'[k] # "waiting"
               PROVE  exec'[j] \in {"ok", "error"}
    BY <1>1, <1>3, <1>5 DEF BatchOrdered, Over
  <2>1. exec[j] \in {"ok", "error"}
    <3>1. CASE k = i /\ exec[i] = "waiting"
      <4>1. j \in 1..(i - 1)
        BY <1>1, <3>1
      <4> QED BY <1>2, <1>5, <3>1, <4>1 DEF MayStart, Over
    <3>2. CASE exec[k] # "waiting"
      BY <1>5, <3>2 DEF SafeInv, BatchOrdered, Over
    <3> QED BY <1>3, <3>1, <3>2
  <2>2. j = i => e \in {"ok", "error"}
    BY <1>2, <2>1
  <2> QED BY <1>3, <2>1, <2>2
<1> QED BY <1>4, <1>5

LEMMA ExecuteOrdered == SafeInv /\ Execute => BatchOrdered'
<1> SUFFICES ASSUME SafeInv, Execute PROVE BatchOrdered'
  OBVIOUS
<1>1. reply.calls \in Seq(Call) /\ reply' = reply
  BY DEF SafeInv, TInv, TypeOK, Execute
<1>2. exec' = [i \in 1..Len(reply.calls) |-> "waiting"] /\ Len(reply.calls) \in Nat
  BY <1>1 DEF Execute
<1>3. Len(exec') = Len(reply.calls) /\ DOMAIN exec' = DOMAIN reply.calls
  BY <1>1, <1>2
<1>4. \A i \in DOMAIN exec' : exec'[i] = "waiting"
  BY <1>2
<1>5. together' = MayRunTogether
  BY DEF Execute
<1> QED BY <1>1, <1>3, <1>4, <1>5 DEF BatchOrdered, MayRunTogether, ToolOf

LEMMA NextOrdered == SafeInv /\ [Next]_vars => SafeInv'
<1> SUFFICES ASSUME SafeInv, [Next]_vars PROVE SafeInv'
  OBVIOUS
<1>1. TInv'
  BY NextTyped DEF SafeInv
<1>2. CASE exec' = <<>>
  <2>1. Len(<<>>) = 0 /\ DOMAIN <<>> = {} /\ 0 <= MaxParallel
    BY AgentAssumption
  <2> QED BY <1>1, <1>2, <2>1 DEF SafeInv, BatchOrdered
<1>3. CASE UNCHANGED <<exec, reply, together>>
  BY <1>1, <1>3 DEF SafeInv, BatchOrdered, ToolOf, Over
<1>4. CASE Execute
  BY <1>1, <1>4, ExecuteOrdered DEF SafeInv
<1>5. CASE \E i \in DOMAIN exec : StartCall(i) \/ EndCall(i)
  BY <1>1, <1>5, CallOrdered DEF SafeInv
<1>6. CASE Ask \/ Delta \/ Response
  <2>1. Delta \/ Response => exec' = <<>>
    BY DEF SafeInv, TInv, ExecOK, Delta, Response, batchVars
  <2>2. Ask => exec' = <<>> \/ UNCHANGED <<exec, reply, together>>
    BY DEF Ask
  <2> QED BY <1>2, <1>3, <1>6, <2>1, <2>2
<1>7. CASE ModelFails \/ SignatureFails \/ Stop \/ Replan \/ Resume \/ Close
           \/ Cancel \/ Refresh \/ UNCHANGED vars
  BY <1>3, <1>7
  DEF ModelFails, SignatureFails, Stop, Replan, Resume, Close, Cancel, Refresh,
      batchVars, vars
<1> QED BY <1>4, <1>5, <1>6, <1>7 DEF Next, AgentStep

LEMMA InitOrdered == Init => SafeInv
<1> SUFFICES ASSUME Init PROVE SafeInv
  OBVIOUS
<1>1. exec = <<>> /\ Len(<<>>) = 0 /\ DOMAIN <<>> = {} /\ 0 <= MaxParallel
  BY AgentAssumption DEF Init
<1> QED BY <1>1, InitTyped DEF SafeInv, BatchOrdered

LEMMA OrderedIsSafe == SafeInv => SafeTogether
<1> SUFFICES ASSUME SafeInv, Cardinality(RunSideBySide) > 1
             PROVE  /\ Cardinality(RunSideBySide) <= MaxParallel
                    /\ \A i \in RunSideBySide : ToolOf(i) \in Safe
  BY DEF SafeTogether
<1>1. exec \in Seq(CallStates) /\ Len(exec) \in Nat /\ DOMAIN exec = 1..Len(exec)
  BY DEF SafeInv, TInv, TypeOK, CallStates
<1>2. /\ IsFiniteSet(RunSideBySide)
      /\ Cardinality(RunSideBySide) \in Nat
      /\ Cardinality(RunSideBySide) <= Len(exec)
  <2>1. IsFiniteSet(1..Len(exec)) /\ Cardinality(1..Len(exec)) = Len(exec)
    BY <1>1, FS_Interval
  <2>2. RunSideBySide \subseteq 1..Len(exec)
    BY <1>1 DEF RunSideBySide
  <2> QED BY <2>1, <2>2, FS_Subset, FS_CardinalityType
<1>3. CASE together
  BY <1>1, <1>2, <1>3, AgentAssumption DEF SafeInv, BatchOrdered, RunSideBySide
<1>4. CASE ~together
  <2>1. \A i, j \in RunSideBySide : i = j
    <3> SUFFICES ASSUME NEW i \in RunSideBySide, NEW j \in RunSideBySide, j < i
                 PROVE  FALSE
      BY <1>1 DEF RunSideBySide
    <3>1. Over(j)
      BY <1>4 DEF SafeInv, BatchOrdered, RunSideBySide
    <3> QED BY <3>1 DEF Over, RunSideBySide
  <2>2. RunSideBySide # {}
    BY FS_EmptySet
  <2>3. PICK i : RunSideBySide = {i}
    BY <2>1, <2>2
  <2>4. Cardinality({i}) = 1
    BY FS_Singleton
  <2>5. Cardinality(RunSideBySide) = 1
    BY <2>3, <2>4
  <2> QED BY <2>5
<1> QED BY <1>3, <1>4

\* Two handlers of one run are active together only if every one of them may
\* run in parallel, and never more than the limit.
THEOREM ParallelSafe == Spec => []SafeTogether
  BY InitOrdered, NextOrdered, OrderedIsSafe, PTL DEF Spec

-----------------------------------------------------------------------------
(* The agent loop implements AgentContract.                                *)

\* While tools run, neither budget is exceeded.
BudgetOK == pc = "tools" => usage <= MaxTokens /\ Len(reply.calls) <= MaxCalls

ContractInv == OnceInv /\ BudgetOK

LEMMA NextBudget == ContractInv /\ [Next]_vars => ContractInv'
<1> SUFFICES ASSUME ContractInv, [Next]_vars PROVE ContractInv'
  OBVIOUS
<1>1. OnceInv'
  BY NextOnce DEF ContractInv
<1>2. CASE Execute
  <2>1. usage' = usage /\ reply' = reply /\ Judge = "execute"
    BY <1>2 DEF Execute
  <2>2. reply.calls \in Seq(Call) /\ Len(reply.calls) \in Nat
    BY DEF ContractInv, OnceInv, TInv, TypeOK
  <2>3. reply.calls # <<>> /\ usage <= MaxTokens /\ ~(Len(reply.calls) > MaxCalls)
    <3>1. reply.calls # <<>>
      BY <2>1 DEF Judge
    <3>2. ~(usage > MaxTokens)
      BY <2>1, <3>1 DEF Judge
    <3>3. usage <= MaxTokens
      BY <3>2, AgentAssumption DEF ContractInv, OnceInv, TInv, TypeOK
    <3>4. ~(Len(reply.calls) > MaxCalls)
      BY <2>1, <3>1, <3>3 DEF Judge
    <3> QED BY <3>1, <3>3, <3>4
  <2> QED BY <1>1, <2>1, <2>2, <2>3, AgentAssumption DEF ContractInv, BudgetOK
<1>3. CASE pc' # "tools"
  BY <1>1, <1>3 DEF ContractInv, BudgetOK
<1>4. CASE pc' = pc /\ usage' = usage /\ reply' = reply
  BY <1>1, <1>4 DEF ContractInv, BudgetOK
<1>5. CASE \E i \in DOMAIN exec : StartCall(i) \/ EndCall(i)
  BY <1>4, <1>5 DEF StartCall, EndCall, resultVars
<1>6. CASE Ask \/ Delta \/ Response \/ ModelFails \/ SignatureFails \/ Stop
           \/ Replan \/ Resume \/ Close \/ Cancel
  BY <1>3, <1>6
  DEF Ask, Delta, Response, ModelFails, SignatureFails, Stop, Replan, Resume,
      Close, Cancel
<1>7. CASE Refresh \/ UNCHANGED vars
  BY <1>4, <1>7 DEF Refresh, vars, resultVars
<1> QED BY <1>2, <1>5, <1>6, <1>7 DEF Next, AgentStep

LEMMA InitBudget == Init => ContractInv
  BY InitOnce DEF Init, ContractInv, BudgetOK

\* What the entered calls of a batch are, and how many.
LEMMA EnteredFinite ==
  ASSUME TInv
  PROVE  IsFiniteSet(Entered) /\ Cardinality(Entered) \in Nat
<1>1. exec \in Seq(CallStates) /\ Len(exec) \in Nat /\ DOMAIN exec = 1..Len(exec)
  BY DEF TInv, TypeOK, CallStates
<1>2. IsFiniteSet(1..Len(exec)) /\ Entered \subseteq 1..Len(exec)
  BY <1>1, FS_Interval DEF Entered
<1> QED BY <1>2, FS_Subset, FS_CardinalityType

LEMMA ContractStart == Init => Contract!ContractInit
<1> SUFFICES ASSUME Init PROVE Contract!ContractInit
  OBVIOUS
<1>1. Entered = {}
  BY DEF Init, Entered
<1>2. MaxCalls - Cardinality(Entered) = MaxCalls
  BY <1>1, FS_EmptySet, AgentAssumption
<1>4. (pc = "receive") = FALSE /\ (pc \notin Final) = TRUE
  BY DEF Init, Final
<1> QED BY <1>2, <1>4 DEF Init, Contract!ContractInit

\* A call that is started uses one entry of the contract: it enters its handler,
\* for the first time in the run, or is refused.
LEMMA StartEnters ==
  ASSUME ContractInv, NEW i \in DOMAIN exec, StartCall(i),
         NEW s \in Signatures, s = SigOf(i)
  PROVE  Contract!EnterTool(s) \/ Contract!RefuseCall
<1>1. /\ pc = "tools" /\ pc' = pc /\ stepNo' = stepNo /\ usage' = usage
      /\ exec[i] = "waiting"
      /\ \E e \in {"running", "error"} : exec' = [exec EXCEPT ![i] = e]
  BY DEF StartCall, resultVars
<1>2. /\ exec \in Seq(CallStates) /\ DOMAIN exec = 1..Len(reply.calls)
      /\ Len(reply.calls) \in Nat
  <2>1. TInv /\ exec \in Seq(CallStates) /\ Len(reply.calls) \in Nat
    BY DEF ContractInv, OnceInv, TInv, TypeOK, CallStates
  <2> QED BY <1>1, <2>1, BatchTypes
<1>3. Entered' = Entered \cup {i} /\ i \notin Entered
  BY <1>1, <1>2 DEF Entered
<1>4. IsFiniteSet(Entered) /\ Cardinality(Entered) \in Nat
  BY EnteredFinite DEF ContractInv, OnceInv
<1>5. Cardinality(Entered') = Cardinality(Entered) + 1
  BY <1>3, <1>4, FS_AddElement
<1>6. Cardinality(Entered') <= Len(reply.calls)
  <2>1. Entered' \subseteq 1..Len(reply.calls)
    BY <1>2, <1>3 DEF Entered
  <2>2. /\ IsFiniteSet(1..Len(reply.calls))
        /\ Cardinality(1..Len(reply.calls)) = Len(reply.calls)
    BY <1>2, FS_Interval
  <2> QED BY <2>1, <2>2, FS_Subset
<1>7. /\ MaxCalls - Cardinality(Entered) > 0
      /\ MaxCalls - Cardinality(Entered') = (MaxCalls - Cardinality(Entered)) - 1
  BY <1>1, <1>2, <1>4, <1>5, <1>6, AgentAssumption DEF ContractInv, BudgetOK
<1>8. runs[s] = 0 /\ runs \in [Signatures -> Nat]
  BY <1>1 DEF ContractInv, OnceInv, BatchFresh, TInv, TypeOK
<1>9. runs' = [runs EXCEPT ![s] = 1] \/ runs' = runs
  <2>1. [runs EXCEPT ![s] = @ + 1] = [runs EXCEPT ![s] = 1]
    BY <1>8
  <2> QED BY <2>1 DEF StartCall, SigOf
<1>10. usage <= MaxTokens
  BY <1>1 DEF ContractInv, BudgetOK
<1>11. /\ (pc \notin Final) = TRUE /\ (pc' \notin Final) = TRUE
       /\ (pc = "receive") = FALSE /\ (pc' = "receive") = FALSE
  BY <1>1 DEF Final
<1>12. Contract!MayCall
  BY <1>7, <1>10, <1>11 DEF Contract!MayCall
<1> QED
  BY <1>1, <1>7, <1>8, <1>9, <1>11, <1>12
  DEF Contract!EnterTool, Contract!RefuseCall

LEMMA SameEntered ==
  ASSUME TInv, NEW i \in DOMAIN exec, EndCall(i)
  PROVE  Entered' = Entered
<1>1. PICK e \in {"ok", "error"} : exec' = [exec EXCEPT ![i] = e]
  BY DEF EndCall
<1>2. /\ DOMAIN exec' = DOMAIN exec
      /\ \A k \in DOMAIN exec : exec'[k] = IF k = i THEN e ELSE exec[k]
  BY <1>1 DEF TInv, TypeOK
<1>3. exec[i] # "waiting"
  BY DEF EndCall
<1> QED BY <1>2, <1>3 DEF Entered

LEMMA ContractStep ==
  ContractInv /\ [Next]_vars => [Contract!ContractNext]_(Contract!contractVars)
<1> SUFFICES ASSUME ContractInv, [Next]_vars
             PROVE  [Contract!ContractNext]_(Contract!contractVars)
  OBVIOUS
<1>1. CASE UNCHANGED <<stepNo, usage, runs, Entered>>
           /\ ((pc = "receive") <=> (pc' = "receive"))
           /\ ((pc \in Final) <=> (pc' \in Final))
  BY <1>1 DEF Contract!contractVars
<1>2. CASE Ask
  <2>1. CASE stepNo < MaxSteps
    <3>1. Entered' = {}
      BY <1>2, <2>1 DEF Ask, Entered
    <3>2. MaxCalls - Cardinality(Entered') = MaxCalls
      BY <3>1, FS_EmptySet, AgentAssumption
    <3>3. /\ (pc \notin Final) = TRUE /\ (pc' \notin Final) = TRUE
          /\ (pc = "receive") = FALSE /\ (pc' = "receive") = TRUE
      BY <1>2, <2>1 DEF Ask, Final
    <3>4. Contract!AskModel
      BY <1>2, <2>1, <3>2, <3>3 DEF Ask, Contract!AskModel
    <3> QED BY <3>4 DEF Contract!ContractNext
  <2>2. CASE ~(stepNo < MaxSteps)
    BY <1>1, <1>2, <2>2 DEF Ask, Entered, Final
  <2> QED BY <2>1, <2>2
<1>3. CASE Response
  <2>1. exec' = exec /\ runs' = runs /\ stepNo' = stepNo
    BY <1>3 DEF Response, batchVars
  <2>2. usage' >= usage
    <3>1. PICK use \in 0..MaxUse : usage' = usage + use
      BY <1>3 DEF Response
    <3> QED BY <3>1, AgentAssumption DEF ContractInv, OnceInv, TInv, TypeOK
  <2>3. /\ (pc \notin Final) = TRUE /\ (pc' \notin Final) = TRUE
        /\ (pc = "receive") = TRUE /\ (pc' = "receive") = FALSE
    BY <1>3 DEF Response, Final
  <2>4. Contract!Answer
    BY <2>1, <2>2, <2>3 DEF Contract!Answer, Entered
  <2> QED BY <2>4 DEF Contract!ContractNext
<1>4. CASE ModelFails \/ SignatureFails \/ Close \/ Cancel
  <2>1. exec' = exec /\ runs' = runs /\ stepNo' = stepNo /\ usage' = usage
    BY <1>4 DEF ModelFails, SignatureFails, Close, Cancel, batchVars, resultVars
  <2>2. /\ (pc \notin Final) = TRUE /\ (pc' \notin Final) = FALSE
        /\ (pc' = "receive") = FALSE
    BY <1>4 DEF ModelFails, SignatureFails, Close, Cancel, Pcs, Final
  <2>3. Contract!End
    BY <2>1, <2>2 DEF Contract!End, Entered
  <2> QED BY <2>3 DEF Contract!ContractNext
<1>5. CASE Execute
  <2>1. Entered = {}
    BY <1>5 DEF ContractInv, OnceInv, TInv, ExecOK, Execute, Entered
  <2>2. Entered' = {}
    BY <1>5 DEF Execute, Entered
  <2> QED BY <1>1, <1>5, <2>1, <2>2 DEF Execute, Final
<1>6. ASSUME NEW i \in DOMAIN exec, StartCall(i)
      PROVE  [Contract!ContractNext]_(Contract!contractVars)
  <2>1. SigOf(i) \in Signatures
    BY <1>6, BatchTypes DEF ContractInv, OnceInv, StartCall
  <2>2. PICK s \in Signatures : s = SigOf(i)
    BY <2>1
  <2>3. Contract!EnterTool(s) \/ Contract!RefuseCall
    BY <1>6, <2>2, StartEnters
  <2> QED BY <2>3 DEF Contract!ContractNext
<1>7. ASSUME NEW i \in DOMAIN exec, EndCall(i)
      PROVE  [Contract!ContractNext]_(Contract!contractVars)
  BY <1>1, <1>7, SameEntered DEF EndCall, resultVars, ContractInv, OnceInv
<1>8. CASE Delta \/ Stop \/ Replan \/ Resume \/ Refresh \/ UNCHANGED vars
  BY <1>1, <1>8
  DEF Delta, Stop, Replan, Resume, Refresh, vars, batchVars, resultVars, Entered,
      Final
<1> QED BY <1>2, <1>3, <1>4, <1>5, <1>6, <1>7, <1>8 DEF Next, AgentStep

\* The agent loop implements the contract of a run.
THEOREM AgentImplements == Spec => KeepsAgentContract
  BY InitBudget, NextBudget, ContractStart, ContractStep, PTL
  DEF Spec, KeepsAgentContract, Contract!ContractSpec

-----------------------------------------------------------------------------
(* The conversation stays well formed.                                     *)

\* While its calls are judged and run, the assistant message that asked for
\* them is the last one, and all before it is answered.
Pending(front) ==
  /\ Answered(front)
  /\ messages = Append(front, Message("assistant", Len(reply.calls)))

TailOK ==
  /\ AskWellFormed
  /\ pc \in {"decide", "tools"} => \E front \in Seq(Messages) : Pending(front)

WellInv == TInv /\ TailOK

LEMMA UserKeepsAnswered ==
  ASSUME NEW ms \in Seq(Messages), Answered(ms)
  PROVE  Answered(Append(ms, Message("user", 0)))
<1> DEFINE new == Append(ms, Message("user", 0))
<1>1. Message("user", 0) \in Messages BY DEF Message, Messages
<1>2. /\ new \in Seq(Messages) /\ Len(new) = Len(ms) + 1 /\ Len(ms) \in Nat
      /\ \A i \in 1..Len(ms) : new[i] = ms[i]
      /\ new[Len(ms) + 1] = Message("user", 0)
  BY <1>1, AppendProperties
<1> HIDE DEF new
<1> SUFFICES ASSUME NEW i \in DOMAIN new
             PROVE  /\ new[i].role = "assistant" =>
                         /\ i + new[i].n <= Len(new)
                         /\ \A k \in 1..new[i].n : new[i + k] = Message("tool", k)
                    /\ new[i].role = "tool" =>
                         /\ new[i].n < i
                         /\ new[i - new[i].n].role = "assistant"
                         /\ new[i].n <= new[i - new[i].n].n
  BY DEF Answered, new
<1>3. i \in 1..(Len(ms) + 1) BY <1>2
<1>4. CASE i = Len(ms) + 1 BY <1>2, <1>4 DEF Message
<1>5. CASE i \in 1..Len(ms)
  <2>1. new[i] = ms[i] /\ ms[i].n \in Nat
    <3>1. ms[i] \in Messages BY <1>2, <1>5
    <3>2. ms[i].n \in Nat BY <3>1 DEF Messages
    <3> QED BY <3>2, <1>2, <1>5
  <2>2. /\ ms[i].role = "assistant" =>
             /\ i + ms[i].n <= Len(ms)
             /\ \A k \in 1..ms[i].n : ms[i + k] = Message("tool", k)
        /\ ms[i].role = "tool" =>
             /\ ms[i].n < i
             /\ ms[i - ms[i].n].role = "assistant"
             /\ ms[i].n <= ms[i - ms[i].n].n
    BY <1>5 DEF Answered
  <2>3. \A k \in 1..ms[i].n : i + ms[i].n <= Len(ms) => new[i + k] = ms[i + k]
    <3> SUFFICES ASSUME NEW k \in 1..ms[i].n, i + ms[i].n <= Len(ms)
                 PROVE  new[i + k] = ms[i + k]
      OBVIOUS
    <3>1. i + k \in 1..Len(ms) BY <1>2, <1>5, <2>1
    <3> QED BY <1>2, <3>1
  <2>4. ms[i].n < i => new[i - ms[i].n] = ms[i - ms[i].n]
    BY <1>2, <1>5, <2>1
  <2> QED BY <1>2, <2>1, <2>2, <2>3, <2>4
<1> QED BY <1>2, <1>3, <1>4, <1>5

LEMMA ResultsAnswer ==
  ASSUME NEW ms \in Seq(Messages), Answered(ms),
         NEW n \in Nat, NEW rs \in Seq(Messages), Len(rs) = n,
         \A k \in 1..n : rs[k] = Message("tool", k)
  PROVE  Answered(Append(ms, Message("assistant", n)) \o rs)
<1> DEFINE asked == Append(ms, Message("assistant", n))
           new   == asked \o rs
<1>1. Message("assistant", n) \in Messages BY DEF Message, Messages
<1>2. /\ asked \in Seq(Messages) /\ Len(asked) = Len(ms) + 1 /\ Len(ms) \in Nat
      /\ \A i \in 1..Len(ms) : asked[i] = ms[i]
      /\ asked[Len(ms) + 1] = Message("assistant", n)
  BY <1>1, AppendProperties
<1> HIDE DEF asked
<1>3. /\ new \in Seq(Messages) /\ Len(new) = Len(asked) + n
      /\ \A i \in 1..(Len(asked) + n) :
           new[i] = IF i <= Len(asked) THEN asked[i] ELSE rs[i - Len(asked)]
  BY <1>2, ConcatProperties
<1> HIDE DEF new
<1>4. \A i \in 1..Len(ms) : new[i] = ms[i]
  BY <1>2, <1>3
<1>5. new[Len(ms) + 1] = Message("assistant", n)
  BY <1>2, <1>3
<1>6. \A k \in 1..n : new[Len(ms) + 1 + k] = Message("tool", k)
  <2> TAKE k \in 1..n
  <2>1. PICK j \in 1..(Len(asked) + n) : j = Len(ms) + 1 + k
    <3>1. Len(ms) + 1 + k \in 1..(Len(asked) + n) BY <1>2
    <3> QED BY <3>1
  <2>2. ~(j <= Len(asked)) /\ j - Len(asked) = k BY <1>2, <2>1
  <2>3. new[j] = rs[k] BY <1>3, <2>2
  <2> QED BY <2>1, <2>3
<1> SUFFICES ASSUME NEW i \in DOMAIN new
             PROVE  /\ new[i].role = "assistant" =>
                         /\ i + new[i].n <= Len(new)
                         /\ \A k \in 1..new[i].n : new[i + k] = Message("tool", k)
                    /\ new[i].role = "tool" =>
                         /\ new[i].n < i
                         /\ new[i - new[i].n].role = "assistant"
                         /\ new[i].n <= new[i - new[i].n].n
  BY DEF Answered, new, asked
<1>7. i \in 1..(Len(ms) + 1 + n) BY <1>2, <1>3
<1>8. CASE i = Len(ms) + 1
  BY <1>2, <1>3, <1>5, <1>6, <1>8 DEF Message
<1>9. CASE i \in 1..Len(ms)
  <2>1. new[i] = ms[i] /\ ms[i].n \in Nat
    <3>1. ms[i] \in Messages BY <1>2, <1>9
    <3>2. ms[i].n \in Nat BY <3>1 DEF Messages
    <3> QED BY <3>2, <1>4, <1>9
  <2>2. /\ ms[i].role = "assistant" =>
             /\ i + ms[i].n <= Len(ms)
             /\ \A k \in 1..ms[i].n : ms[i + k] = Message("tool", k)
        /\ ms[i].role = "tool" =>
             /\ ms[i].n < i
             /\ ms[i - ms[i].n].role = "assistant"
             /\ ms[i].n <= ms[i - ms[i].n].n
    BY <1>9 DEF Answered
  <2>3. \A k \in 1..ms[i].n : i + ms[i].n <= Len(ms) => new[i + k] = ms[i + k]
    <3> SUFFICES ASSUME NEW k \in 1..ms[i].n, i + ms[i].n <= Len(ms)
                 PROVE  new[i + k] = ms[i + k]
      OBVIOUS
    <3>1. i + k \in 1..Len(ms) BY <1>2, <1>9, <2>1
    <3> QED BY <1>4, <3>1
  <2>4. ms[i].n < i => new[i - ms[i].n] = ms[i - ms[i].n]
    BY <1>2, <1>4, <1>9, <2>1
  <2>5. Len(ms) <= Len(new) /\ Len(new) \in Nat /\ Len(ms) \in Nat /\ i \in Nat
    BY <1>2, <1>3, <1>9
  <2>6. new[i].role = "assistant" =>
             /\ i + new[i].n <= Len(new)
             /\ \A k \in 1..new[i].n : new[i + k] = Message("tool", k)
    BY <2>1, <2>2, <2>3, <2>5
  <2> QED BY <2>1, <2>2, <2>4, <2>6
<1>10. CASE i \in (Len(ms) + 2)..(Len(ms) + 1 + n)
  <2>1. PICK k \in 1..n : i = Len(ms) + 1 + k
    <3>1. i - (Len(ms) + 1) \in 1..n BY <1>2, <1>10
    <3> QED BY <1>2, <1>10, <3>1
  <2>2. new[i] = [role |-> "tool", n |-> k] BY <1>6, <2>1 DEF Message
  <2>3. i - k = Len(ms) + 1 BY <1>2, <2>1
  <2>4. new[i - k] = [role |-> "assistant", n |-> n] BY <1>5, <2>3 DEF Message
  <2> QED BY <1>2, <2>1, <2>2, <2>4
<1> QED BY <1>2, <1>7, <1>8, <1>9, <1>10

LEMMA FrontOfAppend ==
  ASSUME NEW ms \in Seq(Messages), NEW m \in Messages
  PROVE  SubSeq(Append(ms, m), 1, Len(Append(ms, m)) - 1) = ms
<1> DEFINE new == Append(ms, m)
<1>1. /\ Len(new) = Len(ms) + 1 /\ Len(ms) \in Nat
      /\ \A i \in 1..Len(ms) : new[i] = ms[i] /\ ms[i] \in Messages
  BY AppendProperties
<1> HIDE DEF new
<1> DEFINE front == SubSeq(new, 1, Len(ms))
<1>2. /\ front \in Seq(Messages) /\ Len(front) = Len(ms)
      /\ \A i \in 1..Len(ms) : front[i] = new[i]
  BY <1>1, SubSeqProperties
<1> HIDE DEF front
<1>3. front = ms
  BY <1>1, <1>2, SeqEqual
<1>4. Len(new) - 1 = Len(ms)
  BY <1>1
<1> QED BY <1>3, <1>4 DEF front, new

LEMMA InitWell == Init => WellInv
<1> SUFFICES ASSUME Init PROVE WellInv
  OBVIOUS
<1>1. Answered(<<Message("user", 0)>>)
  BY DEF Answered, Message
<1> QED BY <1>1, InitTyped DEF WellInv, TailOK, AskWellFormed, Init

LEMMA ResponseWell == WellInv /\ Response => TailOK'
<1> SUFFICES ASSUME WellInv, Response PROVE TailOK'
  OBVIOUS
<1>1. PICK calls \in Batches, use \in 0..MaxUse :
        /\ reply' = [reply EXCEPT !.calls = calls, !.use = use]
        /\ messages' = Append(messages, Message("assistant", Len(calls)))
  BY DEF Response
<1>2. reply'.calls = calls
  BY <1>1 DEF WellInv, TInv, TypeOK
<1>3. messages \in Seq(Messages) /\ Answered(messages) /\ pc' = "decide"
  BY DEF WellInv, TInv, TypeOK, TailOK, AskWellFormed, Response, Messages
<1> QED BY <1>1, <1>2, <1>3 DEF TailOK, AskWellFormed, Pending

LEMMA ReplanWell == WellInv /\ Replan => TailOK'
<1> SUFFICES ASSUME WellInv, Replan PROVE TailOK'
  OBVIOUS
<1>1. PICK front \in Seq(Messages) : Pending(front)
  BY DEF WellInv, TailOK, Replan
<1>2. Len(reply.calls) \in Nat BY DEF WellInv, TInv, TypeOK
<1>3. Message("assistant", Len(reply.calls)) \in Messages
  BY <1>2 DEF Message, Messages
<1>4. SubSeq(messages, 1, Len(messages) - 1) = front
  BY <1>1, <1>3, FrontOfAppend DEF Pending
<1>5. Message("user", 0) \in Messages BY DEF Message, Messages
<1>6. messages' = Append(front, Message("user", 0))
  BY <1>1, <1>4, <1>5, AppendIsConcat DEF Replan, Replanned
<1>7. Answered(Append(front, Message("user", 0)))
  BY <1>1, UserKeepsAnswered DEF Pending
<1>8. Answered(messages') BY <1>6, <1>7
<1> QED BY <1>8 DEF Replan, TailOK, AskWellFormed, Answered

LEMMA ResumeWell == WellInv /\ Resume => TailOK'
<1> SUFFICES ASSUME WellInv, Resume PROVE TailOK'
  OBVIOUS
<1>1. PICK front \in Seq(Messages) : Pending(front)
  BY DEF WellInv, TailOK, Resume
<1>2. /\ Len(reply.calls) \in Nat /\ Len(exec) = Len(reply.calls)
      /\ DOMAIN exec = 1..Len(exec)
  BY DEF WellInv, TInv, TypeOK, ExecOK, Resume
<1>3. /\ Results \in Seq(Messages) /\ Len(Results) = Len(reply.calls)
      /\ \A k \in 1..Len(reply.calls) : Results[k] = Message("tool", k)
  BY <1>2 DEF Results, Message, Messages
<1>4. Answered(Append(front, Message("assistant", Len(reply.calls))) \o Results)
  BY <1>1, <1>2, <1>3, ResultsAnswer DEF Pending
<1>5. messages' = Append(front, Message("assistant", Len(reply.calls))) \o Results
  BY <1>1 DEF Resume, Pending
<1>6. Answered(messages') BY <1>4, <1>5
<1> QED BY <1>6 DEF Resume, TailOK, AskWellFormed, Answered

LEMMA NextWell == WellInv /\ [Next]_vars => WellInv'
<1> SUFFICES ASSUME WellInv, [Next]_vars PROVE WellInv'
  OBVIOUS
<1>1. TInv' BY NextTyped DEF WellInv
<1>2. CASE Response BY <1>1, <1>2, ResponseWell DEF WellInv
<1>3. CASE Replan BY <1>1, <1>3, ReplanWell DEF WellInv
<1>4. CASE Resume BY <1>1, <1>4, ResumeWell DEF WellInv
<1>5. CASE /\ UNCHANGED messages
           /\ pc' \in {"ask", "receive"} => pc \in {"ask", "receive"}
           /\ pc' \in {"decide", "tools"} =>
                pc \in {"decide", "tools"} /\ UNCHANGED reply
  BY <1>1, <1>5 DEF WellInv, TailOK, AskWellFormed, Answered, Pending
<1>6. CASE Ask \/ Delta \/ ModelFails \/ SignatureFails \/ Stop \/ Close \/ Cancel
  BY <1>5, <1>6
  DEF Ask, Delta, ModelFails, SignatureFails, Stop, Close, Cancel, Pcs, Final
<1>7. CASE Execute \/ Refresh \/ UNCHANGED vars
  BY <1>5, <1>7 DEF Execute, Refresh, vars
<1>8. CASE \E i \in DOMAIN exec : StartCall(i) \/ EndCall(i)
  BY <1>5, <1>8 DEF StartCall, EndCall
<1> QED BY <1>2, <1>3, <1>4, <1>6, <1>7, <1>8 DEF Next, AgentStep

\* Whenever the model is asked, every call an assistant message made has its
\* result, in order, and a dropped plan leaves nothing behind (Agent.stream).
THEOREM AsksWellFormed == Spec => []AskWellFormed
<1>1. WellInv => AskWellFormed BY DEF WellInv, TailOK
<1> QED BY <1>1, InitWell, NextWell, PTL DEF Spec

-----------------------------------------------------------------------------
(* The text shown is the answer.                                           *)

\* The recursion of Shown, as a function of the number of events taken.
After(events) ==
  LET after[i \in 0..Len(events)] ==
        IF i = 0 THEN 0 ELSE ShownStep(after[i - 1], events[i])
  IN after

LEMMA AfterIs ==
  ASSUME NEW E, NEW s \in Seq(E)
  PROVE  /\ Shown(s) = After(s)[Len(s)]
         /\ After(s) \in [0..Len(s) -> Nat]
         /\ After(s)[0] = 0
         /\ \A i \in 1..Len(s) : After(s)[i] = ShownStep(After(s)[i-1], s[i])
<1>1. Shown(s) = After(s)[Len(s)] BY DEF Shown, After
<1> DEFINE N == Len(s)
           Eqn(f) == f = [i \in 0..N |-> IF i = 0 THEN 0 ELSE ShownStep(f[i-1], s[i])]
           step == [p \in Nat \X (1..N) |-> ShownStep(p[1], s[p[2]])]
<1>2. After(s) = CHOOSE f : Eqn(f) BY DEF After
<1>3. N \in Nat OBVIOUS
<1>4. step \in [Nat \X (1..N) -> Nat]
  BY DEF ShownStep
<1>5. \A n \in Nat, i \in 1..N : step[<<n, i>>] = ShownStep(n, s[i])
  OBVIOUS
<1> HIDE DEF step, N
<1>6. \E g : IsRun(g, Nat, 0, N, step)
  BY <1>3, <1>4, RunExists
<1>7. PICK g : g \in [0..N -> Nat] /\ g[0] = 0 /\ \A i \in 1..N : g[i] = step[<<g[i-1], i>>]
  BY <1>6 DEF IsRun
<1> USE DEF N
<1>8. \A i \in 1..N : g[i] = ShownStep(g[i-1], s[i])
  <2> TAKE i \in 1..N
  <2>1. g[i-1] \in Nat BY <1>3, <1>7
  <2> QED BY <2>1, <1>5, <1>7
<1>9. Eqn(g) BY <1>3, <1>7, <1>8
<1>10. Eqn(After(s)) BY <1>2, <1>9
<1>11. After(s)[0] = 0 /\ \A i \in 1..N : After(s)[i] = ShownStep(After(s)[i-1], s[i])
  BY <1>10, <1>3
<1>12. \A i \in 0..N : After(s)[i] = g[i]
  <2>1. \A i \in 1..N : After(s)[i-1] = g[i-1] => After(s)[i] = g[i]
    BY <1>8, <1>11
  <2>2. After(s)[0] = g[0] BY <1>7, <1>11
  <2> HIDE DEF N
  <2> QED BY <1>3, <2>1, <2>2, RunsAgree, ZenonT(30)
<1>13. After(s) \in [0..N -> Nat]
  <2>1. After(s) = [i \in 0..N |-> After(s)[i]] BY <1>10
  <2> QED BY <1>7, <1>12, <2>1
<1> QED BY <1>1, <1>11, <1>13

\* One more event is one more step.
LEMMA ShownAppend ==
  ASSUME NEW E, NEW s \in Seq(E), NEW e \in E
  PROVE  Shown(Append(s, e)) = ShownStep(Shown(s), e) /\ Shown(s) \in Nat
<1> DEFINE t == Append(s, e)
<1>1. /\ t \in Seq(E) /\ Len(t) = Len(s) + 1 /\ Len(s) \in Nat
      /\ \A i \in 1..Len(s) : t[i] = s[i]
      /\ t[Len(s) + 1] = e
  BY AppendProperties
<1> HIDE DEF t
<1>2. /\ Shown(s) = After(s)[Len(s)] /\ After(s)[0] = 0
      /\ After(s) \in [0..Len(s) -> Nat]
      /\ \A i \in 1..Len(s) : After(s)[i] = ShownStep(After(s)[i-1], s[i])
  BY AfterIs
<1>3. /\ Shown(t) = After(t)[Len(t)] /\ After(t)[0] = 0
      /\ \A i \in 1..Len(t) : After(t)[i] = ShownStep(After(t)[i-1], t[i])
  BY <1>1, AfterIs
<1>4. \A i \in 1..Len(s) : After(t)[i-1] = After(s)[i-1] => After(t)[i] = After(s)[i]
  <2> TAKE i \in 1..Len(s)
  <2>1. i \in 1..Len(t) BY <1>1
  <2> QED BY <2>1, <1>1, <1>2, <1>3
<1>5. \A i \in 0..Len(s) : After(t)[i] = After(s)[i]
  <2>1. After(t)[0] = After(s)[0] BY <1>2, <1>3
  <2> QED BY <1>1, <1>4, <2>1, RunsAgree, ZenonT(30)
<1>6. Len(s) \in 0..Len(s) /\ Len(t) \in 1..Len(t) /\ Len(t) - 1 = Len(s)
  BY <1>1
<1>7. Shown(t) = ShownStep(Shown(s), e)
  BY <1>1, <1>2, <1>3, <1>5, <1>6
<1> QED BY <1>1, <1>2, <1>6, <1>7 DEF t

\* What is shown at each point: the text received so far, then the whole text
\* of the response unless it asked for tools.
ShownInv ==
  /\ TInv
  /\ pc = "ask" => Shown(sent) = 0
  /\ pc = "receive" => Shown(sent) = reply.text
  /\ pc \in {"decide", "tools"} =>
       Shown(sent) = IF reply.calls = <<>> THEN reply.text ELSE 0
  /\ pc = "tools" => reply.calls # <<>>
  /\ pc \in {"close", "done"} /\ verdict = "completed" => Shown(sent) = reply.text
  /\ pc \in Pcs \ {"close"} => verdict = "none"

LEMMA InitShown == Init => ShownInv
<1> SUFFICES ASSUME Init PROVE ShownInv
  OBVIOUS
<1>1. <<>> \in Seq(EventNames) /\ Len(<<>>) = 0
  OBVIOUS
<1>2. Shown(<<>>) = After(<<>>)[0] /\ After(<<>>)[0] = 0
  BY <1>1, AfterIs
<1>3. TInv BY InitTyped
<1>4. sent = <<>> /\ pc = "ask" /\ verdict = "none" BY DEF Init
<1> QED BY <1>2, <1>3, <1>4 DEF ShownInv

\* An event that is no text leaves what is shown.
LEMMA SilentEvent ==
  ASSUME TInv, NEW e \in {"step", "done", "error"}, sent' = Append(sent, e)
  PROVE  Shown(sent') = Shown(sent)
<1>1. sent \in Seq(EventNames) /\ e \in EventNames
  BY DEF TInv, TypeOK, EventNames
<1>2. Shown(sent') = ShownStep(Shown(sent), e)
  BY <1>1, ShownAppend
<1> QED BY <1>2 DEF ShownStep

LEMMA DeltaShown == ShownInv /\ Delta => Shown(sent') = reply'.text
<1> SUFFICES ASSUME ShownInv, Delta PROVE Shown(sent') = reply'.text
  OBVIOUS
<1>1. sent \in Seq(EventNames) /\ "text" \in EventNames
  BY DEF ShownInv, TInv, TypeOK, EventNames
<1>2. Shown(sent') = ShownStep(Shown(sent), "text")
  BY <1>1, ShownAppend DEF Delta
<1>3. Shown(sent) = reply.text BY DEF ShownInv, Delta
<1>4. reply'.text = reply.text + 1 BY DEF ShownInv, TInv, TypeOK, Delta
<1> QED BY <1>2, <1>3, <1>4 DEF ShownStep

LEMMA ResponseShown ==
  ShownInv /\ Response =>
    Shown(sent') = IF reply'.calls = <<>> THEN reply'.text ELSE 0
<1> SUFFICES ASSUME ShownInv, Response
             PROVE Shown(sent') = IF reply'.calls = <<>> THEN reply'.text ELSE 0
  OBVIOUS
<1>1. PICK calls \in Batches, use \in 0..MaxUse :
        /\ reply' = [reply EXCEPT !.calls = calls, !.use = use]
        /\ sent' = sent \o Reset(calls)
  BY DEF Response
<1>2. reply'.calls = calls /\ reply'.text = reply.text /\ reply.text \in Nat
  BY <1>1 DEF ShownInv, TInv, TypeOK
<1>3. sent \in Seq(EventNames) /\ "text_reset" \in EventNames
  BY DEF ShownInv, TInv, TypeOK, EventNames
<1>4. Shown(sent) = reply.text BY DEF ShownInv, Response
<1>5. CASE calls # <<>> /\ reply.text > 0
  <2>1. sent' = Append(sent, "text_reset")
    BY <1>1, <1>3, <1>5, AppendIsConcat DEF Reset
  <2>2. Shown(sent') = ShownStep(Shown(sent), "text_reset")
    BY <1>3, <2>1, ShownAppend
  <2> QED BY <1>2, <1>5, <2>2 DEF ShownStep
<1>6. CASE ~(calls # <<>> /\ reply.text > 0)
  <2>1. sent' = sent BY <1>1, <1>3, <1>6, ConcatEmptySeq DEF Reset
  <2> QED BY <1>2, <1>4, <1>6, <2>1
<1> QED BY <1>5, <1>6

LEMMA NextShown == ShownInv /\ [Next]_vars => ShownInv'
<1> SUFFICES ASSUME ShownInv, [Next]_vars PROVE ShownInv'
  OBVIOUS
<1>1. TInv' BY NextTyped DEF ShownInv
<1>2. CASE Ask
  BY <1>1, <1>2 DEF ShownInv, Ask, NoReply, Pcs
<1>3. CASE Delta
  <2>1. /\ pc = "receive" /\ pc' = "receive" /\ verdict' = verdict
    BY <1>3 DEF Delta, resultVars
  <2> QED BY <1>1, <1>3, <2>1, DeltaShown DEF ShownInv, Pcs
<1>4. CASE Response
  <2>1. pc = "receive" /\ pc' = "decide" /\ verdict' = verdict
    BY <1>4 DEF Response
  <2> QED BY <1>1, <1>4, <2>1, ResponseShown DEF ShownInv, Pcs
<1>5. CASE Stop
  <2>1. /\ pc = "decide" /\ pc' = "close" /\ verdict' = Judge /\ reply' = reply
        /\ sent' = Append(sent, "step")
    BY <1>5 DEF Stop
  <2>2. Shown(sent') = Shown(sent) BY <2>1, SilentEvent DEF ShownInv
  <2>3. Judge = "completed" => reply.calls = <<>>
    BY DEF Judge
  <2> QED BY <1>1, <2>1, <2>2, <2>3 DEF ShownInv, Pcs
<1>6. CASE Replan \/ Execute
  <2>1. Judge # "completed" /\ pc = "decide" BY <1>6 DEF Replan, Execute
  <2>2. reply.calls # <<>> BY <2>1 DEF Judge
  <2>3. UNCHANGED <<reply, verdict, sent>> /\ pc' \in {"ask", "tools"}
    BY <1>6 DEF Replan, Execute
  <2> QED BY <1>1, <2>1, <2>2, <2>3 DEF ShownInv, Pcs
<1>7. CASE \E i \in DOMAIN exec : StartCall(i) \/ EndCall(i)
  BY <1>1, <1>7 DEF ShownInv, StartCall, EndCall, resultVars, Pcs
<1>8. CASE Resume
  <2>1. /\ pc = "tools" /\ pc' = "ask" /\ verdict' = verdict /\ reply' = reply
        /\ sent' = Append(sent, "step")
    BY <1>8 DEF Resume
  <2>2. Shown(sent') = Shown(sent) BY <2>1, SilentEvent DEF ShownInv
  <2> QED BY <1>1, <2>1, <2>2 DEF ShownInv, Pcs
<1>9. CASE Close
  <2>1. /\ pc = "close" /\ pc' = "done" /\ verdict' = verdict /\ reply' = reply
        /\ \E e \in {"done", "error"} : sent' = Append(sent, e)
    BY <1>9 DEF Close, resultVars
  <2>2. Shown(sent') = Shown(sent) BY <2>1, SilentEvent DEF ShownInv
  <2> QED BY <1>1, <2>1, <2>2 DEF ShownInv, Pcs
<1>10. CASE ModelFails \/ SignatureFails \/ Cancel
  BY <1>1, <1>10 DEF ShownInv, ModelFails, SignatureFails, Cancel, Pcs
<1>11. CASE Refresh \/ UNCHANGED vars
  BY <1>1, <1>11 DEF ShownInv, Refresh, vars, resultVars, Pcs
<1> QED
  BY <1>2, <1>3, <1>4, <1>5, <1>6, <1>7, <1>8, <1>9, <1>10, <1>11
  DEF Next, AgentStep

\* What the consumer shows when the run completes is the text of the answer
\* alone, whatever was streamed and taken back before (text_reset in
\* Agent.stream, ChatWorker's accumulation).
THEOREM AnswerIsShown == Spec => []ShownIsAnswer
<1>1. ShownInv => ShownIsAnswer BY DEF ShownInv, ShownIsAnswer
<1> QED BY <1>1, InitShown, NextShown, PTL DEF Spec
=============================================================================
