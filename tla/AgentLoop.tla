----------------------------- MODULE AgentLoop -----------------------------
(***************************************************************************)
(* One run of the agent: Agent.stream asks the model, streams its text,    *)
(* guards the tool calls it asks for, executes them and asks again.        *)
(* The consumer is the chat runtime, whose cancellation closes the         *)
(* generator at any await; the tool registry is shared with the MCP client *)
(* and may change between any two steps of a run.                          *)
(***************************************************************************)
EXTENDS Integers, Sequences, FiniteSets

CONSTANTS
  Tools,         \* every tool name a model may ask for
  Volatile,      \* the tools of MCP servers: registered and removed at run time
  Unknown,       \* names that are never registered
  Safe,          \* registered with parallel_safe = True
  SqlTools,      \* tools whose SQL is normalised in a signature
  Args,          \* argument values that differ in meaning
  Forms,         \* spellings of one argument (case, blanks, layout of SQL)
  AnyForm,       \* the spelling every SQL is normalised to
  Calls,         \* the calls the model may ask for
  MaxSteps,      \* max_steps
  MaxTokens,     \* max_total_tokens
  MaxCalls,      \* max_tool_calls_per_step
  MaxReplans,    \* max_tool_budget_retries
  MaxParallel,   \* max_parallel_tools
  Parallel,      \* parallel_tool_calls
  Streams,       \* stream_model, and the model can stream
  MaxText,       \* bound: text deltas of one response
  MaxUse         \* bound: tokens of one response

ASSUME AgentAssumption ==
  /\ {Volatile, Unknown, Safe, SqlTools} \subseteq SUBSET Tools
  /\ Volatile \cap (Unknown \cup Safe) = {}
  /\ AnyForm \notin Forms
  /\ Calls \subseteq [tool : Tools, arg : Args, form : Forms]
  /\ {MaxSteps, MaxTokens, MaxCalls, MaxParallel} \subseteq Nat \ {0}
  /\ {MaxReplans, MaxText, MaxUse} \subseteq Nat
  /\ {Parallel, Streams} \subseteq BOOLEAN

VARIABLES
  pc,        \* where the generator is
  stepNo,    \* step_number of the for loop
  messages,  \* the messages list: roles, and which call a result answers
  reply,     \* the response being received: deltas, calls, usage
  usage,     \* total tokens
  steps,     \* the steps list of the result
  seen,      \* executed_signatures
  replans,   \* tool_budget_retries
  together,  \* can_run_in_parallel of the batch
  exec,      \* each call of the batch: waiting, running, ok or error
  verdict,   \* status of the result
  registry,  \* the tools registered now
  sent,      \* the runtime events the consumer got
  runs       \* history: how often a handler was entered, per signature

vars == <<pc, stepNo, messages, reply, usage, steps, seen, replans, together,
          exec, verdict, registry, sent, runs>>
batchVars  == <<together, exec, runs>>
resultVars == <<usage, steps, seen, replans, verdict>>

-----------------------------------------------------------------------------
Call == [tool : Tools, arg : Args, form : Forms]

\* _normalized_arguments: SQL is parsed and printed in one layout and case.
Signature(c) == <<c.tool, c.arg, IF c.tool \in SqlTools THEN AnyForm ELSE c.form>>
Signatures == {Signature(c) : c \in Call}

SignaturesOf(calls) == {Signature(calls[i]) : i \in DOMAIN calls}

\* The calls of a response.  Bound: a batch over the limit is one call more
\* than the limit, repeated; its calls are only counted.
Batches == (UNION {[1..n -> Calls] : n \in 0..MaxCalls})
             \cup {[i \in 1..(MaxCalls + 1) |-> c] : c \in Calls}

NoReply == [text |-> 0, calls |-> <<>>, use |-> 0]

Pcs     == {"ask", "receive", "decide", "tools", "close"}
Final   == {"done", "failed", "cancelled"}
Verdicts == {"completed", "max_steps", "tool_budget_exceeded",
             "token_budget_exceeded", "loop_detected"}

Message(role, n) == [role |-> role, n |-> n]

TypeOK ==
  /\ pc \in Pcs \cup Final
  /\ stepNo \in 0..MaxSteps
  /\ messages \in Seq([role : {"user", "assistant", "tool"}, n : Nat])
  /\ reply \in [text : Nat, calls : Seq(Call), use : Nat]
  /\ usage \in Nat
  /\ steps \in Seq([no : Nat, use : Nat, ran : Nat])
  /\ seen \subseteq Signatures
  /\ replans \in 0..MaxReplans
  /\ together \in BOOLEAN
  /\ exec \in Seq({"waiting", "running", "ok", "error"})
  /\ verdict \in Verdicts \cup {"none"}
  /\ registry \subseteq Tools
  /\ sent \in Seq({"text", "text_reset", "step", "done", "error"})
  /\ runs \in [Signatures -> Nat]

Init ==
  /\ pc = "ask" /\ stepNo = 0
  /\ messages = <<Message("user", 0)>>
  /\ reply = NoReply
  /\ usage = 0 /\ steps = <<>> /\ seen = {} /\ replans = 0
  /\ together = FALSE /\ exec = <<>>
  /\ verdict = "none"
  /\ \E up \in SUBSET Volatile : registry = (Tools \ (Volatile \cup Unknown)) \cup up
  /\ sent = <<>>
  /\ runs = [s \in Signatures |-> 0]

-----------------------------------------------------------------------------
(* Asking the model.                                                       *)

\* The head of the for loop: the next step, or the end of the run.
Ask ==
  /\ pc = "ask"
  /\ IF stepNo < MaxSteps
     THEN /\ pc' = "receive" /\ stepNo' = stepNo + 1
          /\ reply' = NoReply /\ exec' = <<>>
          /\ UNCHANGED verdict
     ELSE /\ pc' = "close" /\ verdict' = "max_steps"
          /\ UNCHANGED <<stepNo, reply, exec>>
  /\ UNCHANGED <<messages, usage, steps, seen, replans, together, registry,
                 sent, runs>>

\* A text delta.  Without streaming the whole content is one delta.
Delta ==
  /\ pc = "receive"
  /\ reply.text < IF Streams THEN MaxText ELSE 1
  /\ reply' = [reply EXCEPT !.text = @ + 1]
  /\ sent' = Append(sent, "text")
  /\ UNCHANGED <<pc, stepNo, messages, resultVars, batchVars, registry>>

\* What a complete response adds to what the consumer has been shown.
ResetNever(calls) == <<>>  \* faulty variant
Reset(calls) == IF calls # <<>> /\ reply.text > 0 THEN <<"text_reset">> ELSE <<>>

\* The response is complete: its usage counts before any of its calls.
Response ==
  /\ pc = "receive" /\ pc' = "decide"
  /\ \E calls \in Batches, use \in 0..MaxUse :
       /\ reply' = [reply EXCEPT !.calls = calls, !.use = use]
       /\ usage' = usage + use
       /\ messages' = Append(messages, Message("assistant", Len(calls)))
       /\ sent' = sent \o Reset(calls)
  /\ UNCHANGED <<stepNo, steps, seen, replans, verdict, batchVars, registry>>

\* The model raises, or streams arguments that are no JSON object.
ModelFails ==
  /\ pc = "receive" /\ pc' = "failed"
  /\ UNCHANGED <<stepNo, messages, reply, resultVars, batchVars, registry, sent>>

-----------------------------------------------------------------------------
(* The guards, in the order of the code.  As in ChatTurn, a definition     *)
(* directly before another one with its name and a suffix is a faulty      *)
(* variant of it, used only to show that a property can fail.              *)

Repeated(calls) ==
  \/ SignaturesOf(calls) \cap seen # {}
  \/ \E i, j \in DOMAIN calls : i # j /\ Signature(calls[i]) = Signature(calls[j])
RepeatedBefore(calls) == SignaturesOf(calls) \cap seen # {}

JudgeUncapped ==
  CASE reply.calls = <<>> -> "completed"
    [] Len(reply.calls) > MaxCalls ->
         IF replans < MaxReplans THEN "replan" ELSE "tool_budget_exceeded"
    [] OTHER -> IF Repeated(reply.calls) THEN "loop_detected" ELSE "execute"
JudgeNoBatch ==
  CASE reply.calls = <<>> -> "completed"
    [] usage > MaxTokens -> "token_budget_exceeded"
    [] Len(reply.calls) > MaxCalls ->
         IF replans < MaxReplans THEN "replan" ELSE "tool_budget_exceeded"
    [] RepeatedBefore(reply.calls) -> "loop_detected"
    [] OTHER -> "execute"
Judge ==
  CASE reply.calls = <<>> -> "completed"
    [] reply.calls # <<>> /\ usage > MaxTokens -> "token_budget_exceeded"
    [] reply.calls # <<>> /\ usage <= MaxTokens /\ Len(reply.calls) > MaxCalls ->
         IF replans < MaxReplans THEN "replan" ELSE "tool_budget_exceeded"
    [] OTHER -> IF Repeated(reply.calls) THEN "loop_detected" ELSE "execute"

StepRecord(ran) == [no |-> stepNo, use |-> reply.use, ran |-> ran]

\* The run ends with this response: its step is recorded and sent.
Stop ==
  /\ pc = "decide" /\ Judge \in Verdicts
  /\ pc' = "close" /\ verdict' = Judge
  /\ steps' = Append(steps, StepRecord(0))
  /\ sent' = Append(sent, "step")
  /\ UNCHANGED <<stepNo, messages, reply, usage, seen, replans, batchVars,
                 registry>>

\* Too many calls, and a second chance: the assistant message is replaced by a
\* request to plan again.  The step is recorded and not sent.
ReplannedKept == messages \o <<Message("user", 0)>>
Replanned == SubSeq(messages, 1, Len(messages) - 1) \o <<Message("user", 0)>>
StepsCounted == Append(steps, StepRecord(0))
Replan ==
  /\ pc = "decide" /\ Judge = "replan"
  /\ pc' = "ask"
  /\ messages' = Replanned
  /\ replans' = replans + 1
  /\ steps' = StepsCounted
  /\ UNCHANGED <<stepNo, reply, usage, seen, verdict, batchVars, registry, sent>>

\* The repetition is looked for in SQL the tokenizer refuses: only an error of
\* the parser is caught, and the run ends with the exception.
SignatureFails ==
  /\ pc = "decide" /\ Judge \in {"loop_detected", "execute"}
  /\ \E i \in DOMAIN reply.calls : reply.calls[i].tool \in SqlTools
  /\ pc' = "failed"
  /\ UNCHANGED <<stepNo, messages, reply, resultVars, batchVars, registry, sent>>

-----------------------------------------------------------------------------
(* _execute_tool_calls and _execute_one.                                   *)

ToolOf(i) == reply.calls[i].tool

SomeSafe ==
  /\ Parallel /\ Len(reply.calls) <= MaxParallel
  /\ \E i \in DOMAIN reply.calls : ToolOf(i) \in registry \cap Safe
TogetherUnlimited ==
  Parallel /\ \A i \in DOMAIN reply.calls : ToolOf(i) \in registry \cap Safe
MayRunTogether ==
  /\ Parallel /\ Len(reply.calls) <= MaxParallel
  /\ \A i \in DOMAIN reply.calls : ToolOf(i) \in registry \cap Safe

\* The signatures are remembered before the calls run.
SeenAfter == seen \cup SignaturesOf(reply.calls)
Execute ==
  /\ pc = "decide" /\ Judge = "execute"
  /\ pc' = "tools"
  /\ seen' = SeenAfter
  /\ together' = MayRunTogether
  /\ exec' = [i \in DOMAIN reply.calls |-> "waiting"]
  /\ UNCHANGED <<stepNo, messages, reply, usage, steps, replans, verdict,
                 registry, sent, runs>>

Over(i) == exec[i] \in {"ok", "error"}

\* Tasks of a gather start in order; a sequential call waits for the one
\* before it, however that ended.
MayStartAfterSuccess(i) ==
  \A j \in 1..(i - 1) : exec[j] = "ok" \/ (together /\ exec[j] # "waiting")
MayStart(i) == \A j \in 1..(i - 1) : Over(j) \/ (together /\ exec[j] # "waiting")

\* The tool is looked up now: an unknown one is an error of the call, as are
\* arguments its schema refuses; otherwise the handler is entered.
StartCall(i) ==
  /\ pc = "tools" /\ exec[i] = "waiting" /\ MayStart(i)
  /\ \/ /\ ToolOf(i) \in registry
        /\ exec' = [exec EXCEPT ![i] = "running"]
        /\ runs' = [runs EXCEPT ![Signature(reply.calls[i])] = @ + 1]
     \/ exec' = [exec EXCEPT ![i] = "error"] /\ UNCHANGED runs
  /\ UNCHANGED <<pc, stepNo, messages, reply, resultVars, together, registry,
                 sent>>

\* The handler returns or raises; either is a result.
EndCall(i) ==
  /\ pc = "tools" /\ exec[i] = "running"
  /\ \E end \in {"ok", "error"} : exec' = [exec EXCEPT ![i] = end]
  /\ UNCHANGED <<pc, stepNo, messages, reply, resultVars, together, registry,
                 sent, runs>>

Results == [i \in DOMAIN exec |-> Message("tool", i)]

\* All calls are over: the step is sent and every result becomes a message.
Resume ==
  /\ pc = "tools" /\ \A i \in DOMAIN exec : Over(i)
  /\ pc' = "ask"
  /\ steps' = Append(steps, StepRecord(Len(exec)))
  /\ sent' = Append(sent, "step")
  /\ messages' = messages \o Results
  /\ UNCHANGED <<stepNo, reply, usage, seen, replans, verdict, batchVars,
                 registry>>

-----------------------------------------------------------------------------
\* The completed event, as AgentChatRuntime passes it on.
Close ==
  /\ pc = "close" /\ pc' = "done"
  /\ sent' = Append(sent, IF verdict = "completed" THEN "done" ELSE "error")
  /\ UNCHANGED <<stepNo, messages, reply, resultVars, batchVars, registry>>

\* The consumer is cancelled: gather cancels its calls, the generator ends.
Cancel ==
  /\ pc \in Pcs /\ pc' = "cancelled"
  /\ UNCHANGED <<stepNo, messages, reply, resultVars, batchVars, registry, sent>>

\* MCPClient replaces the tools of its prefix.
Refresh ==
  /\ pc \in Pcs
  /\ \E up \in SUBSET Volatile : registry' = (registry \ Volatile) \cup up
  /\ registry' # registry
  /\ UNCHANGED <<pc, stepNo, messages, reply, resultVars, batchVars, sent>>

AgentStep ==
  \/ Ask \/ Delta \/ Response \/ ModelFails \/ Stop \/ Replan \/ SignatureFails \/ Execute
  \/ \E i \in DOMAIN exec : StartCall(i) \/ EndCall(i)
  \/ Resume \/ Close

Next == AgentStep \/ Cancel \/ Refresh

Spec     == Init /\ [][Next]_vars
\* Every model call and every tool call ends: requests to a model, to a Python
\* run and to an MCP server carry timeouts; that a DuckDB query ends is assumed.
FairSpec == Spec /\ WF_vars(AgentStep)

-----------------------------------------------------------------------------
(* What a run guarantees.                                                  *)

\* A call is executed at most once in a run, also in another spelling of its
\* SQL, in the same batch or in a later one, and whether or not it failed
\* (loop detection; docs/agent-evaluation.md).
ToolOnce == \A s \in Signatures : runs[s] <= 1

\* Handlers run side by side only if each of them may, and never more than the
\* limit, also while the registry changes under the batch.
RunSideBySide == {i \in DOMAIN exec : exec[i] = "running"}
SafeTogether ==
  Cardinality(RunSideBySide) > 1 =>
    /\ Cardinality(RunSideBySide) <= MaxParallel
    /\ \A i \in RunSideBySide : ToolOf(i) \in Safe

\* Whenever the model is asked, every assistant message that asked for tools is
\* followed by exactly one result per call, in order: providers refuse a
\* conversation in which they are not.
Answered(ms) ==
  \A i \in DOMAIN ms :
    /\ ms[i].role = "assistant" =>
         /\ i + ms[i].n <= Len(ms)
         /\ \A k \in 1..ms[i].n : ms[i + k] = Message("tool", k)
    /\ ms[i].role = "tool" =>
         /\ ms[i].n < i
         /\ ms[i - ms[i].n].role = "assistant"
         /\ ms[i].n <= ms[i - ms[i].n].n
AskWellFormed == pc \in {"ask", "receive"} => Answered(messages)

\* What the consumer has accumulated, folded over the events as ChatWorker does.
ShownStep(shown, event) ==
  CASE event = "text" -> shown + 1
    [] event = "text_reset" -> 0
    [] OTHER -> shown
Shown(events) ==
  LET after[i \in 0..Len(events)] ==
        IF i = 0 THEN 0 ELSE ShownStep(after[i - 1], events[i])
  IN after[Len(events)]

\* The text a consumer shows, and the chat worker saves, is the answer of the
\* last response: nothing of a response that asked for tools is left in it.
ShownIsAnswer ==
  /\ pc = "ask" => Shown(sent) = 0
  /\ pc = "done" /\ verdict = "completed" => Shown(sent) = reply.text

\* A run that is not cancelled comes to an end.
RunEnds == <>(pc \in Final)
=============================================================================
