---------------------------- MODULE ModelGateway ----------------------------
(* A model call from the caller to the usage record: the requests of       *)
(* OpenAICompatibleProvider with their retries (llm/openai_compat.py), the *)
(* bookkeeping of UsageTrackingProvider around them (llm/cost.py), and     *)
(* DatabaseUsageRecorder (observability/repository.py).  The provider      *)
(* answers, refuses, or breaks off; the caller may be cancelled at any     *)
(* await, or leave a stream between two of its events.                     *)
EXTENDS Integers, Sequences, FiniteSets

CONSTANTS Calls,       \* calls of the gateway
          MaxRetries,  \* llm_max_retries
          MaxDeltas,   \* bound: deltas of a streamed answer
          MaxOpen,     \* bound: calls under way at a time
          MaxTime      \* bound: ticks of the clock

ASSUME GatewayAssumption ==
  /\ IsFiniteSet(Calls)
  /\ MaxRetries \in Nat /\ MaxDeltas \in Nat /\ MaxOpen \in Nat /\ MaxTime \in Nat

VARIABLES clock,         \* the time of the database records
          pc,            \* where a call is
          kind,          \* "json": chat or embed; "stream": chat_stream
          attempt,       \* the number of its request, from 1
          emitted,       \* streams that have had a line of data
          got,           \* history: of each delta handed on, the attempt it is from
          tokens,        \* the usage the call has been told, 0 if none
          outcome,       \* what becomes of the call for its caller
          bare,          \* streams closed outside the context of their workspace
          linked,        \* calls whose record will name their message
          ledger,        \* the usage_records table
          loss,          \* history: why there is no record
          conversation   \* the conversation the streams belong to

gatewayVars == <<clock, pc, kind, attempt, emitted, got, tokens, outcome, bare,
                 linked, ledger, loss, conversation>>

Kinds    == {"json", "stream"}
Outcomes == {"none", "ok", "error", "cancelled"}
Losses   == {"none", "cancelled", "database", "deleted", "workspace"}
Attempts == 0..(MaxRetries + 1)
Records  == [call : Calls, ok : {"yes", "no"}, tokens : {0, 1}, at : 0..MaxTime]

GatewayTypeOK ==
  /\ clock \in 0..MaxTime
  /\ pc \in [Calls -> {"idle", "request", "backoff", "lines", "yield", "left",
                       "select", "insert", "done"}]
  /\ kind \in [Calls -> Kinds]
  /\ attempt \in [Calls -> Attempts]
  /\ emitted \subseteq Calls /\ bare \subseteq Calls /\ linked \subseteq Calls
  /\ got \in [Calls -> Seq(Attempts)]
  /\ tokens \in [Calls -> {0, 1}]
  /\ outcome \in [Calls -> Outcomes]
  /\ ledger \subseteq Records
  /\ loss \in [Calls -> Losses]
  /\ conversation \in {"there", "deleted"}

GatewayInit ==
  /\ clock = 0
  /\ pc = [c \in Calls |-> "idle"] /\ kind = [c \in Calls |-> "json"]
  /\ attempt = [c \in Calls |-> 0]
  /\ emitted = {} /\ bare = {} /\ linked = {}
  /\ got = [c \in Calls |-> <<>>]
  /\ tokens = [c \in Calls |-> 0]
  /\ outcome = [c \in Calls |-> "none"]
  /\ ledger = {} /\ loss = [c \in Calls |-> "none"]
  /\ conversation = "there"

Goto(c, label) == pc' = [pc EXCEPT ![c] = label]
Ends(c, how)   == outcome' = [outcome EXCEPT ![c] = how]
Lost(c, why)   == loss' = [loss EXCEPT ![c] = why] /\ Goto(c, "done")

stream  == <<emitted, got>>
record  == <<bare, linked, ledger, loss>>
outside == <<clock, conversation>>

Room == Cardinality({c \in Calls : pc[c] \notin {"idle", "done"}}) < MaxOpen

-----------------------------------------------------------------------------
(* The provider: requests, retries and lines.                              *)

Start(c, k) ==
  /\ pc[c] = "idle" /\ Room
  /\ Goto(c, "request")
  /\ kind' = [kind EXCEPT ![c] = k]
  /\ attempt' = [attempt EXCEPT ![c] = 1]
  /\ UNCHANGED <<stream, tokens, outcome, record, outside>>

\* Embedding nothing needs no request.
EmbedNothing(c) ==
  /\ pc[c] = "idle" /\ Room
  /\ Goto(c, "select") /\ Ends(c, "ok")
  /\ UNCHANGED <<kind, attempt, stream, tokens, record, outside>>

MayRetry(c) == attempt[c] <= MaxRetries

\* One more attempt after a pause, or the error goes to the caller.
RetryIf(c, allowed) ==
  IF allowed THEN Goto(c, "backoff") /\ UNCHANGED outcome
             ELSE Goto(c, "select") /\ Ends(c, "error")

\* 429 or a server error.
Refused(c) ==
  /\ pc[c] = "request"
  /\ RetryIf(c, MayRetry(c))
  /\ UNCHANGED <<kind, attempt, stream, tokens, record, outside>>

\* Another error status, or a body that is no completion.
Rejected(c) ==
  /\ pc[c] = "request"
  /\ RetryIf(c, FALSE)
  /\ UNCHANGED <<kind, attempt, stream, tokens, record, outside>>

BrokenAlways(c) ==                             \* mutant: a retry after data
  /\ pc[c] \in {"request", "lines"}
  /\ RetryIf(c, MayRetry(c))
  /\ UNCHANGED <<kind, attempt, stream, tokens, record, outside>>

\* The transport fails or times out: no retry once data has come.
Broken(c) ==
  /\ pc[c] \in {"request", "lines"}
  /\ RetryIf(c, MayRetry(c) /\ c \notin emitted)
  /\ UNCHANGED <<kind, attempt, stream, tokens, record, outside>>

Backoff(c) ==
  /\ pc[c] = "backoff"
  /\ attempt' = [attempt EXCEPT ![c] = @ + 1]
  /\ Goto(c, "request")
  /\ UNCHANGED <<kind, stream, tokens, outcome, record, outside>>

Answered(c) ==
  /\ pc[c] = "request" /\ kind[c] = "json"
  /\ \E n \in {0, 1} : tokens' = [tokens EXCEPT ![c] = n]
  /\ Ends(c, "ok") /\ Goto(c, "select")
  /\ UNCHANGED <<kind, attempt, stream, record, outside>>

Opened(c) ==
  /\ pc[c] = "request" /\ kind[c] = "stream"
  /\ Goto(c, "lines")
  /\ UNCHANGED <<kind, attempt, stream, tokens, outcome, record, outside>>

\* A line of data: nothing for the caller, a delta, or the usage.
Line(c) ==
  /\ pc[c] = "lines"
  /\ emitted' = emitted \cup {c}
  /\ \/ UNCHANGED <<pc, got, tokens>>
     \/ /\ Len(got[c]) < MaxDeltas
        /\ got' = [got EXCEPT ![c] = Append(@, attempt[c])]
        /\ Goto(c, "yield") /\ UNCHANGED tokens
     \/ tokens' = [tokens EXCEPT ![c] = 1] /\ Goto(c, "yield") /\ UNCHANGED got
  /\ UNCHANGED <<kind, attempt, outcome, record, outside>>

\* [DONE], or the body ends without it.
Finished(c) ==
  /\ pc[c] = "lines"
  /\ Ends(c, "ok") /\ Goto(c, "select")
  /\ UNCHANGED <<kind, attempt, stream, tokens, record, outside>>

Resume(c) ==
  /\ pc[c] = "yield"
  /\ Goto(c, "lines")
  /\ UNCHANGED <<kind, attempt, stream, tokens, outcome, record, outside>>

-----------------------------------------------------------------------------
(* The caller is cancelled, or leaves.                                     *)

CancelForgets(c) ==                            \* mutant: except Exception only
  /\ pc[c] \in {"request", "backoff", "lines"}
  /\ Ends(c, "cancelled") /\ Goto(c, "done")
  /\ UNCHANGED <<kind, attempt, stream, tokens, record, outside>>

\* Cancelled in the provider: a stream is recorded by its finally clause; of
\* the others only an Exception is, which a cancellation is not.
Cancel(c) ==
  /\ pc[c] \in {"request", "backoff", "lines"}
  /\ Ends(c, "cancelled")
  /\ Goto(c, IF kind[c] = "stream" THEN "select" ELSE "done")
  /\ UNCHANGED <<kind, attempt, stream, tokens, record, outside>>

\* The caller fails or is cancelled while it holds an event, and drops the
\* stream; the event loop closes it later, in whatever context it then is.
Leave(c) ==
  /\ pc[c] = "yield"
  /\ Ends(c, "cancelled") /\ Goto(c, "left")
  /\ UNCHANGED <<kind, attempt, stream, tokens, record, outside>>

Close(c) ==
  /\ pc[c] = "left"
  /\ bare' \in {bare, bare \cup {c}}
  /\ Goto(c, "select")
  /\ UNCHANGED <<kind, attempt, stream, tokens, outcome, linked, ledger, loss, outside>>

-----------------------------------------------------------------------------
(* The record.                                                             *)

RecordOf(c) ==
  [call |-> c, ok |-> IF outcome[c] = "ok" THEN "yes" ELSE "no",
   tokens |-> tokens[c], at |-> clock]

\* Only the streams of the agent carry a trace, by which their message and its
\* workspace are found; without a workspace nothing is recorded.
Select(c) ==
  /\ pc[c] = "select"
  /\ LET found == kind[c] = "stream" /\ conversation = "there"
     IN  /\ linked' = IF found THEN linked \cup {c} ELSE linked
         /\ IF found \/ c \notin bare THEN Goto(c, "insert") /\ UNCHANGED loss
            ELSE Lost(c, "workspace")
  /\ UNCHANGED <<kind, attempt, stream, tokens, outcome, bare, ledger, outside>>

\* The message may have gone since: its foreign key fails, which is logged.
Insert(c) ==
  /\ pc[c] = "insert"
  /\ IF c \in linked /\ conversation = "deleted"
     THEN Lost(c, "deleted") /\ UNCHANGED ledger
     ELSE /\ ledger' = ledger \cup {RecordOf(c)}
          /\ Goto(c, "done") /\ UNCHANGED loss
  /\ UNCHANGED <<kind, attempt, stream, tokens, outcome, bare, linked, outside>>

\* An exception of the database is logged and swallowed.
RecorderFails(c) ==
  /\ pc[c] \in {"select", "insert"}
  /\ Lost(c, "database")
  /\ UNCHANGED <<kind, attempt, stream, tokens, outcome, bare, linked, ledger, outside>>

\* Cancelled while it records: the caller gets neither answer nor error, and
\* the record is stored or not.
CancelRecord(c) ==
  /\ pc[c] \in {"select", "insert"}
  /\ Ends(c, "cancelled") /\ Lost(c, "cancelled")
  /\ \/ UNCHANGED ledger
     \/ /\ pc[c] = "insert" /\ ~(c \in linked /\ conversation = "deleted")
        /\ ledger' = ledger \cup {RecordOf(c)}
  /\ UNCHANGED <<kind, attempt, stream, tokens, bare, linked, outside>>

-----------------------------------------------------------------------------

DeleteConversation ==
  /\ conversation = "there" /\ conversation' = "deleted"
  /\ UNCHANGED <<clock, pc, kind, attempt, stream, tokens, outcome, record>>

Tick ==
  /\ clock < MaxTime /\ clock' = clock + 1
  /\ UNCHANGED <<pc, kind, attempt, stream, tokens, outcome, record, conversation>>

Provider(c) ==
  \/ Refused(c) \/ Rejected(c) \/ Broken(c) \/ Backoff(c) \/ Answered(c)
  \/ Opened(c) \/ Line(c) \/ Finished(c)

Caller(c) == Resume(c) \/ Cancel(c) \/ Leave(c) \/ Close(c)

Recorder(c) == Select(c) \/ Insert(c) \/ RecorderFails(c) \/ CancelRecord(c)

GatewayStep ==
  \/ \E c \in Calls : Provider(c) \/ Caller(c) \/ Recorder(c)
  \/ DeleteConversation \/ Tick

-----------------------------------------------------------------------------
(* What the gateway guarantees.                                            *)

\* All deltas a caller is given are from one attempt, the last one: no retry
\* repeats text that has been handed on (chat_stream, emitted_data).
NoRepeatedDelta ==
  \A c \in Calls : \A i \in 1..Len(got[c]) : got[c][i] = attempt[c]

\* Every call that has ended is in the ledger once, however often it was tried
\* and in whatever way it ended, unless it was a request without stream that
\* was cancelled, or its record was lost for one of the reasons that are only
\* logged: the database, a deletion between the two steps of the recorder, a
\* second cancellation, or a stream that was closed without its workspace.
Accounted ==
  \A c \in Calls :
    LET mine == {r \in ledger : r.call = c}
    IN  /\ Cardinality(mine) <= 1
        /\ pc[c] # "done" => mine = {}
        /\ pc[c] = "done" /\ loss[c] = "none"
             /\ ~(kind[c] = "json" /\ outcome[c] = "cancelled") => mine # {}

\* The ledger does not contradict the callers: a failure is recorded only of a
\* call whose caller got no answer, a success only of one whose caller got it,
\* unless that caller was cancelled while the record was stored; and the tokens
\* are those the caller was told.
LedgerTrue ==
  \A r \in ledger :
    /\ r.tokens = tokens[r.call]
    /\ r.ok = "no" => outcome[r.call] \in {"error", "cancelled"}
    /\ r.ok = "yes" => outcome[r.call] = "ok" \/ loss[r.call] = "cancelled"

\* Both: the ledger is complete and true (UsageTrackingProvider).
LedgerExact == Accounted /\ LedgerTrue
=============================================================================
