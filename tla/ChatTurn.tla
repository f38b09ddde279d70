------------------------------ MODULE ChatTurn ------------------------------
(***************************************************************************)
(* One conversation of the DataPilot chat backend: the POST handler that   *)
(* creates (or re-attaches to) a turn and streams it, the background       *)
(* worker that produces it, the abort handler, the two durable stores they *)
(* share (PostgreSQL rows, Redis stream) and the browser that resumes a    *)
(* lost stream with the same client_request_id and its Last-Event-ID.      *)
(*                                                                         *)
(* Every await of the Python code at which shared state is read or written *)
(* is a step of its own; what runs between two awaits is one step.         *)
(***************************************************************************)
EXTENDS Integers, Sequences, FiniteSets

CONSTANTS
  Requests,      \* client_request_ids used in the conversation (one per turn)
  Aborts,        \* executions of the abort endpoint
  MaxAttempts,   \* POSTs the browser makes for one request (chat.ts: 3)
  MaxEvents,     \* bound: step, text and text_reset events of one turn
  MaxCrashes,    \* bound: times the backend process stops and starts again
  Faults,        \* what may fail: "broker", "store", "crash", "delete", "drop"
  NoRow          \* model value: no assistant row for the request

ASSUME ChatAssumption ==
  /\ MaxAttempts \in Nat \ {0}
  /\ MaxEvents \in Nat
  /\ MaxCrashes \in Nat
  /\ Faults \subseteq {"broker", "store", "crash", "delete", "drop"}
  /\ NoRow \notin [status : {"streaming", "completed", "error", "aborted"},
                   text : Int, steps : Nat]

VARIABLES
  conv,       \* the conversation: "live" or "deleted"
  rows,       \* its message rows in sequence order: role and request
  row,        \* the assistant row of each request, or NoRow
  stream,     \* the Redis stream of each assistant message
  task,       \* where the background worker of each request is
  mem,        \* the worker's local variables
  cancel,     \* task.cancel() was called and not yet delivered
  late,       \* a shielded save whose worker was cancelled under it
  post,       \* where each POST handler is
  view,       \* the assistant row as the handler last fetched it
  at,         \* the handler's cursor: first the Last-Event-ID of the call
  lost,       \* POSTs whose connection to the browser is gone
  cursor,     \* the browser's lastEventId for the request
  inbox,      \* the frames the browser has applied, over all its attempts
  abort,      \* each abort handler: where it is, its target, what it fetched
  calls,      \* history: how often a worker entered the runtime
  clobbered,  \* history: rows overwritten after they had left "streaming"
  up,         \* the process takes requests; FALSE while it shuts down
  crashes     \* history: how often the process stopped

dbVars   == <<conv, rows, row, clobbered>>
workVars == <<task, mem, cancel, late, calls>>
httpVars == <<post, view, at, lost>>
webVars  == <<cursor, inbox>>
procVars == <<up, crashes>>
notWorker == <<httpVars, webVars, abort, procVars>>
notHttp   == <<workVars, abort, procVars>>
vars == <<conv, rows, row, stream, task, mem, cancel, late, post, view, at,
          lost, cursor, inbox, abort, calls, clobbered, up, crashes>>

-----------------------------------------------------------------------------
(* Data.  A text is the number of chunks since the last reset: the only    *)
(* thing a reader can get wrong about it is to apply a chunk twice or not  *)
(* at all.  ErrText stands for the message that replaces it on an error.   *)

Attempts == 1..MaxAttempts
Posts    == Requests \X Attempts
ErrText  == -1
SnapId   == -1     \* Last-Event-ID of a snapshot frame ("snapshot-...")

Statuses == {"streaming", "completed", "error", "aborted"}
RowData  == [status : Statuses, text : Int, steps : Nat]
NewRow   == [status |-> "streaming", text |-> 0, steps |-> 0]

Content  == {"step", "text", "text_reset"}
Terminal == {"done", "error", "aborted"}
Events   == {"start"} \cup Content \cup Terminal

Live    == {"scheduled", "start", "loop", "emit", "rterr", "exc", "abt",
            "save", "last"}
Running(r) == task[r] \in Live

\* The worker's locals: accumulated_text, steps, message_status,
\* terminal_published, persisted, and the event it is publishing.
Fresh == [text |-> 0, steps |-> 0, status |-> "completed", told |-> FALSE,
          saved |-> FALSE, ev |-> "step"]
NoLate == NoRow

Idle   == {"idle", "end", "failed"}
Frames == [event : Events \cup Statuses, n : Int, live : BOOLEAN]

\* The values of the program counters and of the records kept per process.
WorkerPcs == Live \cup {"none", "ended"}
Locals    == [text : Int, steps : Nat, status : Statuses, told : BOOLEAN,
              saved : BOOLEAN, ev : Content]
PostPcs   == Idle \cup {"lookup", "decide", "user", "asst", "spawn", "repair",
                        "open", "check", "live"}
AbortData == [pc : Idle \cup {"look", "write"}, req : Requests,
              view : RowData \cup {NoRow}]

StoresOK ==
  /\ conv \in {"live", "deleted"}
  /\ rows \in Seq([role : {"user", "assistant"}, req : Requests])
  /\ row \in [Requests -> RowData \cup {NoRow}]
  /\ stream \in [Requests -> Seq(Events)]
  /\ clobbered \subseteq Requests

WorkersOK ==
  /\ task \in [Requests -> WorkerPcs]
  /\ mem \in [Requests -> Locals]
  /\ cancel \in [Requests -> BOOLEAN]
  /\ late \in [Requests -> RowData \cup {NoRow}]
  /\ calls \in [Requests -> Nat]

HandlersOK ==
  /\ post \in [Posts -> PostPcs]
  /\ view \in [Posts -> RowData \cup {NoRow}]
  /\ at \in [Posts -> Nat \cup {SnapId}]
  /\ lost \subseteq Posts
  /\ abort \in [Aborts -> AbortData]

BrowserOK ==
  /\ cursor \in [Requests -> Nat \cup {SnapId}]
  /\ inbox \in [Requests -> Seq(Frames)]

ProcessOK == up \in BOOLEAN /\ crashes \in Nat

TypeOK == StoresOK /\ WorkersOK /\ HandlersOK /\ BrowserOK /\ ProcessOK

Init ==
  /\ conv = "live"
  /\ rows = <<>>
  /\ row = [r \in Requests |-> NoRow]
  /\ stream = [r \in Requests |-> <<>>]
  /\ task = [r \in Requests |-> "none"]
  /\ mem = [r \in Requests |-> Fresh]
  /\ cancel = [r \in Requests |-> FALSE]
  /\ late = [r \in Requests |-> NoLate]
  /\ post = [p \in Posts |-> "idle"]
  /\ view = [p \in Posts |-> NoRow]
  /\ at = [p \in Posts |-> 0]
  /\ lost = {}
  /\ cursor = [r \in Requests |-> 0]
  /\ inbox = [r \in Requests |-> <<>>]
  /\ abort \in [Aborts -> {[pc |-> "idle", req |-> r, view |-> NoRow] :
                           r \in Requests}]
  /\ calls = [r \in Requests |-> 0]
  /\ clobbered = {}
  /\ up = TRUE
  /\ crashes = 0

-----------------------------------------------------------------------------
(* The stores.                                                             *)

\* EventBroker.publish, and a publish that was interrupted or failed: XADD is
\* followed by EXPIRE, so the entry may be there although the call raised.
Publish(r, e)  == stream' = [stream EXCEPT ![r] = Append(@, e)]
MaybePublish(r, e) == Publish(r, e) \/ UNCHANGED stream

\* complete_assistant_message: content, status and steps are overwritten
\* whatever the row held.  KeyError when the row is gone is the caller's case.
Overwrite(r, data) ==
  /\ row' = [row EXCEPT ![r] = data]
  /\ clobbered' = IF row[r].status = "streaming" THEN clobbered
                  ELSE clobbered \cup {r}

\* UniqueConstraint(request_id): the second assistant row is refused.
RequestIdUnchecked(r) == TRUE
RequestIdFree(r) == row[r] = NoRow

AppendRow(role, r) == rows' = Append(rows, [role |-> role, req |-> r])

-----------------------------------------------------------------------------
(* The worker: ChatWorker.run as an asyncio task.  "start", "emit",        *)
(* "rterr", "exc", "abt" and "last" await a publish, "loop" awaits the     *)
(* runtime, "save" awaits the shielded save in the finally block.          *)

Goto(r, pc) == task' = [task EXCEPT ![r] = pc]

\* A definition that stands directly before another one and has its name with
\* a suffix is a faulty variant of it, used only to show that a property can
\* fail: RequestIdUnchecked, AccumulateNoReset, AbortedLate, ...

\* What one runtime event does to the locals before it is published.
AccumulateNoReset(m, e) ==
  [m EXCEPT !.steps = IF e = "step" THEN @ + 1 ELSE @,
            !.text  = IF e = "text" THEN @ + 1 ELSE @,
            !.ev    = e]
Accumulate(m, e) ==
  [m EXCEPT !.steps = IF e = "step" THEN @ + 1 ELSE @,
            !.text  = CASE e = "text" -> @ + 1
                        [] e = "text_reset" -> 0
                        [] OTHER -> @,
            !.ev    = e]

Failed(m)  == [m EXCEPT !.status = "error", !.text = ErrText]
AbortedLate(m) == m
Aborted(m) == [m EXCEPT !.status = "aborted"]

\* The event whose publish is awaited at a program counter.
InFlightDone(r) ==
  CASE task[r] = "start" -> "start"
    [] task[r] = "emit" -> mem[r].ev
    [] task[r] \in {"rterr", "exc"} -> "error"
    [] task[r] = "abt" -> "aborted"
    [] OTHER -> "done"
InFlight(r) ==
  CASE task[r] = "start" -> "start"
    [] task[r] = "emit" -> mem[r].ev
    [] task[r] \in {"rterr", "exc"} -> "error"
    [] task[r] = "abt" -> "aborted"
    [] OTHER -> IF mem[r].status = "completed" THEN "done" ELSE "error"

RowOf(m) == [status |-> m.status, text |-> m.text, steps |-> m.steps]

\* Where a publish that succeeds leads.  The break after ERROR leaves the loop.
AfterPublishNoBreak == [start |-> "loop", emit |-> "loop", rterr |-> "loop",
                        exc |-> "save", abt |-> "save", last |-> "ended"]
AfterPublishUnsaved == [start |-> "loop", emit |-> "loop", rterr |-> "ended",
                        exc |-> "ended", abt |-> "ended", last |-> "ended"]
AfterPublish == [start |-> "loop", emit |-> "loop", rterr |-> "save",
                 exc |-> "save", abt |-> "save", last |-> "ended"]

\* Where an exception out of a publish leads: the first publish is outside the
\* try, those in the two handlers fall through to the finally block.
AfterFailure == [start |-> "ended", emit |-> "exc", rterr |-> "exc",
                 exc |-> "save", abt |-> "save", last |-> "ended"]

\* Where a CancelledError raised at the current await leads.  A task that has
\* not run yet never runs; at the shielded save the worker is gone and the
\* save goes on without it.
AfterCancel == [scheduled |-> "ended", start |-> "ended", loop |-> "abt",
                emit |-> "abt", rterr |-> "abt", exc |-> "save",
                abt |-> "save", save |-> "ended", last |-> "ended"]

Begin(r) ==
  /\ task[r] = "scheduled" /\ ~cancel[r]
  /\ Goto(r, "start")
  /\ UNCHANGED <<dbVars, stream, mem, cancel, late, calls, notWorker>>

\* A publish returns.  After "start" the runtime is asked; "error" and
\* "aborted" are published before the row is saved, "done" after it.
Published(r) ==
  /\ task[r] \in DOMAIN AfterPublish /\ ~cancel[r]
  /\ Publish(r, InFlight(r))
  /\ mem' = [mem EXCEPT ![r].told = @ \/ task[r] \in {"rterr", "exc", "abt"}]
  /\ calls' = [calls EXCEPT ![r] = IF task[r] = "start" THEN @ + 1 ELSE @]
  /\ Goto(r, AfterPublish[task[r]])
  /\ UNCHANGED <<dbVars, cancel, late, notWorker>>

\* The runtime yields STEP, TEXT or TEXT_RESET.  Bound: MaxEvents of them.
RuntimeYields(r) ==
  /\ task[r] = "loop" /\ ~cancel[r]
  /\ Len(stream[r]) <= MaxEvents
  /\ \E e \in Content : mem' = [mem EXCEPT ![r] = Accumulate(@, e)]
  /\ Goto(r, "emit")
  /\ UNCHANGED <<dbVars, stream, cancel, late, calls, notWorker>>

\* The runtime yields ERROR or a DONE that is not "completed" (the loop is
\* left through break, "rterr"), or raises ("exc").
RuntimeFails(r) ==
  /\ task[r] = "loop" /\ ~cancel[r]
  /\ mem' = [mem EXCEPT ![r] = Failed(@)]
  /\ \E pc \in {"rterr", "exc"} : Goto(r, pc)
  /\ UNCHANGED <<dbVars, stream, cancel, late, calls, notWorker>>

\* DONE with status "completed", or the end of the generator.
RuntimeEnds(r) ==
  /\ task[r] = "loop" /\ ~cancel[r]
  /\ Goto(r, "save")
  /\ UNCHANGED <<dbVars, stream, mem, cancel, late, calls, notWorker>>

AfterSaveSilent(r) == "ended"
AfterSave(r) == IF mem[r].told THEN "ended" ELSE "last"

\* The save returns, or raises (KeyError for a deleted row, a database error,
\* also after a commit that was applied): persisted tells which.  Then the
\* missing terminal event, if any.
Save(r) ==
  /\ task[r] = "save" /\ ~cancel[r]
  /\ \/ /\ row[r] # NoRow
        /\ Overwrite(r, RowOf(mem[r]))
        /\ \/ mem' = [mem EXCEPT ![r].saved = TRUE]
           \/ "store" \in Faults /\ UNCHANGED mem
     \/ /\ row[r] = NoRow \/ "store" \in Faults
        /\ UNCHANGED <<row, clobbered, mem>>
  /\ Goto(r, AfterSave(r))
  /\ UNCHANGED <<conv, rows, stream, cancel, late, calls, notWorker>>

PublishFails(r) ==
  /\ "broker" \in Faults
  /\ task[r] \in DOMAIN AfterFailure /\ ~cancel[r]
  /\ MaybePublish(r, InFlight(r))
  /\ mem' = [mem EXCEPT ![r] = IF task[r] \in {"emit", "rterr"} THEN Failed(@)
                               ELSE @]
  /\ Goto(r, AfterFailure[task[r]])
  /\ UNCHANGED <<dbVars, cancel, late, calls, notWorker>>

Interrupt(r) ==
  /\ Running(r) /\ cancel[r]
  /\ cancel' = [cancel EXCEPT ![r] = FALSE]
  /\ IF task[r] \in {"scheduled", "loop", "save"} THEN UNCHANGED stream
     ELSE MaybePublish(r, InFlight(r))
  /\ mem' = [mem EXCEPT ![r] = IF AfterCancel[task[r]] = "abt"
                               THEN Aborted(@) ELSE @]
  /\ late' = [late EXCEPT ![r] = IF task[r] = "save" THEN RowOf(mem[r]) ELSE @]
  /\ Goto(r, AfterCancel[task[r]])
  /\ UNCHANGED <<dbVars, calls, notWorker>>

\* The save that outlived its worker.
LateSave(r) ==
  /\ late[r] # NoLate
  /\ \/ row[r] # NoRow /\ Overwrite(r, late[r])
     \/ (row[r] = NoRow \/ "store" \in Faults) /\ UNCHANGED <<row, clobbered>>
  /\ late' = [late EXCEPT ![r] = NoLate]
  /\ UNCHANGED <<conv, rows, stream, task, mem, cancel, calls, notWorker>>

Worker(r) == \/ Begin(r) \/ Published(r) \/ PublishFails(r)
             \/ RuntimeYields(r) \/ RuntimeFails(r) \/ RuntimeEnds(r)
             \/ Save(r) \/ Interrupt(r)

-----------------------------------------------------------------------------
(* The POST handler, stream_message, and the browser that calls it.        *)

Step(p, pc) == post' = [post EXCEPT ![p] = pc]
Req(p) == p[1]

\* sendMessage: the first POST, or the next one after the previous one was
\* answered with an error or lost its connection.
MayAttempt(p) ==
  /\ up
  /\ post[p] = "idle"
  /\ p[2] > 1 => LET q == <<p[1], p[2] - 1>>
                 IN  q \in lost \/ post[q] = "failed"

\* The header of the next attempt.
ResumeFromStart(r) == 0
ResumeFrom(r) == cursor[r]

\* get_conversation: 404 when the conversation is gone.
PostArrive(p) ==
  /\ MayAttempt(p)
  /\ at' = [at EXCEPT ![p] = ResumeFrom(Req(p))]
  /\ Step(p, IF conv = "live" THEN "lookup" ELSE "failed")
  /\ UNCHANGED <<dbVars, stream, view, lost, webVars, notHttp>>

\* get_assistant_by_request_id reads the row; the handler resumes later.
PostLookup(p) ==
  /\ post[p] = "lookup"
  /\ view' = [view EXCEPT ![p] = row[Req(p)]]
  /\ Step(p, "decide")
  /\ UNCHANGED <<dbVars, stream, at, lost, webVars, notHttp>>

\* The branch on the fetched row; is_running is read now, the row was read then.
PostDecideNoRepair(p) ==
  /\ post[p] = "decide"
  /\ Step(p, IF view[p] = NoRow THEN "user" ELSE "open")
  /\ UNCHANGED <<dbVars, stream, view, at, lost, webVars, notHttp>>
PostDecideRestart(p) ==
  /\ post[p] = "decide"
  /\ Step(p, CASE view[p] = NoRow -> "user"
               [] view[p] # NoRow /\ view[p].status = "streaming"
                                  /\ ~Running(Req(p)) -> "spawn"
               [] OTHER -> "open")
  /\ UNCHANGED <<dbVars, stream, view, at, lost, webVars, notHttp>>
PostDecide(p) ==
  /\ post[p] = "decide"
  /\ Step(p, CASE view[p] = NoRow -> "user"
               [] view[p] # NoRow /\ view[p].status = "streaming"
                                  /\ ~Running(Req(p)) -> "repair"
               [] OTHER -> "open")
  /\ UNCHANGED <<dbVars, stream, view, at, lost, webVars, notHttp>>

\* get_history (a read) and the user's message row, which carries no request_id.
PostUser(p) ==
  /\ post[p] = "user"
  /\ IF conv = "live"
     THEN AppendRow("user", Req(p)) /\ Step(p, "asst")
     ELSE rows' = rows /\ Step(p, "failed")
  /\ UNCHANGED <<conv, row, clobbered, stream, view, at, lost, webVars,
                 notHttp>>

InsertAssistant(r) ==
  /\ AppendRow("assistant", r)
  /\ row' = [row EXCEPT ![r] = NewRow]

\* The assistant's row, refused when another POST inserted it first; the
\* exception ends the handler with a 500.
PostAssistant(p) ==
  /\ post[p] = "asst"
  /\ IF conv = "live" /\ RequestIdFree(Req(p))
     THEN /\ InsertAssistant(Req(p))
          /\ view' = [view EXCEPT ![p] = NewRow]
          /\ Step(p, "spawn")
     ELSE UNCHANGED <<rows, row, view>> /\ Step(p, "failed")
  /\ UNCHANGED <<conv, clobbered, stream, at, lost, webVars, notHttp>>

\* ChatTaskManager.start: refused while a task of this message is not done.
PostSpawn(p) ==
  /\ post[p] = "spawn"
  /\ LET r == Req(p)
     IN  IF Running(r) THEN UNCHANGED <<task, mem>>
         ELSE Goto(r, "scheduled") /\ mem' = [mem EXCEPT ![r] = Fresh]
  /\ Step(p, "open")
  /\ UNCHANGED <<dbVars, stream, cancel, late, calls, view, at, lost, webVars,
                 abort, procVars>>

\* A turn without a worker is closed as "error", with the content fetched.
PostRepair(p) ==
  /\ post[p] = "repair"
  /\ LET fixed == [view[p] EXCEPT !.status = "error"]
     IN  IF row[Req(p)] # NoRow
         THEN /\ Overwrite(Req(p), fixed)
              /\ view' = [view EXCEPT ![p] = fixed]
              /\ Step(p, "open")
         ELSE UNCHANGED <<row, clobbered, view>> /\ Step(p, "failed")
  /\ UNCHANGED <<conv, rows, stream, at, lost, webVars, notHttp>>

\* A database call raises.  What it wrote may be committed all the same: the
\* answer to the commit is lost, or append_message fails to refresh the row.
PostFails(p) ==
  /\ "store" \in Faults
  /\ post[p] \in {"lookup", "user", "asst", "repair"}
  /\ \/ UNCHANGED <<rows, row, clobbered>>
     \/ /\ post[p] = "user" /\ conv = "live"
        /\ AppendRow("user", Req(p)) /\ UNCHANGED <<row, clobbered>>
     \/ /\ post[p] = "asst" /\ conv = "live" /\ RequestIdFree(Req(p))
        /\ InsertAssistant(Req(p)) /\ UNCHANGED clobbered
     \/ /\ post[p] = "repair" /\ row[Req(p)] # NoRow
        /\ Overwrite(Req(p), [view[p] EXCEPT !.status = "error"])
        /\ UNCHANGED rows
  /\ Step(p, "failed")
  /\ UNCHANGED <<conv, stream, view, at, lost, webVars, notHttp>>

-----------------------------------------------------------------------------
(* The response, event_stream.  A frame goes to the browser as it is sent; *)
(* after the connection is lost it goes nowhere.                           *)

Deliver(p, frames, last) ==
  /\ inbox' = [inbox EXCEPT ![Req(p)] = @ \o frames]
  /\ cursor' = [cursor EXCEPT ![Req(p)] = last]

\* broker.read(block_ms=0) after the given id.  The id of a snapshot frame is
\* not a stream id and the broker refuses it.
ReadInitial(p) ==
  /\ post[p] = "open"
  /\ Step(p, CASE at[p] = SnapId -> "failed"
               [] at[p] # SnapId /\ Len(stream[Req(p)]) > at[p] -> "live"
               [] OTHER -> "check")
  /\ UNCHANGED <<dbVars, stream, view, at, lost, webVars, notHttp>>

SnapshotStatus(status) == IF status = "completed" THEN "done" ELSE status

\* _snapshot_stream of the row as fetched: start, steps, text, terminal.
Snapshot(v) ==
  LET Frame(e, n) == <<[event |-> e, n |-> n, live |-> FALSE]>>
  IN  Frame("start", 0)
      \o (IF v.steps > 0 THEN Frame("step", v.steps) ELSE <<>>)
      \o (IF v.text # 0 THEN Frame("text", v.text) ELSE <<>>)
      \o Frame(SnapshotStatus(v.status), 0)

\* Nothing to replay: with a worker the response waits for its events, without
\* one it sends the snapshot, of which a dropped connection delivers a part.
ReaderCheck(p) ==
  /\ post[p] = "check"
  /\ IF Running(Req(p))
     THEN Step(p, "live") /\ UNCHANGED <<lost, webVars>>
     ELSE /\ Step(p, "end")
          /\ \/ p \in lost /\ UNCHANGED <<lost, webVars>>
             \/ p \notin lost /\ lost' = lost
                /\ Deliver(p, Snapshot(view[p]), SnapId)
             \/ /\ p \notin lost /\ "drop" \in Faults /\ lost' = lost \cup {p}
                /\ \E n \in 1..(Len(Snapshot(view[p])) - 1) :
                     Deliver(p, SubSeq(Snapshot(view[p]), 1, n), SnapId)
  /\ UNCHANGED <<dbVars, stream, view, at, notHttp>>

\* The next entry of the stream.  A terminal event ends the response.
ReaderDeliver(p) ==
  /\ post[p] = "live" /\ p \notin lost
  /\ LET r == Req(p)
         e == stream[r][at[p] + 1]
     IN  /\ at[p] < Len(stream[r])
         /\ Deliver(p, <<[event |-> e, n |-> 1, live |-> TRUE]>>, at[p] + 1)
         /\ Step(p, IF e \in Terminal THEN "end" ELSE "live")
  /\ at' = [at EXCEPT ![p] = @ + 1]
  /\ UNCHANGED <<dbVars, stream, view, lost, notHttp>>

\* request.is_disconnected().
ReaderLeaves(p) ==
  /\ post[p] = "live" /\ p \in lost
  /\ Step(p, "end")
  /\ UNCHANGED <<dbVars, stream, view, at, lost, webVars, notHttp>>

\* broker.read raises inside the response, which breaks off.
ReaderFails(p) ==
  /\ "broker" \in Faults
  /\ post[p] \in {"open", "live"}
  /\ Step(p, "failed")
  /\ UNCHANGED <<dbVars, stream, view, at, lost, webVars, notHttp>>

\* The connection breaks (network, closed tab, stop button) at any moment; the
\* handler is not told and goes on.
Drop(p) ==
  /\ "drop" \in Faults
  /\ post[p] \notin Idle /\ p \notin lost
  /\ lost' = lost \cup {p}
  /\ UNCHANGED <<dbVars, stream, post, view, at, webVars, notHttp>>

Handler(p) == \/ PostLookup(p) \/ PostDecide(p) \/ PostUser(p)
              \/ PostAssistant(p) \/ PostSpawn(p) \/ PostRepair(p)
              \/ ReadInitial(p) \/ ReaderCheck(p) \/ ReaderDeliver(p)
              \/ ReaderLeaves(p)

-----------------------------------------------------------------------------
(* The abort endpoint, the deletion of the conversation, and the process.  *)

\* task_manager.abort: a live task is cancelled and the answer is
\* {"aborted": true}; otherwise the row decides.
AbortArrive(a) ==
  /\ up /\ abort[a].pc = "idle" /\ row[abort[a].req] # NoRow
  /\ LET r == abort[a].req
     IN  IF Running(r)
         THEN /\ cancel' = [cancel EXCEPT ![r] = TRUE]
              /\ abort' = [abort EXCEPT ![a].pc = "end"]
         ELSE /\ abort' = [abort EXCEPT ![a].pc = "look"]
              /\ UNCHANGED cancel
  /\ UNCHANGED <<dbVars, stream, task, mem, late, calls, httpVars, webVars,
                 procVars>>

\* get_message, which may raise.
AbortLook(a) ==
  /\ abort[a].pc = "look"
  /\ \/ LET v == row[abort[a].req]
        IN  abort' = [abort EXCEPT ![a].view = v,
                        ![a].pc = IF v # NoRow /\ v.status = "streaming"
                                  THEN "write" ELSE "end"]
     \/ "store" \in Faults /\ abort' = [abort EXCEPT ![a].pc = "failed"]
  /\ UNCHANGED <<dbVars, stream, workVars, httpVars, webVars, procVars>>

\* A row that no worker owns is closed as "aborted", with the content fetched;
\* the call may raise, its commit applied or not.
AbortWrite(a) ==
  /\ abort[a].pc = "write"
  /\ \/ /\ row[abort[a].req] # NoRow
        /\ Overwrite(abort[a].req, [abort[a].view EXCEPT !.status = "aborted"])
        /\ \/ abort' = [abort EXCEPT ![a].pc = "end"]
           \/ "store" \in Faults /\ abort' = [abort EXCEPT ![a].pc = "failed"]
     \/ /\ row[abort[a].req] = NoRow \/ "store" \in Faults
        /\ UNCHANGED <<row, clobbered>>
        /\ abort' = [abort EXCEPT ![a].pc = "failed"]
  /\ UNCHANGED <<conv, rows, stream, workVars, httpVars, webVars, procVars>>

\* delete_conversation: the message rows go with it, the workers do not.
Delete ==
  /\ "delete" \in Faults /\ conv = "live"
  /\ conv' = "deleted"
  /\ rows' = <<>>
  /\ row' = [r \in Requests |-> NoRow]
  /\ UNCHANGED <<clobbered, stream, workVars, notWorker>>

\* The process dies and a new one starts: every task and handler is gone, rows
\* and streams stay, and nothing looks for turns left "streaming".
Crash ==
  /\ "crash" \in Faults /\ crashes < MaxCrashes
  /\ crashes' = crashes + 1 /\ up' = TRUE
  /\ task' = [r \in Requests |-> IF Running(r) THEN "ended" ELSE task[r]]
  /\ cancel' = [r \in Requests |-> FALSE]
  /\ late' = [r \in Requests |-> NoLate]
  /\ post' = [p \in Posts |-> IF post[p] \in Idle THEN post[p] ELSE "failed"]
  /\ abort' = [a \in Aborts |-> IF abort[a].pc \in Idle THEN abort[a]
                                ELSE [abort[a] EXCEPT !.pc = "failed"]]
  /\ UNCHANGED <<dbVars, stream, mem, calls, view, at, lost, webVars>>

\* ChatTaskManager.shutdown, after the server has drained its connections:
\* every live task is cancelled at once.  The process exits through Crash.
Shutdown ==
  /\ "crash" \in Faults /\ crashes < MaxCrashes
  /\ up /\ up' = FALSE
  /\ \A p \in Posts : post[p] \in Idle
  /\ \A a \in Aborts : abort[a].pc \in Idle
  /\ cancel' = [r \in Requests |-> Running(r)]
  /\ UNCHANGED <<dbVars, stream, task, mem, late, calls, httpVars, webVars,
                 abort, crashes>>

Next ==
  \/ \E r \in Requests : Worker(r) \/ LateSave(r)
  \/ \E p \in Posts : PostArrive(p) \/ Handler(p) \/ PostFails(p)
                     \/ ReaderFails(p) \/ Drop(p)
  \/ \E a \in Aborts : AbortArrive(a) \/ AbortLook(a) \/ AbortWrite(a)
  \/ Delete \/ Crash \/ Shutdown

\* asyncio runs every ready task, the runtime of a turn ends (its steps and its
\* model calls are bounded), and a connected response drains.  Nothing makes
\* the browser retry, a user abort, or a process crash.
Fairness ==
  /\ \A r \in Requests : WF_vars(Worker(r)) /\ WF_vars(LateSave(r))
  /\ \A p \in Posts : WF_vars(Handler(p))
  /\ \A a \in Aborts : WF_vars(AbortLook(a)) /\ WF_vars(AbortWrite(a))

Spec     == Init /\ [][Next]_vars
FairSpec == Spec /\ Fairness

-----------------------------------------------------------------------------
(* What a turn guarantees.                                                 *)

\* However often the browser repeats a request, however its POSTs overlap and
\* whatever crashes, the model is asked at most once for it
\* (README "client_request_id"; UniqueConstraint(request_id)).
AtMostOneCall == \A r \in Requests : calls[r] <= 1

\* In the log of a turn nothing but further terminal events follows a terminal
\* event: the worker never goes back from "error" or "aborted" to content.
TerminalEndsLog ==
  \A r \in Requests : \A i, j \in DOMAIN stream[r] :
    i < j /\ stream[r][i] \in Terminal => stream[r][j] \in Terminal

\* The frames the browser applied, over every connection it lost and resumed
\* with Last-Event-ID, are the log from its start, without gap, repetition or
\* reordering; only frames of a snapshot come after them.
ResumeExact ==
  \A r \in Requests : \E n \in 0..Len(stream[r]) : \A i \in DOMAIN inbox[r] :
    IF i <= n THEN inbox[r][i].live /\ inbox[r][i].event = stream[r][i]
              ELSE ~inbox[r][i].live

\* A worker that saved its row publishes "done" only for a completed row, which
\* stays completed until another handler overwrites it (persisted in worker.py).
DoneIsDurable ==
  \A r \in Requests :
    /\ \E i \in DOMAIN stream[r] : stream[r][i] = "done"
    /\ mem[r].saved /\ row[r] # NoRow /\ r \notin clobbered
    => row[r].status = "completed"

\* When the worker is over, the last word of the log is the status of the row:
\* the terminal event and the saved status are chosen on different paths.
\* Holds with one abort and working stores.
VerdictAgrees ==
  \A r \in Requests :
    /\ task[r] = "ended" /\ late[r] = NoLate
    /\ row[r] # NoRow /\ r \notin clobbered
    /\ \E i \in DOMAIN stream[r] : stream[r][i] \in Terminal
    => SnapshotStatus(row[r].status) = stream[r][Len(stream[r])]

Orphan(r) ==
  /\ row[r] # NoRow /\ row[r].status = "streaming" /\ ~Running(r)
  /\ \A p \in Posts : Req(p) = r => post[p] # "spawn"

\* No process was stopped so far.
Undisturbed == up /\ crashes = 0

\* A POST that has come to its response leaves no turn "streaming" behind that
\* nobody works on, also when the turn's first process has crashed: it found a
\* worker, started one, or closed the turn.
RetryRepairs ==
  \A p \in Posts : post[p] \in {"open", "check", "live"} => ~Orphan(Req(p))

\* A turn whose row is "streaming" is settled in the end, whether or not a
\* browser stays connected, unless the process is stopped: then nobody looks
\* for it until the browser repeats the request.
TurnSettles ==
  \A r \in Requests :
    (row[r] # NoRow /\ row[r].status = "streaming")
      ~> ((row[r] # NoRow /\ row[r].status # "streaming") \/ ~Undisturbed)

Unheard(p) ==
  \A i \in DOMAIN stream[Req(p)] :
    i <= at[p] => stream[Req(p)][i] \notin Terminal

\* A response that waits for events, and was not resumed past the terminal
\* event, ends: the event reaches it or the browser has left.  After a crash it
\* may wait for ever: the repair closes the row and publishes nothing, and a
\* stream that holds the dead worker's first events is read, not the row.
ResponseEnds ==
  \A p \in Posts :
    (post[p] = "live" /\ Unheard(p))
      ~> \/ post[p] \in {"end", "failed"}
         \/ ~Undisturbed /\ \A i \in DOMAIN stream[Req(p)] :
                                stream[Req(p)][i] \notin Terminal

-----------------------------------------------------------------------------
(* What the documentation says of a turn and the code does not do.         *)

\* README: client_request_id keeps a repeated submission from creating
\* duplicate messages.
OneUserRow ==
  \A r \in Requests :
    Cardinality({i \in DOMAIN rows :
                   rows[i] = [role |-> "user", req |-> r]}) <= 1

\* README: a turn stopped by the user is persisted as "aborted".  An abort that
\* found the worker alive has answered true without fetching the row.
AbortPersists ==
  \A a \in Aborts :
    LET r == abort[a].req
    IN  /\ abort[a].pc = "end" /\ abort[a].view = NoRow
        /\ ~Running(r) /\ late[r] = NoLate
        => row[r].status = "aborted"

\* The test of idempotence: a repeated POST does not change a completed answer.
AnswerSurvivesRetry ==
  [][\A r \in Requests :
       row[r] # NoRow /\ row[r].status = "completed" => row'[r] = row[r]]_row
=============================================================================
