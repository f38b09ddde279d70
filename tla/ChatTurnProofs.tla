--------------------------- MODULE ChatTurnProofs ---------------------------
(***************************************************************************)
(* Proofs about ChatTurn for every set of requests, every number of        *)
(* attempts, aborts, events and crashes, and every combination of faults;  *)
(* only RetryIsRepair and VerdictIsOne exclude some, as the code demands.  *)
(***************************************************************************)
EXTENDS ChatClient, ChatRefinement, Recursion

\* The parts of a state that the type invariant of the next one rests on: a
\* handler past its lookup holds a row, a response past its first read has a
\* stream position, an abort that writes holds a row.
HeldOK ==
  /\ \A p \in Posts : post[p] \in {"spawn", "repair", "open", "check"}
                        => view[p] \in RowData
  /\ \A p \in Posts : post[p] \in {"check", "live"} => at[p] \in Nat
  /\ \A a \in Aborts : abort[a].pc = "write" => abort[a].view \in RowData

TInv == TypeOK /\ HeldOK

LEMMA ReqType == \A p \in Posts : Req(p) \in Requests
  BY DEF Posts, Req

LEMMA NoRowNotData == NoRow \notin RowData
  BY ChatAssumption DEF RowData, Statuses

LEMMA InFlightType ==
  ASSUME TypeOK, NEW r \in Requests
  PROVE  InFlight(r) \in Events
  BY DEF TypeOK, WorkersOK, Locals, InFlight, Events, Terminal, Content

LEMMA PublishType ==
  ASSUME TypeOK, NEW r \in Requests, NEW e \in Events, MaybePublish(r, e)
  PROVE  stream' \in [Requests -> Seq(Events)]
<1>1. stream \in [Requests -> Seq(Events)]
  BY DEF TypeOK, StoresOK
<1>2. CASE Publish(r, e)
  <2>1. Append(stream[r], e) \in Seq(Events)
    BY <1>1
  <2> QED BY <1>1, <1>2, <2>1 DEF Publish
<1>3. CASE UNCHANGED stream
  BY <1>1, <1>3
<1> QED BY <1>2, <1>3 DEF MaybePublish

LEMMA LocalsType ==
  ASSUME NEW m \in Locals, NEW e \in Content
  PROVE  /\ Accumulate(m, e) \in Locals
         /\ Failed(m) \in Locals
         /\ Aborted(m) \in Locals
         /\ RowOf(m) \in RowData
<1>1. Accumulate(m, e) \in Locals
  <2>1. ASSUME NEW st \in Nat, NEW tx \in Int
        PROVE  [m EXCEPT !.steps = st, !.text = tx, !.ev = e] \in Locals
    BY DEF Locals
  <2>2. m.steps \in Nat /\ m.steps + 1 \in Nat /\ m.text \in Int /\ m.text + 1 \in Int
    BY DEF Locals
  <2> DEFINE st == IF e = "step" THEN m.steps + 1 ELSE m.steps
             tx == CASE e = "text" -> m.text + 1
                     [] e = "text_reset" -> 0
                     [] OTHER -> m.text
  <2>3. st \in Nat /\ tx \in Int
    BY <2>2
  <2>4. Accumulate(m, e) = [m EXCEPT !.steps = st, !.text = tx, !.ev = e]
    BY DEF Accumulate
  <2> HIDE DEF st, tx
  <2> QED BY <2>1, <2>3, <2>4
<1>2. Aborted(m) \in Locals
  BY DEF Locals, Aborted, Statuses
<1>4. Failed(m) \in Locals
  <2>2. ErrText \in Int
    BY DEF ErrText
  <2>3. ASSUME NEW st \in Statuses, NEW tx \in Int
        PROVE  [m EXCEPT !.status = st, !.text = tx] \in Locals
    BY DEF Locals
  <2>4. "error" \in Statuses
    BY DEF Statuses
  <2>5. Failed(m) = [m EXCEPT !.status = "error", !.text = ErrText]
    BY DEF Failed
  <2> HIDE DEF ErrText
  <2> QED BY <2>2, <2>3, <2>4, <2>5
<1>3. RowOf(m) \in RowData
  BY DEF Locals, RowOf, RowData
<1> QED BY <1>1, <1>2, <1>3, <1>4

LEMMA SnapshotType ==
  ASSUME NEW v \in RowData
  PROVE  /\ Snapshot(v) \in Seq(Frames)
         /\ \A n \in 1..(Len(Snapshot(v)) - 1) : SubSeq(Snapshot(v), 1, n) \in Seq(Frames)
<1> DEFINE F(e, n) == <<[event |-> e, n |-> n, live |-> FALSE]>>
<1>1. \A e \in Events \cup Statuses, n \in Int : F(e, n) \in Seq(Frames)
  BY DEF Frames
<1>2. SnapshotStatus(v.status) \in Events \cup Statuses
  BY DEF SnapshotStatus, RowData, Statuses, Events, Terminal
<1>3. F("start", 0) \in Seq(Frames) /\ F(SnapshotStatus(v.status), 0) \in Seq(Frames)
  <2>1. "start" \in Events \cup Statuses /\ 0 \in Int
    BY DEF Events
  <2> HIDE DEF F
  <2> QED BY <1>1, <1>2, <2>1
<1>4. F("step", v.steps) \in Seq(Frames) /\ F("text", v.text) \in Seq(Frames)
  <2>1. v.steps \in Int /\ v.text \in Int
    BY DEF RowData
  <2>2. "step" \in Events \cup Statuses /\ "text" \in Events \cup Statuses
    BY DEF Events, Content
  <2> HIDE DEF F
  <2> QED BY <1>1, <2>1, <2>2
<1>5. Snapshot(v) \in Seq(Frames)
  <2> HIDE DEF F
  <2>1. Snapshot(v) = F("start", 0) \o (IF v.steps > 0 THEN F("step", v.steps) ELSE <<>>)
                        \o (IF v.text # 0 THEN F("text", v.text) ELSE <<>>)
                        \o F(SnapshotStatus(v.status), 0)
    BY DEF Snapshot, F
  <2> QED BY <2>1, <1>3, <1>4
<1> QED BY <1>5

-----------------------------------------------------------------------------
(* The steps of the worker.                                                *)

\* What the worker leaves alone keeps its types.
LEMMA NotWorkerTyped ==
  ASSUME TInv, UNCHANGED notWorker
  PROVE  HandlersOK' /\ BrowserOK' /\ ProcessOK' /\ HeldOK'
BY DEF TInv, TypeOK, HandlersOK, BrowserOK, ProcessOK, HeldOK, notWorker,
       httpVars, webVars, procVars

LEMMA OverwriteTyped ==
  ASSUME TypeOK, NEW r \in Requests, NEW d \in RowData, Overwrite(r, d)
  PROVE  /\ row' \in [Requests -> RowData \cup {NoRow}]
         /\ clobbered' \subseteq Requests
BY DEF TypeOK, StoresOK, Overwrite

LEMMA WorkerTyped ==
  ASSUME TInv, NEW r \in Requests, Worker(r)
  PROVE  TInv'
<1> USE DEF TInv
<1>t. TypeOK
  OBVIOUS
<1>g. \A pc \in WorkerPcs : Goto(r, pc) => task' \in [Requests -> WorkerPcs]
  BY DEF TypeOK, WorkersOK, Goto
<1>m. \A m \in Locals : mem' = [mem EXCEPT ![r] = m] => mem' \in [Requests -> Locals]
  BY DEF TypeOK, WorkersOK
<1>l. mem[r] \in Locals
  BY DEF TypeOK, WorkersOK
<1>f. /\ Failed(mem[r]) \in Locals /\ Aborted(mem[r]) \in Locals
      /\ RowOf(mem[r]) \in RowData
      /\ \A e \in Content : Accumulate(mem[r], e) \in Locals
  BY <1>l, LocalsType DEF Content
<1>1. CASE Begin(r)
  <2>1. task' \in [Requests -> WorkerPcs]
    BY <1>1, <1>g DEF Begin, WorkerPcs, Live
  <2>2. UNCHANGED <<dbVars, stream, mem, cancel, late, calls, notWorker>>
    BY <1>1 DEF Begin
  <2>3. StoresOK' /\ WorkersOK'
    BY <2>1, <2>2 DEF TypeOK, StoresOK, WorkersOK, dbVars
  <2> QED BY <2>2, <2>3, NotWorkerTyped DEF TypeOK
<1>2. CASE Published(r)
  <2>1. stream' \in [Requests -> Seq(Events)]
    BY <1>2, InFlightType, PublishType DEF Published, MaybePublish
  <2>2. mem' \in [Requests -> Locals]
    <3> DEFINE told == mem[r].told \/ task[r] \in {"rterr", "exc", "abt"}
    <3>1. \A b \in BOOLEAN : [mem[r] EXCEPT !.told = b] \in Locals
      BY <1>l DEF Locals
    <3>2. mem' = [mem EXCEPT ![r] = [mem[r] EXCEPT !.told = told]]
      BY <1>2 DEF Published, TypeOK, WorkersOK
    <3>3. told \in BOOLEAN
      OBVIOUS
    <3> HIDE DEF told
    <3> QED BY <1>m, <3>1, <3>2, <3>3
  <2>3. calls' \in [Requests -> Nat]
    BY <1>2 DEF Published, TypeOK, WorkersOK
  <2>4. task' \in [Requests -> WorkerPcs]
    <3>1. AfterPublish[task[r]] \in WorkerPcs
      BY <1>2 DEF Published, AfterPublish, WorkerPcs, Live
    <3> QED BY <1>2, <1>g, <3>1 DEF Published
  <2>5. UNCHANGED <<dbVars, cancel, late, notWorker>>
    BY <1>2 DEF Published
  <2>6. StoresOK' /\ WorkersOK'
    BY <2>1, <2>2, <2>3, <2>4, <2>5 DEF TypeOK, StoresOK, WorkersOK, dbVars
  <2> QED BY <2>5, <2>6, NotWorkerTyped DEF TypeOK
<1>3. CASE PublishFails(r)
  <2>1. stream' \in [Requests -> Seq(Events)]
    BY <1>3, InFlightType, PublishType DEF PublishFails
  <2>2. mem' \in [Requests -> Locals]
    <3> DEFINE m == IF task[r] \in {"emit", "rterr"} THEN Failed(mem[r]) ELSE mem[r]
    <3>1. mem' = [mem EXCEPT ![r] = m]
      BY <1>3 DEF PublishFails
    <3>2. m \in Locals
      BY <1>l, <1>f
    <3> HIDE DEF m
    <3> QED BY <1>m, <3>1, <3>2
  <2>4. task' \in [Requests -> WorkerPcs]
    <3>1. AfterFailure[task[r]] \in WorkerPcs
      BY <1>3 DEF PublishFails, AfterFailure, WorkerPcs, Live
    <3> QED BY <1>3, <1>g, <3>1 DEF PublishFails
  <2>5. UNCHANGED <<dbVars, cancel, late, calls, notWorker>>
    BY <1>3 DEF PublishFails
  <2>6. StoresOK' /\ WorkersOK'
    BY <2>1, <2>2, <2>4, <2>5 DEF TypeOK, StoresOK, WorkersOK, dbVars
  <2> QED BY <2>5, <2>6, NotWorkerTyped DEF TypeOK
<1>4. CASE RuntimeYields(r)
  <2>1. mem' \in [Requests -> Locals]
    <3>1. PICK e \in Content : mem' = [mem EXCEPT ![r] = Accumulate(mem[r], e)]
      BY <1>4 DEF RuntimeYields
    <3> QED BY <1>m, <1>f, <3>1
  <2>2. task' \in [Requests -> WorkerPcs]
    BY <1>4, <1>g DEF RuntimeYields, WorkerPcs, Live
  <2>3. UNCHANGED <<dbVars, stream, cancel, late, calls, notWorker>>
    BY <1>4 DEF RuntimeYields
  <2>4. StoresOK' /\ WorkersOK'
    BY <2>1, <2>2, <2>3 DEF TypeOK, StoresOK, WorkersOK, dbVars
  <2> QED BY <2>3, <2>4, NotWorkerTyped DEF TypeOK
<1>5. CASE RuntimeFails(r)
  <2>1. mem' \in [Requests -> Locals]
    BY <1>5, <1>m, <1>f DEF RuntimeFails
  <2>2. task' \in [Requests -> WorkerPcs]
    BY <1>5, <1>g DEF RuntimeFails, WorkerPcs, Live
  <2>3. UNCHANGED <<dbVars, stream, cancel, late, calls, notWorker>>
    BY <1>5 DEF RuntimeFails
  <2>4. StoresOK' /\ WorkersOK'
    BY <2>1, <2>2, <2>3 DEF TypeOK, StoresOK, WorkersOK, dbVars
  <2> QED BY <2>3, <2>4, NotWorkerTyped DEF TypeOK
<1>6. CASE RuntimeEnds(r)
  <2>1. task' \in [Requests -> WorkerPcs]
    BY <1>6, <1>g DEF RuntimeEnds, WorkerPcs, Live
  <2>2. UNCHANGED <<dbVars, stream, mem, cancel, late, calls, notWorker>>
    BY <1>6 DEF RuntimeEnds
  <2>3. StoresOK' /\ WorkersOK'
    BY <2>1, <2>2 DEF TypeOK, StoresOK, WorkersOK, dbVars
  <2> QED BY <2>2, <2>3, NotWorkerTyped DEF TypeOK
<1>7. CASE Save(r)
  <2>1. /\ row' \in [Requests -> RowData \cup {NoRow}]
        /\ clobbered' \subseteq Requests
    <3>1. CASE Overwrite(r, RowOf(mem[r]))
      BY <1>f, <1>t, <3>1, OverwriteTyped
    <3>2. CASE UNCHANGED <<row, clobbered>>
      BY <3>2 DEF TypeOK, StoresOK
    <3> QED BY <1>7, <3>1, <3>2 DEF Save
  <2>2. mem' \in [Requests -> Locals]
    <3>1. [mem[r] EXCEPT !.saved = TRUE] \in Locals
      BY <1>l DEF Locals
    <3>2. mem' = [mem EXCEPT ![r] = [mem[r] EXCEPT !.saved = TRUE]] \/ mem' = mem
      BY <1>7 DEF Save
    <3> QED BY <1>m, <3>1, <3>2 DEF TypeOK, WorkersOK
  <2>3. task' \in [Requests -> WorkerPcs]
    <3>1. AfterSave(r) \in WorkerPcs
      BY DEF AfterSave, WorkerPcs, Live
    <3> QED BY <1>7, <1>g, <3>1 DEF Save
  <2>4. UNCHANGED <<conv, rows, stream, cancel, late, calls, notWorker>>
    BY <1>7 DEF Save
  <2>5. StoresOK' /\ WorkersOK'
    BY <2>1, <2>2, <2>3, <2>4 DEF TypeOK, StoresOK, WorkersOK
  <2> QED BY <2>4, <2>5, NotWorkerTyped DEF TypeOK
<1>8. CASE Interrupt(r)
  <2>1. stream' \in [Requests -> Seq(Events)]
    <3>1. MaybePublish(r, InFlight(r))
      BY <1>8 DEF Interrupt, MaybePublish
    <3> QED BY <1>t, <3>1, InFlightType, PublishType
  <2>2. mem' \in [Requests -> Locals]
    <3> DEFINE m == IF AfterCancel[task[r]] = "abt" THEN Aborted(mem[r]) ELSE mem[r]
    <3>1. mem' = [mem EXCEPT ![r] = m]
      BY <1>8 DEF Interrupt
    <3>2. m \in Locals
      BY <1>l, <1>f
    <3> HIDE DEF m
    <3> QED BY <1>m, <3>1, <3>2
  <2>3. late' \in [Requests -> RowData \cup {NoRow}]
    BY <1>8, <1>f DEF Interrupt, TypeOK, WorkersOK
  <2>4. task' \in [Requests -> WorkerPcs]
    <3>1. AfterCancel[task[r]] \in WorkerPcs
      BY <1>8 DEF Interrupt, AfterCancel, WorkerPcs, Live, Running
    <3> QED BY <1>8, <1>g, <3>1 DEF Interrupt
  <2>5. cancel' \in [Requests -> BOOLEAN]
    BY <1>8 DEF Interrupt, TypeOK, WorkersOK
  <2>6. UNCHANGED <<dbVars, calls, notWorker>>
    BY <1>8 DEF Interrupt
  <2>7. StoresOK' /\ WorkersOK'
    BY <2>1, <2>2, <2>3, <2>4, <2>5, <2>6 DEF TypeOK, StoresOK, WorkersOK, dbVars
  <2> QED BY <2>6, <2>7, NotWorkerTyped DEF TypeOK
<1> QED BY <1>1, <1>2, <1>3, <1>4, <1>5, <1>6, <1>7, <1>8 DEF Worker

LEMMA LateSaveTyped ==
  ASSUME TInv, NEW r \in Requests, LateSave(r)
  PROVE  TInv'
<1> USE DEF TInv
<1>t. TypeOK
  OBVIOUS
<1>0. late[r] \in RowData
  BY DEF LateSave, NoLate, TypeOK, WorkersOK
<1>1. /\ row' \in [Requests -> RowData \cup {NoRow}]
      /\ clobbered' \subseteq Requests
  <2>1. CASE Overwrite(r, late[r])
    BY <1>t, <1>0, <2>1, OverwriteTyped
  <2>2. CASE UNCHANGED <<row, clobbered>>
    BY <2>2 DEF TypeOK, StoresOK
  <2> QED BY <2>1, <2>2 DEF LateSave
<1>2. late' \in [Requests -> RowData \cup {NoRow}]
  BY DEF LateSave, NoLate, TypeOK, WorkersOK
<1>3. UNCHANGED <<conv, rows, stream, task, mem, cancel, calls, notWorker>>
  BY DEF LateSave
<1>4. StoresOK' /\ WorkersOK'
  BY <1>1, <1>2, <1>3 DEF TypeOK, StoresOK, WorkersOK
<1> QED BY <1>3, <1>4, NotWorkerTyped DEF TypeOK

-----------------------------------------------------------------------------
(* The steps of a POST handler.                                            *)

LEMMA StepTyped ==
  ASSUME TypeOK, NEW p \in Posts, NEW pc \in PostPcs, Step(p, pc)
  PROVE  post' \in [Posts -> PostPcs]
BY DEF TypeOK, HandlersOK, Step

LEMMA AppendRowTyped ==
  ASSUME TypeOK, NEW r \in Requests, NEW role \in {"user", "assistant"},
         AppendRow(role, r)
  PROVE  rows' \in Seq([role : {"user", "assistant"}, req : Requests])
BY DEF TypeOK, StoresOK, AppendRow

LEMMA NewRowData == NewRow \in RowData
BY DEF NewRow, RowData, Statuses

\* A step of a handler that fetches nothing and moves no cursor: it is typed
\* when it holds a row where the next program counter needs one.
LEMMA MovesTyped ==
  ASSUME TInv, NEW p \in Posts, NEW pc \in PostPcs, Step(p, pc),
         UNCHANGED <<view, at, abort>>, lost' \subseteq Posts,
         pc \in {"spawn", "repair", "open", "check"} => view[p] \in RowData,
         pc \in {"check", "live"} => at[p] \in Nat
  PROVE  HandlersOK' /\ HeldOK'
<1>1. post' \in [Posts -> PostPcs]
  BY StepTyped DEF TInv
<1>2. HandlersOK'
  BY <1>1 DEF TInv, TypeOK, HandlersOK
<1>3. HeldOK'
  BY DEF TInv, TypeOK, HandlersOK, HeldOK, Step
<1> QED BY <1>2, <1>3

LEMMA NotHttpTyped ==
  ASSUME TInv, UNCHANGED notHttp
  PROVE  WorkersOK' /\ ProcessOK'
BY DEF TInv, TypeOK, WorkersOK, ProcessOK, notHttp, workVars, procVars

LEMMA DbTyped ==
  ASSUME TInv, UNCHANGED <<dbVars, stream>>
  PROVE  StoresOK'
BY DEF TInv, TypeOK, StoresOK, dbVars

LEMMA WebTyped ==
  ASSUME TInv, UNCHANGED webVars
  PROVE  BrowserOK'
BY DEF TInv, TypeOK, BrowserOK, webVars

LEMMA PostTyped ==
  ASSUME TInv, NEW p \in Posts,
         PostArrive(p) \/ PostLookup(p) \/ PostDecide(p) \/ PostUser(p)
  PROVE  TInv'
<1> USE DEF TInv
<1>t. TypeOK
  OBVIOUS
<1>r. Req(p) \in Requests
  BY ReqType
<1>1. CASE PostArrive(p)
  <2>1. \E pc \in {"lookup", "failed"} : Step(p, pc)
    BY <1>1 DEF PostArrive
  <2>2. post' \in [Posts -> PostPcs]
    BY <2>1, <1>t, StepTyped DEF PostPcs, Idle
  <2>3. ResumeFrom(Req(p)) \in Nat \cup {SnapId}
    BY <1>r DEF ResumeFrom, TypeOK, BrowserOK
  <2>4. at' = [at EXCEPT ![p] = ResumeFrom(Req(p))]
    BY <1>1 DEF PostArrive
  <2>5. UNCHANGED <<dbVars, stream, view, lost, webVars, notHttp>>
    BY <1>1 DEF PostArrive
  <2>6. HandlersOK'
    BY <2>2, <2>3, <2>4, <2>5 DEF TypeOK, HandlersOK, notHttp
  <2>7. HeldOK'
    BY <2>1, <2>4, <2>5 DEF TypeOK, HandlersOK, HeldOK, Step, notHttp
  <2> QED BY <2>5, <2>6, <2>7, NotHttpTyped, DbTyped, WebTyped DEF TypeOK
<1>2. CASE PostLookup(p)
  <2>1. Step(p, "decide") /\ "decide" \in PostPcs
    BY <1>2 DEF PostLookup, PostPcs
  <2>2. post' \in [Posts -> PostPcs]
    BY <2>1, <1>t, StepTyped
  <2>3. view' = [view EXCEPT ![p] = row[Req(p)]]
    BY <1>2 DEF PostLookup
  <2>4. UNCHANGED <<dbVars, stream, at, lost, webVars, notHttp>>
    BY <1>2 DEF PostLookup
  <2>5. HandlersOK'
    BY <2>2, <2>3, <2>4, <1>r DEF TypeOK, HandlersOK, StoresOK, notHttp
  <2>6. HeldOK'
    BY <2>1, <2>3, <2>4 DEF TypeOK, HandlersOK, HeldOK, Step, notHttp
  <2> QED BY <2>4, <2>5, <2>6, NotHttpTyped, DbTyped, WebTyped DEF TypeOK
<1>3. CASE PostDecide(p)
  <2>1. PICK pc \in {"user", "repair", "open"} :
          Step(p, pc) /\ (pc \in {"repair", "open"} => view[p] # NoRow)
    BY <1>3 DEF PostDecide
  <2>2. pc \in PostPcs
    BY <2>1 DEF PostPcs
  <2>3. view[p] # NoRow => view[p] \in RowData
    BY DEF TypeOK, HandlersOK
  <2>4. UNCHANGED <<dbVars, stream, view, at, lost, webVars, notHttp>>
    BY <1>3 DEF PostDecide
  <2>5. UNCHANGED <<view, at, abort>> /\ lost' \subseteq Posts
    BY <2>4 DEF TypeOK, HandlersOK, notHttp
  <2>6. HandlersOK' /\ HeldOK'
    BY <2>1, <2>2, <2>3, <2>5, MovesTyped
  <2> QED BY <2>4, <2>6, NotHttpTyped, DbTyped, WebTyped DEF TypeOK
<1>4. CASE PostUser(p)
  <2>1. \E pc \in {"asst", "failed"} : Step(p, pc)
    BY <1>4 DEF PostUser
  <2>2. UNCHANGED <<conv, row, clobbered, stream, view, at, lost, webVars, notHttp>>
    BY <1>4 DEF PostUser
  <2>3. UNCHANGED <<view, at, abort>> /\ lost' \subseteq Posts
    BY <2>2 DEF TypeOK, HandlersOK, notHttp
  <2>4. HandlersOK' /\ HeldOK'
    BY <2>1, <2>3, MovesTyped DEF PostPcs, Idle
  <2>5. rows' \in Seq([role : {"user", "assistant"}, req : Requests])
    <3>1. AppendRow("user", Req(p)) \/ rows' = rows
      BY <1>4 DEF PostUser
    <3> QED BY <3>1, <1>t, <1>r, AppendRowTyped DEF TypeOK, StoresOK
  <2>6. StoresOK'
    BY <2>2, <2>5 DEF TypeOK, StoresOK
  <2> QED BY <2>2, <2>4, <2>6, NotHttpTyped, WebTyped DEF TypeOK
<1> QED BY <1>1, <1>2, <1>3, <1>4

LEMMA InsertTyped ==
  ASSUME TypeOK, NEW r \in Requests, InsertAssistant(r)
  PROVE  /\ rows' \in Seq([role : {"user", "assistant"}, req : Requests])
         /\ row' \in [Requests -> RowData \cup {NoRow}]
<1>1. rows' \in Seq([role : {"user", "assistant"}, req : Requests])
  BY AppendRowTyped DEF InsertAssistant
<1>2. row' \in [Requests -> RowData \cup {NoRow}]
  BY NewRowData DEF InsertAssistant, TypeOK, StoresOK
<1> QED BY <1>1, <1>2

\* A step that fetches or writes a row d before it goes on.
LEMMA HoldsTyped ==
  ASSUME TInv, NEW p \in Posts, NEW d \in RowData,
         NEW pc \in PostPcs \ {"check", "live"}, Step(p, pc),
         view' = [view EXCEPT ![p] = d], UNCHANGED <<at, lost, abort>>
  PROVE  HandlersOK' /\ HeldOK'
<1>1. post' \in [Posts -> PostPcs]
  BY StepTyped DEF TInv
<1>2. HandlersOK'
  BY <1>1 DEF TInv, TypeOK, HandlersOK
<1>3. HeldOK'
  BY DEF TInv, TypeOK, HandlersOK, HeldOK, Step
<1> QED BY <1>2, <1>3

\* What a POST whose database call raised may have committed.
LEMMA FailedCommit ==
  ASSUME TInv, NEW p \in Posts, PostFails(p)
  PROVE  \/ UNCHANGED <<rows, row, clobbered>>
         \/ AppendRow("user", Req(p)) /\ UNCHANGED <<row, clobbered>>
         \/ /\ InsertAssistant(Req(p)) /\ UNCHANGED clobbered
            /\ conv = "live" /\ RequestIdFree(Req(p))
         \/ \E d \in RowData :
              /\ d.status = "error" /\ row[Req(p)] # NoRow
              /\ Overwrite(Req(p), d) /\ UNCHANGED rows
<1> DEFINE fixed == [view[p] EXCEPT !.status = "error"]
<1>1. post[p] = "repair" => fixed \in RowData /\ fixed.status = "error"
  BY DEF TInv, HeldOK, RowData, Statuses
<1>2. CASE post[p] = "repair" /\ row[Req(p)] # NoRow /\ Overwrite(Req(p), fixed)
           /\ UNCHANGED rows
  <2> HIDE DEF fixed
  <2> QED BY <1>1, <1>2
<1> QED BY <1>2 DEF PostFails

LEMMA CreateTyped ==
  ASSUME TInv, NEW p \in Posts,
         PostAssistant(p) \/ PostSpawn(p) \/ PostRepair(p) \/ PostFails(p)
  PROVE  TInv'
<1> USE DEF TInv
<1>t. TypeOK
  OBVIOUS
<1>r. Req(p) \in Requests
  BY ReqType
<1>p. "spawn" \in PostPcs /\ "failed" \in PostPcs /\ "open" \in PostPcs
  BY DEF PostPcs, Idle
<1>1. CASE PostAssistant(p)
  <2>1. UNCHANGED <<conv, clobbered, stream, at, lost, webVars, notHttp>>
    BY <1>1 DEF PostAssistant
  <2>2. CASE /\ InsertAssistant(Req(p)) /\ Step(p, "spawn")
             /\ view' = [view EXCEPT ![p] = NewRow]
    <3>1. HandlersOK' /\ HeldOK'
      BY <2>1, <2>2, <1>p, NewRowData, HoldsTyped DEF notHttp
    <3>2. StoresOK'
      BY <2>1, <2>2, <1>t, <1>r, InsertTyped DEF TypeOK, StoresOK
    <3> QED BY <2>1, <3>1, <3>2, NotHttpTyped, WebTyped DEF TypeOK
  <2>3. CASE UNCHANGED <<rows, row, view>> /\ Step(p, "failed")
    <3>1. UNCHANGED <<view, at, abort>> /\ lost' \subseteq Posts
      BY <2>1, <2>3 DEF TypeOK, HandlersOK, notHttp
    <3>2. HandlersOK' /\ HeldOK'
      BY <2>3, <3>1, <1>p, MovesTyped
    <3>3. StoresOK'
      BY <2>1, <2>3 DEF TypeOK, StoresOK
    <3> QED BY <2>1, <3>2, <3>3, NotHttpTyped, WebTyped DEF TypeOK
  <2> QED BY <1>1, <2>2, <2>3 DEF PostAssistant
<1>2. CASE PostSpawn(p)
  <2>1. UNCHANGED <<dbVars, stream, cancel, late, calls, view, at, lost, webVars,
                    abort, procVars>>
    BY <1>2 DEF PostSpawn
  <2>2. Step(p, "open") /\ view[p] \in RowData
    BY <1>2 DEF PostSpawn, HeldOK
  <2>3. UNCHANGED <<view, at, abort>> /\ lost' \subseteq Posts
    BY <2>1 DEF TypeOK, HandlersOK
  <2>4. HandlersOK' /\ HeldOK'
    BY <2>2, <2>3, <1>p, MovesTyped
  <2>5. task' \in [Requests -> WorkerPcs] /\ mem' \in [Requests -> Locals]
    <3>1. Fresh \in Locals
      BY DEF Fresh, Locals, Statuses, Content
    <3>2. CASE UNCHANGED <<task, mem>>
      BY <3>2 DEF TypeOK, WorkersOK
    <3>3. CASE Goto(Req(p), "scheduled") /\ mem' = [mem EXCEPT ![Req(p)] = Fresh]
      BY <3>1, <3>3, <1>r DEF TypeOK, WorkersOK, Goto, WorkerPcs, Live
    <3> QED BY <1>2, <3>2, <3>3 DEF PostSpawn
  <2>6. WorkersOK' /\ ProcessOK'
    BY <2>1, <2>5 DEF TypeOK, WorkersOK, ProcessOK, procVars
  <2> QED BY <2>1, <2>4, <2>6, DbTyped, WebTyped DEF TypeOK
<1>3. CASE PostRepair(p)
  <2> DEFINE fixed == [view[p] EXCEPT !.status = "error"]
  <2>1. UNCHANGED <<conv, rows, stream, at, lost, webVars, notHttp>>
    BY <1>3 DEF PostRepair
  <2>2. fixed \in RowData
    BY <1>3 DEF PostRepair, HeldOK, RowData, Statuses
  <2>3. CASE /\ Overwrite(Req(p), fixed) /\ Step(p, "open")
             /\ view' = [view EXCEPT ![p] = fixed]
    <3> HIDE DEF fixed
    <3>1. HandlersOK' /\ HeldOK'
      BY <2>1, <2>2, <2>3, <1>p, HoldsTyped DEF notHttp
    <3>2. StoresOK'
      BY <2>1, <2>2, <2>3, <1>t, <1>r, OverwriteTyped DEF TypeOK, StoresOK
    <3> QED BY <2>1, <3>1, <3>2, NotHttpTyped, WebTyped DEF TypeOK
  <2>4. CASE UNCHANGED <<row, clobbered, view>> /\ Step(p, "failed")
    <3>1. UNCHANGED <<view, at, abort>> /\ lost' \subseteq Posts
      BY <2>1, <2>4 DEF TypeOK, HandlersOK, notHttp
    <3>2. HandlersOK' /\ HeldOK'
      BY <2>4, <3>1, <1>p, MovesTyped
    <3>3. StoresOK'
      BY <2>1, <2>4 DEF TypeOK, StoresOK
    <3> QED BY <2>1, <3>2, <3>3, NotHttpTyped, WebTyped DEF TypeOK
  <2> QED BY <1>3, <2>3, <2>4 DEF PostRepair
<1>4. CASE PostFails(p)
  <2>1. UNCHANGED <<conv, stream, view, at, lost, webVars, notHttp>>
    BY <1>4 DEF PostFails
  <2>2. Step(p, "failed")
    BY <1>4 DEF PostFails
  <2>3. UNCHANGED <<view, at, abort>> /\ lost' \subseteq Posts
    BY <2>1 DEF TypeOK, HandlersOK, notHttp
  <2>4. HandlersOK' /\ HeldOK'
    BY <2>2, <2>3, <1>p, MovesTyped
  <2>5. StoresOK'
    <3>1. CASE UNCHANGED <<rows, row, clobbered>>
      BY <2>1, <3>1 DEF TypeOK, StoresOK
    <3>2. CASE AppendRow("user", Req(p)) /\ UNCHANGED <<row, clobbered>>
      BY <2>1, <3>2, <1>t, <1>r, AppendRowTyped DEF TypeOK, StoresOK
    <3>3. CASE InsertAssistant(Req(p)) /\ UNCHANGED clobbered
      BY <2>1, <3>3, <1>t, <1>r, InsertTyped DEF TypeOK, StoresOK
    <3>4. CASE \E d \in RowData : Overwrite(Req(p), d) /\ UNCHANGED rows
      BY <2>1, <3>4, <1>t, <1>r, OverwriteTyped DEF TypeOK, StoresOK
    <3> QED BY <1>4, <3>1, <3>2, <3>3, <3>4, FailedCommit
  <2> QED BY <2>1, <2>4, <2>5, NotHttpTyped, WebTyped DEF TypeOK
<1> QED BY <1>1, <1>2, <1>3, <1>4

-----------------------------------------------------------------------------
(* The steps of a response.                                                *)

LEMMA DeliverTyped ==
  ASSUME TInv, NEW p \in Posts, NEW frames \in Seq(Frames),
         NEW last \in Nat \cup {SnapId}, Deliver(p, frames, last)
  PROVE  BrowserOK'
<1>1. inbox[Req(p)] \o frames \in Seq(Frames)
  <2>1. inbox[Req(p)] \in Seq(Frames)
    BY ReqType DEF TInv, TypeOK, BrowserOK
  <2> QED BY <2>1
<1> QED BY <1>1, ReqType DEF TInv, TypeOK, BrowserOK, Deliver

LEMMA ReadTyped ==
  ASSUME TInv, NEW p \in Posts,
         ReadInitial(p) \/ ReaderCheck(p) \/ ReaderDeliver(p)
           \/ ReaderLeaves(p) \/ ReaderFails(p) \/ Drop(p)
  PROVE  TInv'
<1> USE DEF TInv
<1>t. TypeOK
  OBVIOUS
<1>r. Req(p) \in Requests
  BY ReqType
<1>p. {"failed", "live", "check", "end"} \subseteq PostPcs
  BY DEF PostPcs, Idle
<1>1. CASE ReadInitial(p)
  <2>1. UNCHANGED <<dbVars, stream, view, at, lost, webVars, notHttp>>
    BY <1>1 DEF ReadInitial
  <2>2. PICK pc \in {"failed", "live", "check"} :
          Step(p, pc) /\ (pc # "failed" => at[p] # SnapId)
    BY <1>1 DEF ReadInitial
  <2>3. view[p] \in RowData /\ (pc # "failed" => at[p] \in Nat)
    BY <1>1, <2>2 DEF ReadInitial, HeldOK, TypeOK, HandlersOK
  <2>4. UNCHANGED <<view, at, abort>> /\ lost' \subseteq Posts
    BY <2>1 DEF TypeOK, HandlersOK, notHttp
  <2>5. HandlersOK' /\ HeldOK'
    BY <2>2, <2>3, <2>4, <1>p, MovesTyped
  <2> QED BY <2>1, <2>5, NotHttpTyped, DbTyped, WebTyped DEF TypeOK
<1>2. CASE ReaderCheck(p)
  <2>1. UNCHANGED <<dbVars, stream, view, at, notHttp>>
    BY <1>2 DEF ReaderCheck
  <2>2. at[p] \in Nat /\ view[p] \in RowData
    BY <1>2 DEF ReaderCheck, HeldOK
  <2>3. PICK pc \in {"live", "end"} : Step(p, pc)
    BY <1>2 DEF ReaderCheck
  <2>4. UNCHANGED <<view, at, abort>> /\ lost' \subseteq Posts
    BY <1>2, <2>1 DEF TypeOK, HandlersOK, notHttp, ReaderCheck
  <2>5. HandlersOK' /\ HeldOK'
    BY <2>2, <2>3, <2>4, <1>p, MovesTyped
  <2>6. BrowserOK'
    <3>1. CASE UNCHANGED webVars
      BY <3>1, WebTyped
    <3>2. CASE \E frames \in Seq(Frames) : Deliver(p, frames, SnapId)
      BY <3>2, DeliverTyped
    <3>3. \/ UNCHANGED webVars
          \/ Deliver(p, Snapshot(view[p]), SnapId)
          \/ \E n \in 1..(Len(Snapshot(view[p])) - 1) :
               Deliver(p, SubSeq(Snapshot(view[p]), 1, n), SnapId)
      BY <1>2 DEF ReaderCheck
    <3> QED BY <2>2, <3>1, <3>2, <3>3, SnapshotType
  <2> QED BY <2>1, <2>5, <2>6, NotHttpTyped, DbTyped DEF TypeOK
<1>3. CASE ReaderDeliver(p)
  <2> DEFINE e == stream[Req(p)][at[p] + 1]
  <2>1. UNCHANGED <<dbVars, stream, view, lost, notHttp>>
    BY <1>3 DEF ReaderDeliver
  <2>2. at[p] \in Nat /\ at[p] + 1 \in Nat /\ at' = [at EXCEPT ![p] = at[p] + 1]
    BY <1>3 DEF ReaderDeliver, HeldOK
  <2>3. e \in Events
    <3>1. stream[Req(p)] \in Seq(Events)
      BY <1>r DEF TypeOK, StoresOK
    <3>2. at[p] < Len(stream[Req(p)])
      BY <1>3 DEF ReaderDeliver
    <3> QED BY <2>2, <3>1, <3>2
  <2>4. PICK pc \in {"live", "end"} : Step(p, pc)
    BY <1>3 DEF ReaderDeliver
  <2>5. post' \in [Posts -> PostPcs]
    BY <2>4, <1>t, <1>p, StepTyped
  <2>6. HandlersOK'
    BY <2>1, <2>2, <2>5 DEF TypeOK, HandlersOK, notHttp
  <2>7. HeldOK'
    BY <2>1, <2>2, <2>4 DEF TypeOK, HandlersOK, HeldOK, Step, notHttp
  <2>8. BrowserOK'
    <3>1. Deliver(p, <<[event |-> e, n |-> 1, live |-> TRUE]>>, at[p] + 1)
      BY <1>3 DEF ReaderDeliver
    <3> HIDE DEF e
    <3>2. <<[event |-> e, n |-> 1, live |-> TRUE]>> \in Seq(Frames)
      BY <2>3 DEF Frames
    <3> QED BY <2>2, <3>1, <3>2, DeliverTyped
  <2> QED BY <2>1, <2>6, <2>7, <2>8, NotHttpTyped, DbTyped DEF TypeOK
<1>4. CASE ReaderLeaves(p) \/ ReaderFails(p)
  <2>1. UNCHANGED <<dbVars, stream, view, at, lost, webVars, notHttp>>
    BY <1>4 DEF ReaderLeaves, ReaderFails
  <2>2. PICK pc \in {"end", "failed"} : Step(p, pc)
    BY <1>4 DEF ReaderLeaves, ReaderFails
  <2>3. UNCHANGED <<view, at, abort>> /\ lost' \subseteq Posts
    BY <2>1 DEF TypeOK, HandlersOK, notHttp
  <2>4. HandlersOK' /\ HeldOK'
    BY <2>2, <2>3, <1>p, MovesTyped
  <2> QED BY <2>1, <2>4, NotHttpTyped, DbTyped, WebTyped DEF TypeOK
<1>5. CASE Drop(p)
  <2>1. UNCHANGED <<dbVars, stream, post, view, at, webVars, notHttp>>
    BY <1>5 DEF Drop
  <2>2. lost' \subseteq Posts
    BY <1>5 DEF Drop, TypeOK, HandlersOK
  <2>3. HandlersOK' /\ HeldOK'
    BY <2>1, <2>2 DEF TypeOK, HandlersOK, HeldOK, notHttp
  <2> QED BY <2>1, <2>3, NotHttpTyped, DbTyped, WebTyped DEF TypeOK
<1> QED BY <1>1, <1>2, <1>3, <1>4, <1>5

-----------------------------------------------------------------------------
(* The abort handler, the deletion and the process.                        *)

LEMMA AbortTyped ==
  ASSUME TInv, NEW a \in Aborts, AbortArrive(a) \/ AbortLook(a) \/ AbortWrite(a)
  PROVE  TInv'
<1> USE DEF TInv
<1>t. TypeOK
  OBVIOUS
<1>a. abort[a] \in AbortData /\ abort[a].req \in Requests
  BY DEF TypeOK, HandlersOK, AbortData
<1>b. \A pc \in Idle \cup {"look", "write"}, v \in RowData \cup {NoRow} :
        [abort[a] EXCEPT !.view = v, !.pc = pc] \in AbortData
  BY <1>a DEF AbortData
<1>1. CASE AbortArrive(a)
  <2>1. UNCHANGED <<dbVars, stream, task, mem, late, calls, httpVars, webVars,
                    procVars>>
    BY <1>1 DEF AbortArrive
  <2>2. PICK pc \in {"end", "look"} : abort' = [abort EXCEPT ![a].pc = pc]
    BY <1>1 DEF AbortArrive
  <2>3. cancel' \in [Requests -> BOOLEAN]
    BY <1>1 DEF AbortArrive, TypeOK, WorkersOK
  <2>4. abort' \in [Aborts -> AbortData]
    BY <1>a, <2>2 DEF TypeOK, HandlersOK, AbortData, Idle
  <2>5. HandlersOK' /\ WorkersOK' /\ ProcessOK'
    BY <2>1, <2>3, <2>4 DEF TypeOK, HandlersOK, WorkersOK, ProcessOK, httpVars,
                            procVars
  <2>6. HeldOK'
    BY <2>1, <2>2 DEF TypeOK, HandlersOK, HeldOK, httpVars
  <2> QED BY <2>1, <2>5, <2>6, DbTyped, WebTyped DEF TypeOK
<1>2. CASE AbortLook(a)
  <2> DEFINE v == row[abort[a].req]
  <2>1. UNCHANGED <<dbVars, stream, workVars, httpVars, webVars, procVars>>
    BY <1>2 DEF AbortLook
  <2>2. v \in RowData \cup {NoRow}
    BY <1>a DEF TypeOK, StoresOK
  <2>f. CASE abort' = [abort EXCEPT ![a].pc = "failed"]
    <3>1. abort' \in [Aborts -> AbortData]
      BY <1>a, <2>f DEF TypeOK, HandlersOK, AbortData, Idle
    <3>2. HandlersOK' /\ WorkersOK' /\ ProcessOK'
      BY <2>1, <3>1 DEF TypeOK, HandlersOK, WorkersOK, ProcessOK, httpVars,
                        workVars, procVars
    <3>3. HeldOK'
      BY <2>1, <2>f DEF TypeOK, HandlersOK, HeldOK, httpVars
    <3> QED BY <2>1, <3>2, <3>3, DbTyped, WebTyped DEF TypeOK
  <2>g. SUFFICES ASSUME abort' # [abort EXCEPT ![a].pc = "failed"] PROVE TInv'
    BY <2>f
  <2>3. PICK pc \in {"write", "end"} :
          /\ abort' = [abort EXCEPT ![a] = [abort[a] EXCEPT !.view = v, !.pc = pc]]
          /\ pc = "write" => v # NoRow
    BY <1>2, <2>g DEF AbortLook
  <2> HIDE DEF v
  <2>4. abort' \in [Aborts -> AbortData]
    BY <1>b, <2>2, <2>3 DEF TypeOK, HandlersOK, Idle
  <2>5. HandlersOK' /\ WorkersOK' /\ ProcessOK'
    BY <2>1, <2>4 DEF TypeOK, HandlersOK, WorkersOK, ProcessOK, httpVars,
                      workVars, procVars
  <2>6. HeldOK'
    <3>1. abort[a] = [pc |-> abort[a].pc, req |-> abort[a].req, view |-> abort[a].view]
      BY <1>a DEF AbortData
    <3>2. abort'[a].pc = pc /\ abort'[a].view = v
      BY <2>3, <3>1 DEF TypeOK, HandlersOK
    <3>3. \A b \in Aborts \ {a} : abort'[b] = abort[b]
      BY <2>3 DEF TypeOK, HandlersOK
    <3>4. \A b \in Aborts : abort'[b].pc = "write" => abort'[b].view \in RowData
      BY <2>2, <2>3, <3>2, <3>3 DEF HeldOK
    <3> QED BY <2>1, <3>4 DEF HeldOK, httpVars
  <2> QED BY <2>1, <2>5, <2>6, DbTyped, WebTyped DEF TypeOK
<1>3. CASE AbortWrite(a)
  <2> DEFINE d == [abort[a].view EXCEPT !.status = "aborted"]
  <2>1. UNCHANGED <<conv, rows, stream, workVars, httpVars, webVars, procVars>>
    BY <1>3 DEF AbortWrite
  <2>2. d \in RowData
    BY <1>3 DEF AbortWrite, HeldOK, RowData, Statuses
  <2>3. PICK pc \in {"end", "failed"} : abort' = [abort EXCEPT ![a].pc = pc]
    BY <1>3 DEF AbortWrite
  <2>4. abort' \in [Aborts -> AbortData]
    BY <1>a, <2>3 DEF TypeOK, HandlersOK, AbortData, Idle
  <2>5. HandlersOK' /\ WorkersOK' /\ ProcessOK'
    BY <2>1, <2>4 DEF TypeOK, HandlersOK, WorkersOK, ProcessOK, httpVars,
                      workVars, procVars
  <2>6. HeldOK'
    BY <2>1, <2>3 DEF TypeOK, HandlersOK, HeldOK, httpVars
  <2>7. StoresOK'
    <3>1. Overwrite(abort[a].req, d) \/ UNCHANGED <<row, clobbered>>
      BY <1>3 DEF AbortWrite
    <3> HIDE DEF d
    <3> QED BY <2>1, <2>2, <3>1, <1>a, <1>t, OverwriteTyped DEF TypeOK, StoresOK
  <2> QED BY <2>1, <2>5, <2>6, <2>7, WebTyped DEF TypeOK
<1> QED BY <1>1, <1>2, <1>3

LEMMA DeleteTyped == TInv /\ Delete => TInv'
<1> SUFFICES ASSUME TInv, Delete PROVE TInv'
  OBVIOUS
<1> USE DEF TInv
<1>1. UNCHANGED <<clobbered, stream, workVars, notWorker>>
  BY DEF Delete
<1>2. StoresOK'
  BY <1>1 DEF Delete, TypeOK, StoresOK
<1>3. WorkersOK'
  BY <1>1 DEF TypeOK, WorkersOK, workVars
<1> QED BY <1>1, <1>2, <1>3, NotWorkerTyped DEF TypeOK

LEMMA CrashTyped == TInv /\ Crash => TInv'
<1> SUFFICES ASSUME TInv, Crash PROVE TInv'
  OBVIOUS
<1> USE DEF TInv
<1>1. UNCHANGED <<dbVars, stream, mem, calls, view, at, lost, webVars>>
  BY DEF Crash
<1>2. WorkersOK'
  <2>1. task' \in [Requests -> WorkerPcs]
    BY DEF Crash, TypeOK, WorkersOK, WorkerPcs
  <2>2. cancel' \in [Requests -> BOOLEAN] /\ late' \in [Requests -> RowData \cup {NoRow}]
    BY DEF Crash, NoLate
  <2> QED BY <1>1, <2>1, <2>2 DEF TypeOK, WorkersOK
<1>3. post' = [p \in Posts |-> IF post[p] \in Idle THEN post[p] ELSE "failed"]
  BY DEF Crash
<1>4. post' \in [Posts -> PostPcs]
  BY <1>3 DEF PostPcs, Idle
<1>5. abort' \in [Aborts -> AbortData]
  <2>1. \A a \in Aborts : /\ abort[a] \in AbortData
                          /\ [abort[a] EXCEPT !.pc = "failed"] \in AbortData
    BY DEF TypeOK, HandlersOK, AbortData, Idle
  <2> QED BY <2>1 DEF Crash
<1>6. HandlersOK' /\ ProcessOK'
  BY <1>1, <1>4, <1>5 DEF TypeOK, HandlersOK, ProcessOK, Crash
<1>7. HeldOK'
  <2>1. \A p \in Posts : post'[p] \in Idle
    BY <1>3 DEF Idle
  <2>2. \A a \in Aborts : abort'[a].pc # "write"
    <3> TAKE a \in Aborts
    <3>1. abort[a] \in AbortData
      BY DEF TypeOK, HandlersOK
    <3> QED BY <3>1 DEF Crash, AbortData, Idle
  <2> QED BY <2>1, <2>2 DEF HeldOK, Idle
<1> QED BY <1>1, <1>2, <1>6, <1>7, DbTyped, WebTyped DEF TypeOK

LEMMA ShutdownTyped == TInv /\ Shutdown => TInv'
<1> SUFFICES ASSUME TInv, Shutdown PROVE TInv'
  OBVIOUS
<1> USE DEF TInv
<1>1. UNCHANGED <<dbVars, stream, task, mem, late, calls, httpVars, webVars,
                  abort, crashes>>
  BY DEF Shutdown
<1>2. cancel' \in [Requests -> BOOLEAN] /\ up' \in BOOLEAN
  <2>1. \A r \in Requests : Running(r) \in BOOLEAN
    BY DEF Running
  <2>2. cancel' = [r \in Requests |-> Running(r)]
    BY DEF Shutdown
  <2>3. cancel' \in [Requests -> BOOLEAN]
    BY <2>1, <2>2, Zenon
  <2>4. up' \in BOOLEAN
    BY DEF Shutdown
  <2> QED BY <2>3, <2>4
<1>3. WorkersOK' /\ HandlersOK' /\ ProcessOK' /\ HeldOK'
  BY <1>1, <1>2 DEF TypeOK, WorkersOK, HandlersOK, ProcessOK, HeldOK, httpVars
<1> QED BY <1>1, <1>3, DbTyped, WebTyped DEF TypeOK

-----------------------------------------------------------------------------
(* Type correctness.                                                       *)

LEMMA InitTyped == Init => TInv
<1> SUFFICES ASSUME Init PROVE TInv
  OBVIOUS
<1>1. StoresOK /\ BrowserOK /\ ProcessOK
  BY DEF Init, StoresOK, BrowserOK, ProcessOK
<1>2. WorkersOK
  BY DEF Init, WorkersOK, WorkerPcs, Fresh, NoLate, Locals, Statuses, Content
<1>3. abort \in [Aborts -> AbortData] /\ \A a \in Aborts : abort[a].pc = "idle"
  <2>1. \A d \in {[pc |-> "idle", req |-> r, view |-> NoRow] : r \in Requests} :
          d \in AbortData /\ d.pc = "idle"
    BY DEF AbortData, Idle
  <2>2. abort \in [Aborts -> {[pc |-> "idle", req |-> r, view |-> NoRow] :
                              r \in Requests}]
    BY DEF Init
  <2> QED BY <2>1, <2>2
<1>4. HandlersOK
  BY <1>3 DEF Init, HandlersOK, PostPcs, Idle
<1>5. HeldOK
  BY <1>3 DEF Init, HeldOK
<1> QED BY <1>1, <1>2, <1>4, <1>5 DEF TInv, TypeOK

LEMMA NextTyped == TInv /\ [Next]_vars => TInv'
<1> SUFFICES ASSUME TInv, [Next]_vars PROVE TInv'
  OBVIOUS
<1>1. CASE UNCHANGED vars
  BY <1>1 DEF vars, TInv, TypeOK, HeldOK, StoresOK, WorkersOK, HandlersOK,
              BrowserOK, ProcessOK
<1>2. ASSUME NEW r \in Requests, Worker(r) \/ LateSave(r) PROVE TInv'
  BY <1>2, WorkerTyped, LateSaveTyped
<1>3. ASSUME NEW p \in Posts, PostArrive(p) \/ Handler(p) \/ PostFails(p)
                              \/ ReaderFails(p) \/ Drop(p)
      PROVE  TInv'
  BY <1>3, PostTyped, CreateTyped, ReadTyped DEF Handler
<1>4. ASSUME NEW a \in Aborts, AbortArrive(a) \/ AbortLook(a) \/ AbortWrite(a)
      PROVE  TInv'
  BY <1>4, AbortTyped
<1> QED BY <1>1, <1>2, <1>3, <1>4, DeleteTyped, CrashTyped, ShutdownTyped DEF Next

LEMMA TypedAlways == Spec => []TInv
<1> QED BY InitTyped, NextTyped, PTL DEF Spec

\* Every variable keeps its type: no handler, worker or abort ever writes a row
\* it has not fetched, reads a position its stream cannot have or leaves a
\* status the schema does not know, whatever overlaps, fails or crashes.
THEOREM TypeCorrect == Spec => []TypeOK
<1>1. TInv => TypeOK
  BY DEF TInv
<1> QED BY <1>1, TypedAlways, PTL

-----------------------------------------------------------------------------
(* At most one call of the model.                                          *)
(*                                                                         *)
(* AtMostOneCall is not inductive: it rests on the worker being scheduled  *)
(* at most once, which rests on at most one handler ever reaching "spawn", *)
(* which rests on the unique assistant row.                                *)

\* A worker that has not yet published "start" has not called the runtime.
CalledOnce ==
  \A r \in Requests :
    /\ calls[r] <= 1
    /\ task[r] \in {"none", "scheduled", "start"} => calls[r] = 0

\* No worker, and no handler about to start one, comes before the row.
RowFirst ==
  /\ \A r \in Requests : row[r] = NoRow /\ conv = "live" => task[r] = "none"
  /\ \A p \in Posts : post[p] = "spawn"
       => task[Req(p)] = "none" /\ (row[Req(p)] # NoRow \/ conv = "deleted")

\* The handler that inserted the row is the only one that starts the worker.
OneSpawner ==
  \A p, q \in Posts :
    post[p] = "spawn" /\ post[q] = "spawn" /\ Req(p) = Req(q) => p = q

OwnerOK == CalledOnce /\ RowFirst /\ OneSpawner

\* No row appears or disappears.
SameRows == \A r \in Requests : row'[r] = NoRow <=> row[r] = NoRow

LEMMA SameRowsUnchanged == ASSUME UNCHANGED row PROVE SameRows
BY DEF SameRows

LEMMA OverwriteSameRows ==
  ASSUME TypeOK, NEW r \in Requests, NEW d \in RowData, row[r] # NoRow,
         Overwrite(r, d)
  PROVE  SameRows
BY NoRowNotData DEF TypeOK, StoresOK, Overwrite, SameRows

\* A worker that goes on from one await to the next.
LEMMA WorkerGoesOn ==
  ASSUME TInv, OwnerOK, NEW r \in Requests, Running(r),
         NEW pc \in WorkerPcs \ {"none", "scheduled"}, Goto(r, pc),
         pc = "start" => task[r] = "scheduled",
         UNCHANGED <<conv, calls, post>>, SameRows
  PROVE  OwnerOK'
<1> USE DEF TInv, TypeOK, WorkersOK, OwnerOK, Goto
<1>r. task[r] # "none"
  BY DEF Running, Live
<1>1. CalledOnce'
  BY DEF CalledOnce
<1>2. RowFirst'
  BY <1>r, ReqType DEF RowFirst, SameRows
<1>3. OneSpawner'
  BY DEF OneSpawner
<1> QED BY <1>1, <1>2, <1>3

\* A handler that does not come to "spawn".
LEMMA HandlerGoesOn ==
  ASSUME TInv, OwnerOK, UNCHANGED <<conv, task, calls>>, SameRows,
         \A p \in Posts : post'[p] = "spawn" => post[p] = "spawn"
  PROVE  OwnerOK'
<1> USE DEF OwnerOK
<1>1. CalledOnce'
  BY DEF CalledOnce
<1>2. RowFirst'
  BY ReqType DEF RowFirst, SameRows
<1>3. OneSpawner'
  BY DEF OneSpawner
<1> QED BY <1>1, <1>2, <1>3

LEMMA WorkerOwns ==
  ASSUME TInv, OwnerOK, NEW r \in Requests, Worker(r)
  PROVE  OwnerOK'
<1>t. TypeOK
  BY DEF TInv
<1>p. notWorker' = notWorker => post' = post
  BY DEF notWorker, httpVars
<1>d. dbVars' = dbVars => UNCHANGED <<conv, row>>
  BY DEF dbVars
<1>1. CASE Begin(r)
  <2>1. Goto(r, "start") /\ task[r] = "scheduled" /\ UNCHANGED <<conv, calls, post, row>>
    BY <1>1, <1>p, <1>d DEF Begin
  <2>2. Running(r) /\ "start" \in WorkerPcs \ {"none", "scheduled"}
    BY <2>1 DEF Running, Live, WorkerPcs
  <2> QED BY <2>1, <2>2, SameRowsUnchanged, WorkerGoesOn
<1>2. CASE Published(r)
  <2>1. /\ UNCHANGED <<conv, row, post>>
        /\ calls' = [calls EXCEPT ![r] = IF task[r] = "start" THEN @ + 1 ELSE @]
        /\ task' = [task EXCEPT ![r] = AfterPublish[task[r]]]
    BY <1>2, <1>p, <1>d DEF Published, Goto
  <2>2. /\ task[r] \in {"start", "emit", "rterr", "exc", "abt", "last"}
        /\ AfterPublish[task[r]] \in {"loop", "save", "ended"}
    BY <1>2 DEF Published, AfterPublish
  <2> USE DEF TInv, TypeOK, WorkersOK, OwnerOK
  <2>3. CalledOnce'
    BY <2>1, <2>2 DEF CalledOnce
  <2>4. RowFirst'
    BY <2>1, <2>2, ReqType DEF RowFirst
  <2>5. OneSpawner'
    BY <2>1 DEF OneSpawner
  <2> QED BY <2>3, <2>4, <2>5
<1>3. CASE PublishFails(r)
  <2>1. Goto(r, AfterFailure[task[r]]) /\ UNCHANGED <<conv, calls, post, row>>
    BY <1>3, <1>p, <1>d DEF PublishFails
  <2>2. Running(r) /\ AfterFailure[task[r]] \in WorkerPcs \ {"none", "scheduled", "start"}
    BY <1>3 DEF PublishFails, AfterFailure, Running, Live, WorkerPcs
  <2> QED BY <2>1, <2>2, SameRowsUnchanged, WorkerGoesOn
<1>4. CASE RuntimeYields(r) \/ RuntimeFails(r) \/ RuntimeEnds(r)
  <2>1. PICK pc \in {"emit", "rterr", "exc", "save"} : Goto(r, pc)
    BY <1>4 DEF RuntimeYields, RuntimeFails, RuntimeEnds
  <2>2. task[r] = "loop" /\ UNCHANGED <<conv, calls, post, row>>
    BY <1>4, <1>p, <1>d DEF RuntimeYields, RuntimeFails, RuntimeEnds
  <2>3. Running(r) /\ pc \in WorkerPcs \ {"none", "scheduled", "start"}
    BY <2>2 DEF Running, Live, WorkerPcs
  <2> QED BY <2>1, <2>2, <2>3, SameRowsUnchanged, WorkerGoesOn
<1>7. CASE Save(r)
  <2>1. Goto(r, AfterSave(r)) /\ task[r] = "save" /\ UNCHANGED <<conv, calls, post>>
    BY <1>7, <1>p DEF Save
  <2>2. Running(r) /\ AfterSave(r) \in WorkerPcs \ {"none", "scheduled", "start"}
    BY <2>1 DEF AfterSave, Running, Live, WorkerPcs
  <2>3. SameRows
    <3>1. RowOf(mem[r]) \in RowData
      BY <1>t, LocalsType DEF TypeOK, WorkersOK, Content
    <3> QED BY <1>7, <1>t, <3>1, SameRowsUnchanged, OverwriteSameRows DEF Save
  <2> QED BY <2>1, <2>2, <2>3, WorkerGoesOn
<1>8. CASE Interrupt(r)
  <2>1. Goto(r, AfterCancel[task[r]]) /\ Running(r) /\ UNCHANGED <<conv, calls, post, row>>
    BY <1>8, <1>p, <1>d DEF Interrupt
  <2>2. AfterCancel[task[r]] \in WorkerPcs \ {"none", "scheduled", "start"}
    BY <2>1 DEF AfterCancel, Running, Live, WorkerPcs
  <2> QED BY <2>1, <2>2, SameRowsUnchanged, WorkerGoesOn
<1> QED BY <1>1, <1>2, <1>3, <1>4, <1>7, <1>8 DEF Worker

\* The row of a request is inserted only while there is none: until then there
\* was no worker, and no other handler about to start one.
LEMMA InsertOwns ==
  ASSUME TInv, OwnerOK, NEW p \in Posts, NEW pc \in {"spawn", "failed"},
         InsertAssistant(Req(p)), Step(p, pc),
         conv = "live", RequestIdFree(Req(p)), UNCHANGED <<conv, task, calls>>
  PROVE  OwnerOK'
<1> USE DEF OwnerOK, TInv, TypeOK
<1>r. Req(p) \in Requests
  BY ReqType
<1>1. /\ row' = [row EXCEPT ![Req(p)] = NewRow] /\ NewRow # NoRow
      /\ row[Req(p)] = NoRow
  BY NewRowData, NoRowNotData DEF InsertAssistant, RequestIdFree
<1>2. post' = [post EXCEPT ![p] = pc]
  BY DEF Step
<1>3. task[Req(p)] = "none"
  BY <1>1, <1>r DEF RowFirst
<1>4. CalledOnce'
  BY DEF CalledOnce
<1>5. RowFirst'
  BY <1>1, <1>2, <1>3, ReqType DEF RowFirst, StoresOK, HandlersOK
<1>6. OneSpawner'
  <2>1. \A q \in Posts : post[q] = "spawn" => Req(q) # Req(p)
    BY <1>1 DEF RowFirst
  <2> QED BY <1>2, <2>1 DEF OneSpawner, HandlersOK
<1> QED BY <1>4, <1>5, <1>6

LEMMA SpawnOwns ==
  ASSUME TInv, OwnerOK, NEW p \in Posts, PostSpawn(p)
  PROVE  OwnerOK'
<1> USE DEF OwnerOK, TInv, TypeOK
<1>r. Req(p) \in Requests
  BY ReqType
<1>1. /\ post[p] = "spawn" /\ post' = [post EXCEPT ![p] = "open"]
      /\ UNCHANGED <<conv, row, calls>>
  BY DEF PostSpawn, Step, dbVars
<1>2. task[Req(p)] = "none" /\ (row[Req(p)] # NoRow \/ conv = "deleted")
  BY <1>1 DEF RowFirst
<1>3. task' = [task EXCEPT ![Req(p)] = "scheduled"]
  BY <1>2 DEF PostSpawn, Running, Live, Goto
<1>4. CalledOnce'
  BY <1>1, <1>2, <1>3, <1>r DEF CalledOnce, WorkersOK
<1>5. RowFirst'
  <2>1. \A q \in Posts : q # p /\ post[q] = "spawn" => Req(q) # Req(p)
    BY <1>1 DEF OneSpawner
  <2> QED BY <1>1, <1>2, <1>3, <1>r, <2>1, ReqType
          DEF RowFirst, WorkersOK, HandlersOK
<1>6. OneSpawner'
  BY <1>1 DEF OneSpawner, HandlersOK
<1> QED BY <1>4, <1>5, <1>6

LEMMA HandlerOwns ==
  ASSUME TInv, OwnerOK, NEW p \in Posts,
         PostArrive(p) \/ Handler(p) \/ PostFails(p) \/ ReaderFails(p) \/ Drop(p)
  PROVE  OwnerOK'
<1>t. TypeOK
  BY DEF TInv
<1>h. notHttp' = notHttp => UNCHANGED <<task, calls>>
  BY DEF notHttp, workVars
<1>d. dbVars' = dbVars => UNCHANGED <<conv, row>>
  BY DEF dbVars
<1>s. \A pc \in PostPcs : Step(p, pc) /\ pc # "spawn"
        => \A q \in Posts : post'[q] = "spawn" => post[q] = "spawn"
  BY <1>t DEF Step, TypeOK, HandlersOK
<1>1. CASE PostArrive(p) \/ PostLookup(p) \/ PostDecide(p) \/ ReadInitial(p)
             \/ ReaderCheck(p) \/ ReaderDeliver(p) \/ ReaderLeaves(p)
             \/ ReaderFails(p)
  <2>1. PICK pc \in PostPcs \ {"spawn"} : Step(p, pc)
    BY <1>1 DEF PostArrive, PostLookup, PostDecide, ReadInitial, ReaderCheck,
                ReaderDeliver, ReaderLeaves, ReaderFails, PostPcs, Idle
  <2>2. UNCHANGED <<conv, row, task, calls>>
    BY <1>1, <1>h, <1>d DEF PostArrive, PostLookup, PostDecide, ReadInitial,
          ReaderCheck, ReaderDeliver, ReaderLeaves, ReaderFails
  <2> QED BY <1>s, <2>1, <2>2, SameRowsUnchanged, HandlerGoesOn
<1>2. CASE Drop(p)
  <2>1. UNCHANGED <<conv, row, task, calls, post>>
    BY <1>2, <1>h, <1>d DEF Drop
  <2> QED BY <2>1, SameRowsUnchanged, HandlerGoesOn
<1>3. CASE PostUser(p)
  <2>1. PICK pc \in PostPcs \ {"spawn"} : Step(p, pc)
    BY <1>3 DEF PostUser, PostPcs, Idle
  <2>2. UNCHANGED <<conv, row, task, calls>>
    BY <1>3, <1>h DEF PostUser
  <2> QED BY <1>s, <2>1, <2>2, SameRowsUnchanged, HandlerGoesOn
<1>4. CASE PostAssistant(p) \/ PostFails(p)
  <2>1. UNCHANGED <<conv, task, calls>>
    BY <1>4, <1>h DEF PostAssistant, PostFails
  <2>f. PostFails(p) => Step(p, "failed")
    BY DEF PostFails
  <2>2. CASE /\ \E pc \in {"spawn", "failed"} : Step(p, pc)
             /\ InsertAssistant(Req(p)) /\ conv = "live" /\ RequestIdFree(Req(p))
    BY <2>1, <2>2, InsertOwns
  <2>3. CASE SameRows /\ Step(p, "failed")
    <3>1. "failed" \in PostPcs \ {"spawn"}
      BY DEF PostPcs, Idle
    <3> QED BY <1>s, <2>1, <2>3, <3>1, HandlerGoesOn
  <2>4. CASE PostAssistant(p)
    BY <2>2, <2>3, <2>4, SameRowsUnchanged DEF PostAssistant
  <2>5. CASE PostFails(p)
    <3>1. CASE UNCHANGED row
      BY <2>3, <2>5, <2>f, <3>1, SameRowsUnchanged
    <3>2. CASE InsertAssistant(Req(p)) /\ conv = "live" /\ RequestIdFree(Req(p))
      BY <2>2, <2>5, <2>f, <3>2
    <3>3. CASE \E d \in RowData : row[Req(p)] # NoRow /\ Overwrite(Req(p), d)
      BY <1>t, <2>3, <2>5, <2>f, <3>3, ReqType, OverwriteSameRows
    <3> QED BY <2>5, <3>1, <3>2, <3>3, FailedCommit
  <2> QED BY <1>4, <2>4, <2>5
<1>5. CASE PostSpawn(p)
  BY <1>5, SpawnOwns
<1>6. CASE PostRepair(p)
  <2>1. PICK pc \in PostPcs \ {"spawn"} : Step(p, pc)
    BY <1>6 DEF PostRepair, PostPcs, Idle
  <2>2. UNCHANGED <<conv, task, calls>>
    BY <1>6, <1>h DEF PostRepair
  <2>3. SameRows
    <3> DEFINE fixed == [view[p] EXCEPT !.status = "error"]
    <3>1. fixed \in RowData
      BY <1>6 DEF PostRepair, TInv, HeldOK, RowData, Statuses
    <3>2. UNCHANGED row \/ (row[Req(p)] # NoRow /\ Overwrite(Req(p), fixed))
      BY <1>6 DEF PostRepair
    <3> HIDE DEF fixed
    <3> QED BY <1>t, <3>1, <3>2, ReqType, SameRowsUnchanged, OverwriteSameRows
  <2> QED BY <1>s, <2>1, <2>2, <2>3, HandlerGoesOn
<1> QED BY <1>1, <1>2, <1>3, <1>4, <1>5, <1>6 DEF Handler

LEMMA LateSaveOwns ==
  ASSUME TInv, OwnerOK, NEW r \in Requests, LateSave(r)
  PROVE  OwnerOK'
<1>1. UNCHANGED <<conv, task, calls, post>>
  BY DEF LateSave, notWorker, httpVars
<1>2. SameRows
  <2>1. late[r] \in RowData
    BY DEF LateSave, NoLate, TInv, TypeOK, WorkersOK
  <2> QED BY <2>1, SameRowsUnchanged, OverwriteSameRows DEF LateSave, TInv
<1> QED BY <1>1, <1>2, HandlerGoesOn

LEMMA AbortOwns ==
  ASSUME TInv, OwnerOK, NEW a \in Aborts,
         AbortArrive(a) \/ AbortLook(a) \/ AbortWrite(a)
  PROVE  OwnerOK'
<1>1. UNCHANGED <<conv, task, calls, post>>
  BY DEF AbortArrive, AbortLook, AbortWrite, dbVars, workVars, httpVars
<1>2. SameRows
  <2>1. CASE UNCHANGED row
    BY <2>1, SameRowsUnchanged
  <2>2. CASE AbortWrite(a) /\ row' # row
    <3> DEFINE d == [abort[a].view EXCEPT !.status = "aborted"]
    <3>1. d \in RowData
      BY <2>2 DEF AbortWrite, TInv, HeldOK, RowData, Statuses
    <3>2. row[abort[a].req] # NoRow /\ Overwrite(abort[a].req, d)
      BY <2>2 DEF AbortWrite
    <3>3. abort[a].req \in Requests
      BY DEF TInv, TypeOK, HandlersOK, AbortData
    <3> HIDE DEF d
    <3> QED BY <2>2, <3>1, <3>2, <3>3, OverwriteSameRows DEF TInv
  <2> QED BY <2>1, <2>2 DEF AbortArrive, AbortLook, AbortWrite, dbVars
<1> QED BY <1>1, <1>2, HandlerGoesOn

LEMMA NextOwns == TInv /\ OwnerOK /\ [Next]_vars => OwnerOK'
<1> SUFFICES ASSUME TInv, OwnerOK, [Next]_vars PROVE OwnerOK'
  OBVIOUS
<1>1. CASE UNCHANGED vars
  BY <1>1, SameRowsUnchanged, HandlerGoesOn DEF vars
<1>2. CASE Delete
  <2>1. /\ UNCHANGED <<task, calls, post>>
        /\ conv' = "deleted"
    BY <1>2 DEF Delete, notWorker, httpVars, workVars
  <2> QED BY <2>1 DEF OwnerOK, CalledOnce, RowFirst, OneSpawner
<1>3. CASE Crash
  <2>1. /\ UNCHANGED <<conv, row, calls>>
        /\ task' = [r \in Requests |-> IF Running(r) THEN "ended" ELSE task[r]]
        /\ \A p \in Posts : post'[p] \in Idle
    BY <1>3 DEF Crash, dbVars, Idle
  <2> QED BY <2>1 DEF OwnerOK, CalledOnce, RowFirst, OneSpawner, Idle, Running, Live
<1>4. CASE Shutdown
  <2>1. UNCHANGED <<conv, row, task, calls, post>>
    BY <1>4 DEF Shutdown, dbVars, httpVars
  <2> QED BY <2>1, SameRowsUnchanged, HandlerGoesOn
<1> QED BY <1>1, <1>2, <1>3, <1>4, WorkerOwns, LateSaveOwns, HandlerOwns, AbortOwns
        DEF Next

LEMMA InitOwns == Init => OwnerOK
BY DEF Init, OwnerOK, CalledOnce, RowFirst, OneSpawner

\* However often the browser repeats a request, however its handlers overlap,
\* and whatever fails, is deleted or crashes between two of their steps, the
\* runtime is entered at most once for it.
THEOREM SingleCall == Spec => []AtMostOneCall
<1>1. OwnerOK => AtMostOneCall
  BY DEF OwnerOK, CalledOnce, AtMostOneCall
<1>2. Spec => []OwnerOK
  BY InitOwns, NextOwns, TypedAlways, PTL DEF Spec
<1> QED BY <1>1, <1>2, PTL

-----------------------------------------------------------------------------
(* The log of a turn.                                                      *)

\* Where a worker has said nothing yet, where it has said nothing final, and
\* where it has asked the model.
Silent  == {"none", "scheduled", "start"}
Talking == {"loop", "emit"}
Working == Live \ {"scheduled", "start"}

\* The steps of a turn, seen from its log: nothing is said, or one event.
Says(r, e) ==
  /\ stream' = [stream EXCEPT ![r] = Append(@, e)]
  /\ UNCHANGED <<conv, row, clobbered>>

SaysStart(r) ==
  /\ task[r] = "start" /\ Says(r, "start")
  /\ \E pc \in {"loop", "ended"} :
       /\ Goto(r, pc)
       /\ calls' = [calls EXCEPT ![r] = IF pc = "loop" THEN @ + 1 ELSE @]

SaysContent(r) ==
  /\ task[r] = "emit" /\ UNCHANGED calls
  /\ \E e \in Content : Says(r, e)
  /\ \E pc \in {"loop", "exc", "abt"} : Goto(r, pc)

SaysTerminal(r) ==
  /\ task[r] \in {"rterr", "exc", "abt", "last"} /\ UNCHANGED calls
  /\ \E e \in Terminal :
       /\ Says(r, e)
       /\ e = "done" <=> task[r] = "last" /\ mem[r].status = "completed"
  /\ \E pc \in {"exc", "abt", "save", "ended"} :
       Goto(r, pc) /\ (task[r] = "last" => pc = "ended")

\* How a worker gets on without saying anything.
Quiet ==
  /\ UNCHANGED <<stream, calls>>
  /\ \A r \in Requests :
       /\ task'[r] \in Silent => task[r] \in Silent
       /\ task'[r] \in Talking => task[r] \in Talking
       /\ task'[r] \in Working => task[r] \in Working
       /\ task[r] \in {"last", "ended"} => task'[r] \in {"last", "ended"}

LEMMA QuietMove ==
  ASSUME TInv, NEW r \in Requests, NEW pc \in WorkerPcs, Goto(r, pc),
         UNCHANGED <<stream, calls>>,
         pc \in Silent => task[r] \in Silent,
         pc \in Talking => task[r] \in Talking,
         pc \in Working => task[r] \in Working,
         task[r] \in {"last", "ended"} => pc \in {"last", "ended"}
  PROVE  Quiet
BY DEF Quiet, Goto, TInv, TypeOK, WorkersOK

LEMMA QuietStill ==
  ASSUME UNCHANGED <<stream, calls, task>> PROVE Quiet
BY DEF Quiet

LEMMA WorkerSays ==
  ASSUME TInv, NEW r \in Requests, Worker(r)
  PROVE  Quiet \/ SaysStart(r) \/ SaysContent(r) \/ SaysTerminal(r)
<1>t. /\ mem[r] \in Locals /\ task \in [Requests -> WorkerPcs]
      /\ task[r] \in WorkerPcs /\ mem[r].ev \in Content
  BY DEF TInv, TypeOK, WorkersOK, Locals
<1>f. /\ task[r] = "start" => InFlight(r) = "start"
      /\ task[r] = "emit" => InFlight(r) \in Content
      /\ task[r] \in {"rterr", "exc", "abt", "last"} =>
           /\ InFlight(r) \in Terminal
           /\ InFlight(r) = "done" <=> task[r] = "last" /\ mem[r].status = "completed"
  BY <1>t DEF InFlight, Terminal
<1>d. dbVars' = dbVars => UNCHANGED <<conv, row, clobbered>>
  BY DEF dbVars
<1>w. Silent \subseteq WorkerPcs /\ Talking \subseteq WorkerPcs /\ Working \subseteq WorkerPcs
  BY DEF Silent, Talking, Working, WorkerPcs, Live
<1>1. CASE Begin(r)
  <2>1. Goto(r, "start") /\ task[r] = "scheduled" /\ UNCHANGED <<stream, calls>>
    BY <1>1 DEF Begin
  <2> QED BY <2>1, QuietMove DEF Silent, Talking, Working, Live, WorkerPcs
<1>2. CASE Published(r)
  <2>1. Publish(r, InFlight(r)) /\ Goto(r, AfterPublish[task[r]])
        /\ calls' = [calls EXCEPT ![r] = IF task[r] = "start" THEN @ + 1 ELSE @]
        /\ task[r] \in {"start", "emit", "rterr", "exc", "abt", "last"}
        /\ UNCHANGED <<conv, row, clobbered>>
    BY <1>2, <1>d DEF Published, AfterPublish
  <2>2. Says(r, InFlight(r)) BY <2>1 DEF Says, Publish
  <2>3. task[r] # "start" => UNCHANGED calls
    BY <2>1 DEF TInv, TypeOK, WorkersOK
  <2>4. CASE task[r] = "start"
    <3>1. AfterPublish[task[r]] = "loop" BY <2>4 DEF AfterPublish
    <3> QED BY <1>f, <2>1, <2>2, <2>4, <3>1 DEF SaysStart
  <2>5. CASE task[r] = "emit"
    <3>1. AfterPublish[task[r]] = "loop" BY <2>5 DEF AfterPublish
    <3> QED BY <1>f, <2>1, <2>2, <2>3, <2>5, <3>1 DEF SaysContent
  <2>6. CASE task[r] \in {"rterr", "exc", "abt", "last"}
    <3>1. /\ AfterPublish[task[r]] \in {"save", "ended"}
          /\ task[r] = "last" => AfterPublish[task[r]] = "ended"
      BY <2>6 DEF AfterPublish
    <3> QED BY <1>f, <2>1, <2>2, <2>3, <2>6, <3>1 DEF SaysTerminal
  <2> QED BY <2>1, <2>4, <2>5, <2>6
<1>3. CASE PublishFails(r)
  <2>1. MaybePublish(r, InFlight(r)) /\ Goto(r, AfterFailure[task[r]])
        /\ UNCHANGED <<calls, conv, row, clobbered>>
        /\ task[r] \in {"start", "emit", "rterr", "exc", "abt", "last"}
    BY <1>3, <1>d DEF PublishFails, AfterFailure
  <2>2. CASE UNCHANGED stream
    <3>1. /\ AfterFailure[task[r]] \in {"ended", "exc", "save"}
          /\ task[r] = "last" => AfterFailure[task[r]] = "ended"
          /\ task[r] = "start" => AfterFailure[task[r]] = "ended"
      BY <2>1 DEF AfterFailure
    <3> QED BY <2>1, <2>2, <3>1, QuietMove DEF Silent, Talking, Working, Live, WorkerPcs
  <2>3. CASE Publish(r, InFlight(r))
    <3>1. Says(r, InFlight(r)) BY <2>1, <2>3 DEF Says, Publish
    <3>2. CASE task[r] = "start"
      <4>1. AfterFailure[task[r]] = "ended" BY <3>2 DEF AfterFailure
      <4>2. calls' = [calls EXCEPT ![r] = @]
        BY <2>1 DEF TInv, TypeOK, WorkersOK
      <4> QED BY <1>f, <2>1, <3>1, <3>2, <4>1, <4>2 DEF SaysStart
    <3>3. CASE task[r] = "emit"
      <4>1. AfterFailure[task[r]] = "exc" BY <3>3 DEF AfterFailure
      <4> QED BY <1>f, <2>1, <3>1, <3>3, <4>1 DEF SaysContent
    <3>4. CASE task[r] \in {"rterr", "exc", "abt", "last"}
      <4>1. /\ AfterFailure[task[r]] \in {"exc", "save", "ended"}
            /\ task[r] = "last" => AfterFailure[task[r]] = "ended"
        BY <3>4 DEF AfterFailure
      <4> QED BY <1>f, <2>1, <3>1, <3>4, <4>1 DEF SaysTerminal
    <3> QED BY <2>1, <3>2, <3>3, <3>4
  <2> QED BY <2>1, <2>2, <2>3 DEF MaybePublish
<1>4. CASE RuntimeYields(r) \/ RuntimeFails(r) \/ RuntimeEnds(r)
  <2>1. PICK pc \in {"emit", "rterr", "exc", "save"} : Goto(r, pc)
    BY <1>4 DEF RuntimeYields, RuntimeFails, RuntimeEnds
  <2>2. task[r] = "loop" /\ UNCHANGED <<stream, calls>>
    BY <1>4 DEF RuntimeYields, RuntimeFails, RuntimeEnds
  <2> QED BY <2>1, <2>2, QuietMove DEF Silent, Talking, Working, Live, WorkerPcs
<1>5. CASE Save(r)
  <2>1. PICK pc \in {"last", "ended"} : Goto(r, pc)
    BY <1>5 DEF Save, AfterSave
  <2>2. task[r] = "save" /\ UNCHANGED <<stream, calls>>
    BY <1>5 DEF Save
  <2> QED BY <2>1, <2>2, QuietMove DEF Silent, Talking, Working, Live, WorkerPcs
<1>6. CASE Interrupt(r)
  <2>1. /\ Goto(r, AfterCancel[task[r]]) /\ Running(r)
        /\ UNCHANGED <<calls, conv, row, clobbered>>
    BY <1>6, <1>d DEF Interrupt
  <2>2. /\ task[r] \in {"scheduled", "start"} => AfterCancel[task[r]] = "ended"
        /\ task[r] \in {"last", "save"} => AfterCancel[task[r]] = "ended"
        /\ task[r] \in {"loop", "emit", "rterr"} => AfterCancel[task[r]] = "abt"
        /\ task[r] \in {"exc", "abt"} => AfterCancel[task[r]] = "save"
        /\ task[r] \in Live
    BY <2>1 DEF AfterCancel, Running, Live
  <2>3. CASE UNCHANGED stream
    <3>1. AfterCancel[task[r]] \in WorkerPcs
      BY <2>2 DEF Live, WorkerPcs
    <3> QED BY <2>1, <2>2, <2>3, <3>1, QuietMove DEF Silent, Talking, Working, Live
  <2>4. CASE task[r] \notin {"scheduled", "loop", "save"} /\ Publish(r, InFlight(r))
    <3>1. Says(r, InFlight(r)) BY <2>1, <2>4 DEF Says, Publish
    <3>2. CASE task[r] = "start"
      <4>1. calls' = [calls EXCEPT ![r] = @]
        BY <2>1 DEF TInv, TypeOK, WorkersOK
      <4>2. Goto(r, "ended") BY <2>1, <2>2, <3>2
      <4> QED BY <1>f, <2>1, <3>1, <3>2, <4>1, <4>2 DEF SaysStart
    <3>3. CASE task[r] = "emit"
      BY <1>f, <2>1, <2>2, <3>1, <3>3 DEF SaysContent
    <3>4. CASE task[r] \in {"rterr", "exc", "abt", "last"}
      BY <1>f, <2>1, <2>2, <3>1, <3>4 DEF SaysTerminal
    <3> QED BY <2>2, <2>4, <3>2, <3>3, <3>4 DEF Live
  <2>5. CASE /\ task[r] \in {"scheduled", "loop", "save"}
             /\ UNCHANGED stream
    BY <2>3, <2>5
  <2>6. CASE task[r] \notin {"scheduled", "loop", "save"}
    <3>1. MaybePublish(r, InFlight(r)) BY <1>6, <2>6 DEF Interrupt
    <3> QED BY <2>3, <2>4, <2>6, <3>1 DEF MaybePublish
  <2> QED BY <1>6, <2>5, <2>6 DEF Interrupt
<1> QED BY <1>1, <1>2, <1>3, <1>4, <1>5, <1>6 DEF Worker

LEMMA NextSays ==
  ASSUME TInv, OwnerOK, [Next]_vars
  PROVE  Quiet \/ \E r \in Requests : SaysStart(r) \/ SaysContent(r) \/ SaysTerminal(r)
<1>1. CASE UNCHANGED vars BY <1>1, QuietStill DEF vars
<1>2. CASE \E r \in Requests : Worker(r) BY <1>2, WorkerSays
<1>3. CASE (\E r \in Requests : LateSave(r)) \/ Delete
  BY <1>3, QuietStill DEF LateSave, Delete, workVars
<1>4. CASE \E p \in Posts : PostSpawn(p)
  <2>1. PICK p \in Posts : PostSpawn(p) BY <1>4
  <2>2. /\ task[Req(p)] = "none" /\ Req(p) \in Requests
    BY <2>1, ReqType DEF PostSpawn, OwnerOK, RowFirst
  <2>3. Goto(Req(p), "scheduled") /\ UNCHANGED <<stream, calls>>
    BY <2>1, <2>2 DEF PostSpawn, Running, Live
  <2> QED BY <2>2, <2>3, QuietMove DEF Silent, Talking, Working, Live, WorkerPcs
<1>5. CASE \E p \in Posts : \/ PostArrive(p) \/ PostLookup(p) \/ PostDecide(p) \/ PostUser(p)
                            \/ PostAssistant(p) \/ PostRepair(p) \/ PostFails(p)
  BY <1>5, QuietStill
  DEF PostArrive, PostLookup, PostDecide, PostUser, PostAssistant, PostRepair, PostFails,
      notHttp, workVars
<1>6. CASE \E p \in Posts : \/ ReadInitial(p) \/ ReaderCheck(p) \/ ReaderDeliver(p)
                            \/ ReaderLeaves(p) \/ ReaderFails(p) \/ Drop(p)
  BY <1>6, QuietStill
  DEF ReadInitial, ReaderCheck, ReaderDeliver, ReaderLeaves, ReaderFails, Drop,
      notHttp, workVars
<1>7. CASE \E a \in Aborts : AbortArrive(a) \/ AbortLook(a) \/ AbortWrite(a)
  BY <1>7, QuietStill DEF AbortArrive, AbortLook, AbortWrite, workVars
<1>8. CASE Crash
  BY <1>8 DEF Crash, Quiet, Running, Live, Silent, Talking, Working
<1>9. CASE Shutdown
  BY <1>9, QuietStill DEF Shutdown
<1> QED BY <1>1, <1>2, <1>3, <1>4, <1>5, <1>6, <1>7, <1>8, <1>9 DEF Next, Handler

\* TerminalEndsLog is not inductive: a worker that may still publish content
\* has published nothing final, and one that has not begun has published
\* nothing.  One that is past its first event has asked the model.
LogOK ==
  /\ TerminalEndsLog
  /\ \A r \in Requests :
       /\ task[r] \in Silent => stream[r] = <<>>
       /\ task[r] \in Talking => ~Closed(r)
       /\ task[r] \in Working => calls[r] = 1 /\ stream[r] # <<>>

\* What the log is after one more event.
LEMMA SaysLog ==
  ASSUME TInv, NEW r \in Requests, NEW e \in Events, Says(r, e)
  PROVE  /\ \A s \in Requests : s # r => stream'[s] = stream[s]
         /\ Len(stream[r]) \in Nat /\ DOMAIN stream[r] = 1..Len(stream[r])
         /\ DOMAIN stream'[r] = 1..(Len(stream[r]) + 1)
         /\ \A i \in 1..Len(stream[r]) : stream'[r][i] = stream[r][i]
         /\ stream'[r][Len(stream[r]) + 1] = e
         /\ stream'[r] # <<>>
<1>1. stream \in [Requests -> Seq(Events)] BY DEF TInv, TypeOK, StoresOK
<1>2. stream[r] \in Seq(Events) /\ stream'[r] = Append(stream[r], e)
  BY <1>1 DEF Says
<1>3. \A s \in Requests : s # r => stream'[s] = stream[s]
  BY <1>1 DEF Says
<1>4. /\ Len(stream[r]) \in Nat /\ DOMAIN stream[r] = 1..Len(stream[r])
      /\ DOMAIN stream'[r] = 1..(Len(stream[r]) + 1)
      /\ \A i \in 1..Len(stream[r]) : stream'[r][i] = stream[r][i]
      /\ stream'[r][Len(stream[r]) + 1] = e
  BY <1>2
<1>5. stream'[r] # <<>>
  <2>1. Len(stream[r]) + 1 \in DOMAIN stream'[r] BY <1>4
  <2>2. DOMAIN <<>> = {} OBVIOUS
  <2> QED BY <2>1, <2>2
<1> QED BY <1>3, <1>4, <1>5

\* A log stays well formed with an event that is final, or the first final one.
LEMMA SaysInOrder ==
  ASSUME TInv, TerminalEndsLog, NEW r \in Requests, NEW e \in Events, Says(r, e),
         e \in Terminal \/ ~Closed(r)
  PROVE  TerminalEndsLog'
<1> SUFFICES ASSUME NEW s \in Requests, NEW i \in DOMAIN stream'[s],
                    NEW j \in DOMAIN stream'[s], i < j, stream'[s][i] \in Terminal
             PROVE  stream'[s][j] \in Terminal
  BY DEF TerminalEndsLog
<1>1. CASE s # r BY <1>1, SaysLog DEF TerminalEndsLog
<1>2. CASE s = r
  <2>1. i \in 1..Len(stream[r]) /\ stream'[r][i] = stream[r][i]
    BY <1>2, SaysLog
  <2>2. Closed(r) BY <1>2, <2>1, SaysLog DEF Closed
  <2>3. CASE j = Len(stream[r]) + 1 BY <1>2, <2>2, <2>3, SaysLog
  <2>4. CASE j \in 1..Len(stream[r])
    <3>1. stream[r][j] \in Terminal
      BY <1>2, <2>1, <2>4, SaysLog DEF TerminalEndsLog
    <3> QED BY <1>2, <2>4, <3>1, SaysLog
  <2> QED BY <1>2, <2>3, <2>4, SaysLog
<1> QED BY <1>1, <1>2

LEMMA NextLogs == TInv /\ OwnerOK /\ LogOK /\ [Next]_vars => LogOK'
<1> SUFFICES ASSUME TInv, OwnerOK, LogOK, [Next]_vars PROVE LogOK'
  OBVIOUS
<1>t. /\ task \in [Requests -> WorkerPcs] /\ calls \in [Requests -> Nat]
      /\ Content \subseteq Events /\ Terminal \subseteq Events /\ "start" \in Events
      /\ "start" \notin Terminal /\ Content \cap Terminal = {}
  BY DEF TInv, TypeOK, WorkersOK, Events, Content, Terminal
<1>1. CASE Quiet
  <2>1. TerminalEndsLog' BY <1>1 DEF LogOK, TerminalEndsLog, Quiet
  <2>2. \A r \in Requests : Closed(r)' <=> Closed(r) BY <1>1 DEF Quiet, Closed
  <2> QED BY <1>1, <2>1, <2>2 DEF LogOK, Quiet
<1>2. ASSUME NEW r \in Requests, NEW e \in Events, Says(r, e), NEW pc \in WorkerPcs \ Silent,
             Goto(r, pc), e \in Terminal \/ ~Closed(r),
             pc \in Talking => e \notin Terminal /\ ~Closed(r),
             pc \in Working => calls'[r] = 1,
             \A s \in Requests : s # r => calls'[s] = calls[s]
      PROVE  LogOK'
  <2>1. TerminalEndsLog' BY <1>2, SaysInOrder DEF LogOK
  <2>2. \A s \in Requests : s # r =>
          task'[s] = task[s] /\ stream'[s] = stream[s] /\ (Closed(s)' <=> Closed(s))
    BY <1>t, <1>2, SaysLog DEF Goto, Closed
  <2>3. task'[r] = pc BY <1>t, <1>2 DEF Goto
  <2>4. stream'[r] # <<>> BY <1>2, SaysLog
  <2>5. e \notin Terminal /\ ~Closed(r) => ~Closed(r)'
    <3> SUFFICES ASSUME e \notin Terminal, ~Closed(r), NEW i \in DOMAIN stream'[r]
                 PROVE  stream'[r][i] \notin Terminal
      BY DEF Closed
    <3>1. CASE i = Len(stream[r]) + 1 BY <1>2, <3>1, SaysLog
    <3>2. CASE i \in 1..Len(stream[r]) BY <1>2, <3>2, SaysLog DEF Closed
    <3> QED BY <1>2, <3>1, <3>2, SaysLog
  <2>6. \A s \in Requests : s # r =>
          /\ task'[s] \in Silent => stream'[s] = <<>>
          /\ task'[s] \in Talking => ~Closed(s)'
          /\ task'[s] \in Working => calls'[s] = 1 /\ stream'[s] # <<>>
    BY <1>2, <2>2 DEF LogOK
  <2>7. /\ task'[r] \notin Silent
        /\ task'[r] \in Talking => ~Closed(r)'
        /\ task'[r] \in Working => calls'[r] = 1 /\ stream'[r] # <<>>
    BY <1>2, <2>3, <2>4, <2>5
  <2> QED BY <2>1, <2>6, <2>7 DEF LogOK
<1>3. ASSUME NEW r \in Requests, SaysStart(r) PROVE LogOK'
  <2>1. PICK pc \in {"loop", "ended"} :
          /\ Goto(r, pc)
          /\ calls' = [calls EXCEPT ![r] = IF pc = "loop" THEN @ + 1 ELSE @]
    BY <1>3 DEF SaysStart
  <2>2. task[r] = "start" /\ calls[r] = 0 /\ Says(r, "start") /\ ~Closed(r)
    BY <1>3 DEF SaysStart, OwnerOK, CalledOnce, LogOK, Silent, Closed
  <2>3. pc \in WorkerPcs \ Silent /\ (pc \in Working => pc = "loop")
    BY DEF WorkerPcs, Live, Silent, Working
  <2>4. pc \in Working => calls'[r] = 1 BY <1>t, <2>1, <2>2, <2>3
  <2>5. \A s \in Requests : s # r => calls'[s] = calls[s] BY <1>t, <2>1
  <2> QED BY <1>2, <1>t, <2>1, <2>2, <2>3, <2>4, <2>5
<1>4. ASSUME NEW r \in Requests, SaysContent(r) PROVE LogOK'
  <2>1. PICK e \in Content : Says(r, e) BY <1>4 DEF SaysContent
  <2>2. PICK pc \in {"loop", "exc", "abt"} : Goto(r, pc) BY <1>4 DEF SaysContent
  <2>3. UNCHANGED calls /\ calls[r] = 1 /\ ~Closed(r)
    BY <1>4 DEF SaysContent, LogOK, Talking, Working, Live
  <2>4. pc \in WorkerPcs \ Silent BY DEF WorkerPcs, Live, Silent
  <2> QED BY <1>2, <1>t, <2>1, <2>2, <2>3, <2>4
<1>5. ASSUME NEW r \in Requests, SaysTerminal(r) PROVE LogOK'
  <2>1. PICK e \in Terminal : Says(r, e) BY <1>5 DEF SaysTerminal
  <2>2. PICK pc \in {"exc", "abt", "save", "ended"} : Goto(r, pc) BY <1>5 DEF SaysTerminal
  <2>3. UNCHANGED calls /\ calls[r] = 1
    BY <1>5 DEF SaysTerminal, LogOK, Working, Live
  <2>4. pc \in WorkerPcs \ Silent /\ pc \notin Talking
    BY DEF WorkerPcs, Live, Silent, Talking
  <2> QED BY <1>2, <1>t, <2>1, <2>2, <2>3, <2>4
<1> QED BY <1>1, <1>3, <1>4, <1>5, NextSays

LEMMA InitLogs == Init => LogOK
BY DEF Init, LogOK, TerminalEndsLog, Silent, Talking, Working, Live

LEMMA OwnedAlways == Spec => []OwnerOK
BY InitOwns, NextOwns, TypedAlways, PTL DEF Spec

LEMMA LoggedAlways == Spec => []LogOK
BY InitLogs, NextLogs, TypedAlways, OwnedAlways, PTL DEF Spec

\* Whatever fails, is cancelled, deleted or crashes, and however often its
\* request is repeated, a worker that has published "done", "error" or
\* "aborted" publishes nothing else any more.
THEOREM TerminalIsLast == Spec => []TerminalEndsLog
<1>1. LogOK => TerminalEndsLog BY DEF LogOK
<1> QED BY <1>1, LoggedAlways, PTL

-----------------------------------------------------------------------------
(* The saved row.                                                          *)

Settled == {d \in RowData : d.status # "streaming"}
Over == {"last", "ended"}

\* What a worker has saved is not touched again but by another handler, which
\* leaves a mark; "done" is said by a worker that is over, of a completed turn.
SavedOK ==
  \A r \in Requests :
    /\ mem[r].status # "streaming"
    /\ late[r] # NoLate => late[r] \in Settled
    /\ mem[r].saved => task[r] \in Over
    /\ (\E i \in DOMAIN stream[r] : stream[r][i] = "done") =>
         mem[r].status = "completed" /\ task[r] \in Over
    /\ mem[r].saved /\ row[r] # NoRow /\ r \notin clobbered =>
         row[r] = RowOf(mem[r])

\* The ways in which a row changes: it is inserted, it is closed, it goes.
SameTurns == UNCHANGED <<conv, row, clobbered>>
Inserts(r) ==
  /\ conv = "live" /\ row[r] = NoRow /\ row' = [row EXCEPT ![r] = NewRow]
  /\ UNCHANGED <<conv, clobbered, stream, calls>>
Closes(r) ==
  /\ row[r] # NoRow /\ UNCHANGED <<conv, stream, calls>>
  /\ \E d \in Settled : Overwrite(r, d)
Forgets ==
  /\ conv' = "deleted" /\ row' = [r \in Requests |-> NoRow]
  /\ UNCHANGED <<clobbered, stream, calls>>

LEMMA NextRows ==
  ASSUME TInv, SavedOK, [Next]_vars
  PROVE  SameTurns \/ Forgets \/ \E r \in Requests : Inserts(r) \/ Closes(r)
<1>d. dbVars' = dbVars => SameTurns BY DEF dbVars, SameTurns
<1>t. TypeOK BY DEF TInv
<1>1. CASE UNCHANGED vars \/ Crash \/ Shutdown
  BY <1>1, <1>d DEF vars, Crash, Shutdown, dbVars, SameTurns
<1>2. CASE Delete BY <1>2 DEF Delete, Forgets, workVars
<1>3. ASSUME NEW r \in Requests, Worker(r) PROVE SameTurns \/ Closes(r)
  <2>1. CASE Save(r)
    <3>1. RowOf(mem[r]) \in Settled
      <4>1. RowOf(mem[r]) \in RowData
        BY <1>t, LocalsType DEF TypeOK, WorkersOK, Content
      <4> QED BY <4>1 DEF SavedOK, Settled, RowOf
    <3> QED BY <2>1, <3>1 DEF Save, Closes, SameTurns
  <2>2. CASE ~Save(r)
    BY <1>3, <1>d, <2>2
    DEF Worker, Begin, Published, PublishFails, RuntimeYields, RuntimeFails, RuntimeEnds,
        Interrupt
  <2> QED BY <2>1, <2>2
<1>4. ASSUME NEW r \in Requests, LateSave(r) PROVE SameTurns \/ Closes(r)
  <2>1. late[r] \in Settled BY <1>4 DEF LateSave, SavedOK
  <2> QED BY <1>4, <2>1 DEF LateSave, Closes, SameTurns
<1>5. ASSUME NEW p \in Posts,
             PostArrive(p) \/ Handler(p) \/ PostFails(p) \/ ReaderFails(p) \/ Drop(p)
      PROVE  SameTurns \/ Inserts(Req(p)) \/ Closes(Req(p))
  <2>1. CASE PostRepair(p)
    <3> DEFINE fixed == [view[p] EXCEPT !.status = "error"]
    <3>1. fixed \in Settled
      BY <2>1 DEF PostRepair, TInv, HeldOK, RowData, Statuses, Settled
    <3>2. \/ SameTurns
          \/ row[Req(p)] # NoRow /\ Overwrite(Req(p), fixed)
      BY <2>1 DEF PostRepair, SameTurns
    <3>3. UNCHANGED <<conv, stream, calls>>
      BY <2>1 DEF PostRepair, notHttp, workVars
    <3> HIDE DEF fixed
    <3> QED BY <3>1, <3>2, <3>3 DEF Closes
  <2>2. CASE PostAssistant(p)
    <3>1. UNCHANGED <<conv, clobbered, stream, calls>>
      BY <2>2 DEF PostAssistant, notHttp, workVars
    <3>2. \/ UNCHANGED row
          \/ conv = "live" /\ RequestIdFree(Req(p)) /\ InsertAssistant(Req(p))
      BY <2>2 DEF PostAssistant
    <3> QED BY <3>1, <3>2 DEF Inserts, SameTurns, RequestIdFree, InsertAssistant
  <2>6. CASE PostFails(p)
    <3>1. UNCHANGED <<conv, stream, calls>>
      BY <2>6 DEF PostFails, notHttp, workVars
    <3>2. CASE UNCHANGED <<row, clobbered>>
      BY <3>1, <3>2 DEF SameTurns
    <3>3. CASE /\ InsertAssistant(Req(p)) /\ UNCHANGED clobbered
               /\ conv = "live" /\ RequestIdFree(Req(p))
      BY <3>1, <3>3 DEF Inserts, RequestIdFree, InsertAssistant
    <3>4. CASE \E d \in RowData : /\ d.status = "error" /\ row[Req(p)] # NoRow
                                  /\ Overwrite(Req(p), d)
      BY <3>1, <3>4 DEF Closes, Settled
    <3> QED BY <2>6, <3>2, <3>3, <3>4, FailedCommit
  <2>3. CASE PostUser(p)
    BY <2>3 DEF PostUser, SameTurns
  <2>4. CASE PostArrive(p) \/ PostLookup(p) \/ PostDecide(p) \/ PostSpawn(p)
    BY <2>4, <1>d DEF PostArrive, PostLookup, PostDecide, PostSpawn
  <2>5. CASE \/ ReadInitial(p) \/ ReaderCheck(p) \/ ReaderDeliver(p)
             \/ ReaderLeaves(p) \/ ReaderFails(p) \/ Drop(p)
    BY <2>5, <1>d DEF ReadInitial, ReaderCheck, ReaderDeliver, ReaderLeaves, ReaderFails, Drop
  <2> QED BY <1>5, <2>1, <2>2, <2>3, <2>4, <2>5, <2>6 DEF Handler
<1>6. ASSUME NEW a \in Aborts, AbortArrive(a) \/ AbortLook(a) \/ AbortWrite(a)
      PROVE  SameTurns \/ Closes(abort[a].req)
  <2>1. CASE AbortWrite(a)
    <3> DEFINE d == [abort[a].view EXCEPT !.status = "aborted"]
    <3>1. d \in Settled
      BY <2>1 DEF AbortWrite, TInv, HeldOK, RowData, Statuses, Settled
    <3>2. \/ UNCHANGED <<row, clobbered>>
          \/ row[abort[a].req] # NoRow /\ Overwrite(abort[a].req, d)
      BY <2>1 DEF AbortWrite
    <3>3. UNCHANGED <<conv, stream, calls>>
      BY <2>1 DEF AbortWrite, workVars
    <3> HIDE DEF d
    <3> QED BY <3>1, <3>2, <3>3 DEF Closes, SameTurns
  <2>2. CASE AbortArrive(a) \/ AbortLook(a)
    BY <2>2, <1>d DEF AbortArrive, AbortLook
  <2> QED BY <1>6, <2>1, <2>2
<1>7. \A a \in Aborts : abort[a].req \in Requests
  BY DEF TInv, TypeOK, HandlersOK, AbortData
<1> QED BY <1>1, <1>2, <1>3, <1>4, <1>5, <1>6, <1>7, ReqType DEF Next

\* What becomes of a worker's locals.
SameWord(s) == RowOf(mem'[s]) = RowOf(mem[s]) /\ mem'[s].saved = mem[s].saved
NewWord(s) ==
  /\ task[s] \in {"none", "loop", "emit", "rterr"}
  /\ mem'[s].status # "streaming" \/ mem'[s].status = mem[s].status
  /\ mem'[s].saved => mem[s].saved
Saves(s) ==
  /\ task[s] = "save" /\ task'[s] \in Over /\ RowOf(mem'[s]) = RowOf(mem[s])
  /\ row[s] # NoRow /\ Overwrite(s, RowOf(mem[s]))

LEMMA WorkerWord ==
  ASSUME TInv, NEW r \in Requests, Worker(r)
  PROVE  /\ SameWord(r) \/ NewWord(r) \/ Saves(r)
         /\ \A s \in Requests : s # r => SameWord(s)
         /\ late' = late \/ late' = [late EXCEPT ![r] = RowOf(mem[r])]
<1>t. /\ mem \in [Requests -> Locals] /\ mem[r] \in Locals /\ task[r] \in WorkerPcs
      /\ task \in [Requests -> WorkerPcs] /\ late \in [Requests -> RowData \cup {NoRow}]
  BY DEF TInv, TypeOK, WorkersOK
<1>s. UNCHANGED mem => \A s \in Requests : SameWord(s) BY DEF SameWord
<1>1. CASE Begin(r) \/ RuntimeEnds(r)
  BY <1>1, <1>s DEF Begin, RuntimeEnds
<1>2. CASE Published(r)
  <2>1. PICK b : mem' = [mem EXCEPT ![r].told = b] BY <1>2 DEF Published
  <2>2. \A s \in Requests : RowOf(mem'[s]) = RowOf(mem[s]) /\ mem'[s].saved = mem[s].saved
    BY <1>t, <2>1 DEF RowOf, Locals
  <2> QED BY <1>2, <2>2 DEF Published, SameWord
<1>3. CASE RuntimeYields(r)
  <2>1. PICK e \in Content : mem' = [mem EXCEPT ![r] = Accumulate(@, e)]
    BY <1>3 DEF RuntimeYields
  <2>2. mem'[r] = Accumulate(mem[r], e) /\ \A s \in Requests : s # r => mem'[s] = mem[s]
    BY <1>t, <2>1
  <2>3. /\ Accumulate(mem[r], e).status = mem[r].status
        /\ Accumulate(mem[r], e).saved = mem[r].saved
    BY <1>t DEF Accumulate, Locals
  <2> QED BY <1>3, <2>2, <2>3 DEF RuntimeYields, SameWord, NewWord
<1>4. CASE RuntimeFails(r) \/ PublishFails(r)
  <2>1. \/ UNCHANGED mem
        \/ task[r] \in {"loop", "emit", "rterr"} /\ mem' = [mem EXCEPT ![r] = Failed(mem[r])]
    BY <1>t, <1>4 DEF RuntimeFails, PublishFails
  <2>2. Failed(mem[r]).status = "error" /\ Failed(mem[r]).saved = mem[r].saved
    BY <1>t DEF Failed, Locals
  <2>3. CASE mem' = [mem EXCEPT ![r] = Failed(mem[r])] /\ task[r] \in {"loop", "emit", "rterr"}
    <3>1. mem'[r] = Failed(mem[r]) /\ \A s \in Requests : s # r => mem'[s] = mem[s]
      BY <1>t, <2>3
    <3> QED BY <1>4, <2>2, <2>3, <3>1 DEF NewWord, SameWord, RuntimeFails, PublishFails
  <2> QED BY <1>4, <1>s, <2>1, <2>3 DEF RuntimeFails, PublishFails
<1>5. CASE Save(r)
  <2>1. /\ task[r] = "save" /\ late' = late /\ task'[r] \in Over
    BY <1>t, <1>5 DEF Save, Goto, AfterSave, Over
  <2>2. CASE UNCHANGED mem BY <1>s, <2>1, <2>2
  <2>3. CASE mem' = [mem EXCEPT ![r].saved = TRUE] /\ row[r] # NoRow
             /\ Overwrite(r, RowOf(mem[r]))
    <3>1. RowOf(mem'[r]) = RowOf(mem[r]) /\ \A s \in Requests : s # r => mem'[s] = mem[s]
      BY <1>t, <2>3 DEF Locals, RowOf
    <3> QED BY <2>1, <2>3, <3>1 DEF Saves, SameWord
  <2> QED BY <1>5, <2>2, <2>3 DEF Save
<1>6. CASE Interrupt(r)
  <2>1. late' = late \/ late' = [late EXCEPT ![r] = RowOf(mem[r])]
    BY <1>t, <1>6 DEF Interrupt
  <2>2. \/ UNCHANGED mem
        \/ task[r] \in {"loop", "emit", "rterr"} /\ mem' = [mem EXCEPT ![r] = Aborted(mem[r])]
    <3>1. task[r] \in Live BY <1>6 DEF Interrupt, Running
    <3>2. AfterCancel[task[r]] = "abt" => task[r] \in {"loop", "emit", "rterr"}
      BY <3>1 DEF AfterCancel, Live
    <3>3. mem' = [mem EXCEPT ![r] = IF AfterCancel[task[r]] = "abt" THEN Aborted(mem[r])
                                    ELSE mem[r]]
      BY <1>6 DEF Interrupt
    <3>4. [mem EXCEPT ![r] = mem[r]] = mem BY <1>t
    <3> QED BY <3>2, <3>3, <3>4
  <2>3. Aborted(mem[r]).status = "aborted" /\ Aborted(mem[r]).saved = mem[r].saved
    BY <1>t DEF Aborted, Locals
  <2>4. CASE mem' = [mem EXCEPT ![r] = Aborted(mem[r])] /\ task[r] \in {"loop", "emit", "rterr"}
    <3>1. mem'[r] = Aborted(mem[r]) /\ \A s \in Requests : s # r => mem'[s] = mem[s]
      BY <1>t, <2>4
    <3> QED BY <2>1, <2>3, <2>4, <3>1 DEF NewWord, SameWord
  <2> QED BY <1>s, <2>1, <2>2, <2>4
<1> QED BY <1>1, <1>2, <1>3, <1>4, <1>5, <1>6, <1>t DEF Worker, Begin, RuntimeEnds

LEMMA NextWord ==
  ASSUME TInv, OwnerOK, [Next]_vars
  PROVE  \A s \in Requests :
           /\ SameWord(s) \/ NewWord(s) \/ Saves(s)
           /\ late'[s] = late[s] \/ late'[s] = NoLate \/ late'[s] = RowOf(mem[s])
<1>t. mem \in [Requests -> Locals] /\ late \in [Requests -> RowData \cup {NoRow}]
  BY DEF TInv, TypeOK, WorkersOK
<1>s. UNCHANGED mem => \A s \in Requests : SameWord(s) BY DEF SameWord
<1>w. workVars' = workVars => UNCHANGED <<mem, late>> BY DEF workVars
<1>h. notHttp' = notHttp => UNCHANGED <<mem, late>> BY DEF notHttp, workVars
<1>1. CASE UNCHANGED vars BY <1>1, <1>s DEF vars
<1>2. ASSUME NEW r \in Requests, Worker(r)
      PROVE  \A s \in Requests :
           /\ SameWord(s) \/ NewWord(s) \/ Saves(s)
           /\ late'[s] = late[s] \/ late'[s] = NoLate \/ late'[s] = RowOf(mem[s])
  BY <1>2, <1>t, WorkerWord
<1>3. CASE \E r \in Requests : LateSave(r)
  BY <1>3, <1>s, <1>t DEF LateSave
<1>4. CASE Delete \/ Crash \/ Shutdown
  BY <1>4, <1>s, <1>w DEF Delete, Crash, Shutdown
<1>5. CASE \E p \in Posts : PostSpawn(p)
  <2>1. PICK p \in Posts : PostSpawn(p) BY <1>5
  <2>2. task[Req(p)] = "none" /\ Req(p) \in Requests
    BY <2>1, ReqType DEF PostSpawn, OwnerOK, RowFirst
  <2>3. mem' = [mem EXCEPT ![Req(p)] = Fresh] /\ UNCHANGED late
    BY <2>1, <2>2 DEF PostSpawn, Running, Live
  <2>4. Fresh.status = "completed" /\ Fresh.saved = FALSE BY DEF Fresh
  <2> QED BY <1>t, <2>2, <2>3, <2>4 DEF SameWord, NewWord
<1>6. CASE \E p \in Posts : \/ PostArrive(p) \/ PostLookup(p) \/ PostDecide(p) \/ PostUser(p)
                            \/ PostAssistant(p) \/ PostRepair(p) \/ PostFails(p)
  BY <1>6, <1>s, <1>h
  DEF PostArrive, PostLookup, PostDecide, PostUser, PostAssistant, PostRepair, PostFails
<1>7. CASE \E p \in Posts : \/ ReadInitial(p) \/ ReaderCheck(p) \/ ReaderDeliver(p)
                            \/ ReaderLeaves(p) \/ ReaderFails(p) \/ Drop(p)
  BY <1>7, <1>s, <1>h
  DEF ReadInitial, ReaderCheck, ReaderDeliver, ReaderLeaves, ReaderFails, Drop
<1>8. CASE \E a \in Aborts : AbortArrive(a) \/ AbortLook(a) \/ AbortWrite(a)
  BY <1>8, <1>s, <1>w DEF AbortArrive, AbortLook, AbortWrite
<1> QED BY <1>1, <1>2, <1>3, <1>4, <1>5, <1>6, <1>7, <1>8 DEF Next, Handler

\* A worker that is over stays so, and what it may still say is its verdict.
LEMMA NextOver ==
  ASSUME TInv, OwnerOK, SavedOK, [Next]_vars, NEW s \in Requests
  PROVE  /\ task[s] \in Over => task'[s] \in Over
         /\ (\E i \in DOMAIN stream'[s] : stream'[s][i] = "done") =>
              mem[s].status = "completed" /\ task[s] \in Over
<1>t. task \in [Requests -> WorkerPcs] BY DEF TInv, TypeOK, WorkersOK
<1>0. /\ (\E i \in DOMAIN stream[s] : stream[s][i] = "done") =>
           mem[s].status = "completed" /\ task[s] \in Over
  BY DEF SavedOK
<1>1. CASE Quiet BY <1>0, <1>1 DEF Quiet, Over
<1>2. ASSUME NEW r \in Requests, SaysStart(r) \/ SaysContent(r) \/ SaysTerminal(r)
      PROVE  /\ task[s] \in Over => task'[s] \in Over
             /\ (\E i \in DOMAIN stream'[s] : stream'[s][i] = "done") =>
                  mem[s].status = "completed" /\ task[s] \in Over
  <2>1. PICK pc : Goto(r, pc) /\ (task[r] = "last" => pc = "ended") /\ task[r] # "ended"
    BY <1>2 DEF SaysStart, SaysContent, SaysTerminal
  <2>2. task[s] \in Over => task'[s] \in Over
    BY <1>t, <2>1 DEF Goto, Over
  <2>3. PICK e \in Events : /\ Says(r, e)
                            /\ e = "done" => task[r] = "last" /\ mem[r].status = "completed"
    BY <1>2 DEF SaysStart, SaysContent, SaysTerminal, Events, Content, Terminal
  <2>4. CASE s # r BY <1>0, <2>2, <2>3, <2>4, SaysLog
  <2>5. CASE s = r
    <3> SUFFICES ASSUME NEW i \in DOMAIN stream'[r], stream'[r][i] = "done"
                 PROVE  mem[r].status = "completed" /\ task[r] \in Over
      BY <2>2, <2>5
    <3>1. CASE i = Len(stream[r]) + 1 BY <2>3, <3>1, SaysLog DEF Over
    <3>2. CASE i \in 1..Len(stream[r])
      <4>1. i \in DOMAIN stream[r] /\ stream[r][i] = "done" BY <2>3, <3>2, SaysLog
      <4> QED BY <1>0, <2>5, <4>1
    <3> QED BY <2>3, <3>1, <3>2, SaysLog
  <2> QED BY <2>4, <2>5
<1> QED BY <1>1, <1>2, NextSays

LEMMA NextSaved == TInv /\ OwnerOK /\ SavedOK /\ [Next]_vars => SavedOK'
<1> SUFFICES ASSUME TInv, OwnerOK, SavedOK, [Next]_vars, NEW s \in Requests
             PROVE  /\ mem'[s].status # "streaming"
                    /\ late'[s] # NoLate => late'[s] \in Settled
                    /\ mem'[s].saved => task'[s] \in Over
                    /\ (\E i \in DOMAIN stream'[s] : stream'[s][i] = "done") =>
                         mem'[s].status = "completed" /\ task'[s] \in Over
                    /\ mem'[s].saved /\ row'[s] # NoRow /\ s \notin clobbered' =>
                         row'[s] = RowOf(mem'[s])
  BY DEF SavedOK, Settled, RowOf
<1>t. /\ mem[s] \in Locals /\ row \in [Requests -> RowData \cup {NoRow}]
      /\ RowOf(mem[s]) \in RowData
  BY LocalsType DEF TInv, TypeOK, WorkersOK, StoresOK, Content
<1>0. /\ mem[s].status # "streaming" /\ (late[s] # NoLate => late[s] \in Settled)
      /\ mem[s].saved => task[s] \in Over
      /\ mem[s].saved /\ row[s] # NoRow /\ s \notin clobbered =>
           row[s] = RowOf(mem[s])
  BY DEF SavedOK
<1>w. /\ SameWord(s) \/ NewWord(s) \/ Saves(s)
      /\ late'[s] = late[s] \/ late'[s] = NoLate \/ late'[s] = RowOf(mem[s])
  BY NextWord
<1>u. RowOf(mem'[s]) = RowOf(mem[s]) => mem'[s].status = mem[s].status
  BY DEF RowOf
<1>1. mem'[s].status # "streaming"
  BY <1>0, <1>w, <1>u DEF SameWord, NewWord, Saves
<1>2. late'[s] # NoLate => late'[s] \in Settled
  <2>1. RowOf(mem[s]) \in Settled BY <1>0, <1>t DEF RowOf, Settled
  <2> QED BY <1>0, <1>w, <2>1
<1>3. mem'[s].saved => task'[s] \in Over
  BY <1>0, <1>w, NextOver DEF SameWord, NewWord, Saves, Over
<1>4. (\E i \in DOMAIN stream'[s] : stream'[s][i] = "done") =>
         mem'[s].status = "completed" /\ task'[s] \in Over
  BY <1>w, <1>u, NextOver DEF SameWord, NewWord, Saves, Over
<1>5. ASSUME mem'[s].saved, row'[s] # NoRow, s \notin clobbered'
      PROVE  row'[s] = RowOf(mem'[s])
  <2>1. CASE Saves(s)
    <3>1. row'[s] = RowOf(mem[s]) BY <1>t, <2>1 DEF Saves, Overwrite
    <3> QED BY <2>1, <3>1 DEF Saves, RowOf
  <2>2. CASE SameWord(s)
    <3>1. mem[s].saved /\ task[s] \in Over BY <1>0, <1>5, <2>2 DEF SameWord
    <3>2. CASE SameTurns BY <1>0, <1>5, <2>2, <3>1, <3>2 DEF SameTurns, SameWord
    <3>3. CASE Forgets BY <1>5, <3>3 DEF Forgets
    <3>4. ASSUME NEW r \in Requests, Inserts(r) PROVE row'[s] = RowOf(mem'[s])
      <4>1. r # s BY <3>1, <3>4 DEF Inserts, OwnerOK, RowFirst, Over
      <4>2. row'[s] = row[s] /\ clobbered' = clobbered BY <1>t, <3>4, <4>1 DEF Inserts
      <4> QED BY <1>0, <1>5, <2>2, <3>1, <4>2 DEF SameWord
    <3>5. ASSUME NEW r \in Requests, Closes(r) PROVE row'[s] = RowOf(mem'[s])
      <4>1. PICK d \in Settled : Overwrite(r, d) BY <3>5 DEF Closes
      <4>2. s \notin clobbered BY <1>5, <4>1 DEF Overwrite
      <4>3. CASE r = s
        <5>1. row[s] # NoRow BY <3>5, <4>3 DEF Closes
        <5>2. row[s].status # "streaming" BY <1>0, <3>1, <4>2, <5>1 DEF RowOf
        <5> QED BY <1>5, <4>1, <4>3, <5>2 DEF Overwrite
      <4>4. CASE r # s
        <5>1. row'[s] = row[s] BY <1>t, <4>1, <4>4 DEF Overwrite
        <5> QED BY <1>0, <1>5, <2>2, <3>1, <4>2, <5>1 DEF SameWord
      <4> QED BY <4>3, <4>4
    <3> QED BY <3>2, <3>3, <3>4, <3>5, NextRows
  <2>3. CASE NewWord(s) BY <1>0, <1>5, <2>3 DEF NewWord, Over
  <2> QED BY <1>w, <2>1, <2>2, <2>3
<1> QED BY <1>1, <1>2, <1>3, <1>4, <1>5

LEMMA InitSaved == Init => SavedOK
<1> SUFFICES ASSUME Init, NEW r \in Requests
             PROVE  /\ mem[r].status = "completed" /\ mem[r].saved = FALSE
                    /\ late[r] = NoLate /\ DOMAIN stream[r] = {}
  BY DEF SavedOK
<1> QED BY DEF Init, Fresh

LEMMA SavedAlways == Spec => []SavedOK
BY InitSaved, NextSaved, TypedAlways, OwnedAlways, PTL DEF Spec

\* Once "done" is in the log of a turn that was saved, its row is "completed"
\* for as long as no other handler overwrites it, whatever fails or stops.
THEOREM DoneLasts == Spec => []DoneIsDurable
<1>1. SavedOK => DoneIsDurable
  <2> SUFFICES ASSUME SavedOK, NEW r \in Requests,
                      \E i \in DOMAIN stream[r] : stream[r][i] = "done",
                      mem[r].saved, row[r] # NoRow, r \notin clobbered
               PROVE  row[r].status = "completed"
    BY DEF DoneIsDurable
  <2>1. mem[r].status = "completed" /\ row[r] = RowOf(mem[r]) BY DEF SavedOK
  <2> QED BY <2>1 DEF RowOf
<1> QED BY <1>1, SavedAlways, PTL

-----------------------------------------------------------------------------
(* The turn implements its contract.                                       *)

LEMMA InitContract == Init => Contract!ContractInit
<1> SUFFICES ASSUME Init, NEW r \in Requests
             PROVE  PhaseOf(r) = "absent" /\ LogOf(r) = "empty" /\ calls[r] = 0
  BY DEF Contract!ContractInit, Init
<1> QED BY DEF Init, PhaseOf, LogOf, Closed

\* What the mapping reads of a turn, and when it does not change.
LEMMA PhaseKept ==
  ASSUME NEW r \in Requests, conv' = conv, row'[r] = row[r]
  PROVE  PhaseOf(r)' = PhaseOf(r)
BY DEF PhaseOf

LEMMA LogKept ==
  ASSUME NEW r \in Requests, stream'[r] = stream[r]
  PROVE  LogOf(r)' = LogOf(r)
BY DEF LogOf, Closed

\* An event opens the log, closes it, or leaves it open or closed.
LEMMA SaysLogOf ==
  ASSUME TInv, NEW r \in Requests, NEW e \in Events, Says(r, e)
  PROVE  /\ LogOf(r)' = IF e \in Terminal \/ Closed(r) THEN "closed" ELSE "open"
         /\ \A s \in Requests : s # r => LogOf(s)' = LogOf(s)
<1>1. \A s \in Requests : s # r => LogOf(s)' = LogOf(s)
  BY SaysLog, LogKept
<1>2. Closed(r)' <=> e \in Terminal \/ Closed(r)
  BY SaysLog DEF Closed
<1>3. stream'[r] # <<>> BY SaysLog
<1> QED BY <1>1, <1>2, <1>3 DEF LogOf

LEMMA SpeechImplements ==
  ASSUME TInv, OwnerOK, LogOK, NEW r \in Requests,
         SaysStart(r) \/ SaysContent(r) \/ SaysTerminal(r)
  PROVE  [Contract!ContractNext]_(Contract!contractVars)
<1> DEFINE phase == [s \in Requests |-> PhaseOf(s)]
           log   == [s \in Requests |-> LogOf(s)]
<1>t. /\ calls \in [Requests -> Nat]
      /\ Content \subseteq Events /\ Terminal \subseteq Events /\ "start" \in Events
      /\ "start" \notin Terminal /\ Content \cap Terminal = {}
  BY DEF TInv, TypeOK, WorkersOK, Events, Content, Terminal
<1>p. \A e \in Events : Says(r, e) => phase' = phase
  BY PhaseKept DEF Says
<1>1. CASE SaysStart(r)
  <2>1. PICK pc \in {"loop", "ended"} :
          calls' = [calls EXCEPT ![r] = IF pc = "loop" THEN @ + 1 ELSE @]
    BY <1>1 DEF SaysStart
  <2>2. /\ task[r] = "start" /\ calls[r] = 0 /\ Says(r, "start")
        /\ stream[r] = <<>> /\ ~Closed(r)
    BY <1>1 DEF SaysStart, OwnerOK, CalledOnce, LogOK, Silent, Closed
  <2>3. phase[r] # "absent"
    <3>1. conv = "deleted" \/ row[r] # NoRow
      BY <2>2 DEF OwnerOK, RowFirst, TInv, TypeOK, StoresOK
    <3> QED BY <3>1 DEF PhaseOf
  <2>4. log[r] = "empty" BY <2>2 DEF LogOf
  <2>5. log' = [log EXCEPT ![r] = "open"] BY <1>t, <2>2, SaysLogOf
  <2>6. \E n \in {0, 1} : calls' = [calls EXCEPT ![r] = n]
    <3>1. CASE pc = "loop" BY <1>t, <2>1, <2>2, <3>1
    <3>2. CASE pc = "ended" BY <1>t, <2>1, <2>2, <3>2
    <3> QED BY <3>1, <3>2
  <2>7. phase' = phase BY <1>t, <1>p, <2>2
  <2>8. Contract!Open(r)
    BY <2>3, <2>4, <2>5, <2>6, <2>7 DEF Contract!Open
  <2> QED BY <2>8 DEF Contract!ContractNext
<1>2. CASE SaysContent(r)
  <2>1. PICK e \in Content : Says(r, e) BY <1>2 DEF SaysContent
  <2>2. /\ UNCHANGED calls /\ ~Closed(r) /\ stream[r] # <<>>
    BY <1>2 DEF SaysContent, LogOK, Talking, Working, Live
  <2>3. log' = log
    <3>1. \A s \in Requests : LogOf(s)' = LogOf(s)
      BY <1>t, <2>1, <2>2, SaysLogOf DEF LogOf
    <3> QED BY <3>1
  <2>4. phase' = phase BY <1>t, <1>p, <2>1
  <2> QED BY <2>2, <2>3, <2>4 DEF Contract!contractVars
<1>3. CASE SaysTerminal(r)
  <2>1. PICK e \in Terminal : Says(r, e) BY <1>3 DEF SaysTerminal
  <2>2. UNCHANGED calls /\ calls[r] = 1 /\ stream[r] # <<>>
    BY <1>3 DEF SaysTerminal, LogOK, Working, Live
  <2>3. phase' = phase BY <1>t, <1>p, <2>1
  <2>4. CASE Closed(r)
    <3>1. \A s \in Requests : LogOf(s)' = LogOf(s)
      BY <1>t, <2>1, <2>4, SaysLogOf DEF LogOf
    <3>2. log' = log BY <3>1
    <3> QED BY <2>2, <2>3, <3>2 DEF Contract!contractVars
  <2>5. CASE ~Closed(r)
    <3>1. log[r] = "open" BY <2>2, <2>5 DEF LogOf
    <3>2. log' = [log EXCEPT ![r] = "closed"] BY <1>t, <2>1, SaysLogOf
    <3>3. Contract!Close(r) BY <2>2, <2>3, <3>1, <3>2 DEF Contract!Close
    <3> QED BY <3>3 DEF Contract!ContractNext
  <2> QED BY <2>4, <2>5
<1> QED BY <1>1, <1>2, <1>3

LEMMA RowsImplement ==
  ASSUME TInv, SavedOK, [Next]_vars, UNCHANGED <<stream, calls>>
  PROVE  [Contract!ContractNext]_(Contract!contractVars)
<1> DEFINE phase == [s \in Requests |-> PhaseOf(s)]
           log   == [s \in Requests |-> LogOf(s)]
<1>t. row \in [Requests -> RowData \cup {NoRow}] /\ conv \in {"live", "deleted"}
  BY DEF TInv, TypeOK, StoresOK
<1>l. log' = log BY LogKept
<1>1. CASE SameTurns
  <2>1. phase' = phase BY <1>1, PhaseKept DEF SameTurns
  <2> QED BY <1>l, <2>1 DEF Contract!contractVars
<1>2. CASE Forgets
  <2>1. phase' = [s \in Requests |-> "deleted"] BY <1>2 DEF Forgets, PhaseOf
  <2>2. Contract!Forget BY <1>l, <2>1 DEF Contract!Forget
  <2> QED BY <2>2 DEF Contract!ContractNext
<1>3. ASSUME NEW r \in Requests, Inserts(r)
      PROVE  [Contract!ContractNext]_(Contract!contractVars)
  <2>1. phase[r] = "absent" BY <1>3 DEF Inserts, PhaseOf
  <2>2. NewRow # NoRow /\ NewRow.status = "streaming"
    BY NewRowData, NoRowNotData DEF NewRow
  <2>3. PhaseOf(r)' = "streaming" BY <1>t, <1>3, <2>2 DEF Inserts, PhaseOf
  <2>4. \A s \in Requests : s # r => PhaseOf(s)' = PhaseOf(s)
    BY <1>t, <1>3, PhaseKept DEF Inserts
  <2>5. phase' = [phase EXCEPT ![r] = "streaming"] BY <2>3, <2>4
  <2>6. Contract!Accept(r) BY <1>l, <2>1, <2>5 DEF Contract!Accept
  <2> QED BY <2>6 DEF Contract!ContractNext
<1>4. ASSUME NEW r \in Requests, Closes(r)
      PROVE  [Contract!ContractNext]_(Contract!contractVars)
  <2>1. PICK d \in Settled : Overwrite(r, d) BY <1>4 DEF Closes
  <2>2. d # NoRow /\ d.status # "streaming" BY NoRowNotData DEF Settled
  <2>3. row'[r] = d /\ \A s \in Requests : s # r => row'[s] = row[s]
    BY <1>t, <2>1 DEF Overwrite
  <2>4. conv' = conv /\ row[r] # NoRow BY <1>4 DEF Closes
  <2>5. \A s \in Requests : s # r => PhaseOf(s)' = PhaseOf(s)
    BY <2>3, <2>4, PhaseKept
  <2>6. PhaseOf(r)' = IF conv = "deleted" THEN "deleted" ELSE "settled"
    BY <2>2, <2>3, <2>4 DEF PhaseOf
  <2>7. CASE PhaseOf(r) = "streaming"
    <3>1. PhaseOf(r)' = "settled" BY <2>6, <2>7 DEF PhaseOf
    <3>2. phase' = [phase EXCEPT ![r] = "settled"] BY <2>5, <3>1
    <3>3. Contract!Settle(r) BY <1>l, <2>7, <3>2 DEF Contract!Settle
    <3> QED BY <3>3 DEF Contract!ContractNext
  <2>8. CASE PhaseOf(r) # "streaming"
    <3>1. PhaseOf(r)' = PhaseOf(r) BY <2>4, <2>6, <2>8 DEF PhaseOf
    <3>2. phase' = phase BY <2>5, <3>1
    <3> QED BY <1>l, <3>2 DEF Contract!contractVars
  <2> QED BY <2>7, <2>8
<1> QED BY <1>1, <1>2, <1>3, <1>4, NextRows

\* Whatever interleaving of handlers and workers, cancellation, failure, crash
\* or deletion happens, a turn is accepted once, asked at most once, opens and
\* closes its log once, and never returns to "streaming" once it has left it.
THEOREM TurnImplements == Spec => KeepsContract
<1>1. TInv /\ OwnerOK /\ LogOK /\ SavedOK /\ [Next]_vars
        => [Contract!ContractNext]_(Contract!contractVars)
  BY NextSays, SpeechImplements, RowsImplement DEF Quiet
<1> QED
  BY <1>1, InitContract, TypedAlways, OwnedAlways, LoggedAlways, SavedAlways, PTL
  DEF Spec, KeepsContract, Contract!ContractSpec

-----------------------------------------------------------------------------
(* What the steps of others and of the process do to one turn.             *)

\* The worker of a turn is left alone, is scheduled, or dies with the process.
Rests(s) ==
  task'[s] = task[s] /\ mem'[s] = mem[s] /\ stream'[s] = stream[s]
Starts(s) ==
  /\ task[s] = "none" /\ task'[s] = "scheduled"
  /\ mem'[s] = Fresh /\ stream'[s] = stream[s]
Dies(s) ==
  /\ Crash /\ Running(s) /\ task'[s] = "ended"
  /\ mem'[s] = mem[s] /\ stream'[s] = stream[s]

LEMMA WorkerElsewhere ==
  ASSUME TInv, NEW r \in Requests, Worker(r), NEW s \in Requests, s # r
  PROVE  Rests(s)
<1>t. /\ task \in [Requests -> WorkerPcs] /\ mem \in [Requests -> Locals]
      /\ stream \in [Requests -> Seq(Events)]
  BY DEF TInv, TypeOK, WorkersOK, StoresOK
<1>1. \A pc : Goto(r, pc) => task'[s] = task[s]
  BY <1>t DEF Goto
<1>2. stream'[s] = stream[s]
  BY <1>t DEF Worker, Begin, Published, PublishFails, RuntimeYields, RuntimeFails,
     RuntimeEnds, Save, Interrupt, MaybePublish, Publish
<1>3. task'[s] = task[s]
  BY <1>1 DEF Worker, Begin, Published, PublishFails, RuntimeYields, RuntimeFails,
     RuntimeEnds, Save, Interrupt
<1>4. mem'[s] = mem[s]
  BY <1>t DEF Worker, Begin, Published, PublishFails, RuntimeYields, RuntimeFails,
     RuntimeEnds, Save, Interrupt
<1> QED BY <1>2, <1>3, <1>4 DEF Rests

LEMMA NextTurn ==
  ASSUME TInv, OwnerOK, [Next]_vars, NEW s \in Requests
  PROVE  Worker(s) \/ Rests(s) \/ Starts(s) \/ Dies(s)
<1>t. /\ task \in [Requests -> WorkerPcs] /\ mem \in [Requests -> Locals]
  BY DEF TInv, TypeOK, WorkersOK
<1>u. UNCHANGED <<task, mem, stream>> => Rests(s) BY DEF Rests
<1>w. workVars' = workVars => UNCHANGED <<task, mem>> BY DEF workVars
<1>h. notHttp' = notHttp => UNCHANGED <<task, mem>> BY DEF notHttp, workVars
<1>1. CASE UNCHANGED vars BY <1>1, <1>u DEF vars
<1>2. ASSUME NEW r \in Requests, Worker(r) PROVE Worker(s) \/ Rests(s)
  BY <1>2, WorkerElsewhere
<1>3. CASE \E r \in Requests : LateSave(r)
  BY <1>3, <1>u DEF LateSave
<1>4. CASE Delete \/ Shutdown
  BY <1>4, <1>u, <1>w DEF Delete, Shutdown
<1>5. CASE Crash
  BY <1>5 DEF Crash, Rests, Dies
<1>6. CASE \E p \in Posts : PostSpawn(p)
  <2>1. PICK p \in Posts : PostSpawn(p) BY <1>6
  <2>2. task[Req(p)] = "none" /\ Req(p) \in Requests
    BY <2>1, ReqType DEF PostSpawn, OwnerOK, RowFirst
  <2>3. /\ mem' = [mem EXCEPT ![Req(p)] = Fresh] /\ UNCHANGED stream
        /\ task' = [task EXCEPT ![Req(p)] = "scheduled"]
    BY <2>1, <2>2 DEF PostSpawn, Running, Live, Goto
  <2> QED BY <1>t, <2>2, <2>3 DEF Rests, Starts
<1>7. CASE \E p \in Posts : \/ PostArrive(p) \/ PostLookup(p) \/ PostDecide(p) \/ PostUser(p)
                            \/ PostAssistant(p) \/ PostRepair(p) \/ PostFails(p)
  BY <1>7, <1>u, <1>h
  DEF PostArrive, PostLookup, PostDecide, PostUser, PostAssistant, PostRepair, PostFails
<1>8. CASE \E p \in Posts : \/ ReadInitial(p) \/ ReaderCheck(p) \/ ReaderDeliver(p)
                            \/ ReaderLeaves(p) \/ ReaderFails(p) \/ Drop(p)
  BY <1>8, <1>u, <1>h
  DEF ReadInitial, ReaderCheck, ReaderDeliver, ReaderLeaves, ReaderFails, Drop
<1>9. CASE \E a \in Aborts : AbortArrive(a) \/ AbortLook(a) \/ AbortWrite(a)
  BY <1>9, <1>u, <1>w DEF AbortArrive, AbortLook, AbortWrite
<1> QED BY <1>1, <1>2, <1>3, <1>4, <1>5, <1>6, <1>7, <1>8, <1>9 DEF Next, Handler

-----------------------------------------------------------------------------
(* Replaying the log.                                                      *)

Drafts == [text : Int, steps : Int, status : Statuses]

\* The recursion of Shown, as a function of the number of frames taken.
After(frames) ==
  LET after[i \in 0..Len(frames)] ==
        IF i = 0 THEN Draft ELSE ApplyFrame(after[i - 1], frames[i])
  IN after

LEMMA ApplyType ==
  ASSUME NEW d \in Drafts, NEW f \in Frames PROVE ApplyFrame(d, f) \in Drafts
<1>1. f.n \in Int BY DEF Frames
<1>2. \A k \in Int : /\ [d EXCEPT !.steps = k] \in Drafts
                     /\ [d EXCEPT !.text = k] \in Drafts
  BY DEF Drafts
<1>3. \A st \in Statuses : [d EXCEPT !.status = st] \in Drafts
  BY DEF Drafts
<1>4. d.steps + f.n \in Int /\ d.text + f.n \in Int /\ 0 \in Int
  BY <1>1 DEF Drafts
<1>5. {"completed", "aborted", "error"} \subseteq Statuses BY DEF Statuses
<1> QED BY <1>2, <1>3, <1>4, <1>5 DEF ApplyFrame

LEMMA AfterIs ==
  ASSUME NEW s \in Seq(Frames)
  PROVE  /\ Shown(s) = After(s)[Len(s)]
         /\ After(s) \in [0..Len(s) -> Drafts]
         /\ After(s)[0] = Draft
         /\ \A i \in 1..Len(s) : After(s)[i] = ApplyFrame(After(s)[i-1], s[i])
<1>1. Shown(s) = After(s)[Len(s)] BY DEF Shown, After
<1> DEFINE N == Len(s)
           Eqn(f) == f = [i \in 0..N |-> IF i = 0 THEN Draft ELSE ApplyFrame(f[i-1], s[i])]
           step == [p \in Drafts \X (1..N) |-> ApplyFrame(p[1], s[p[2]])]
<1>2. After(s) = CHOOSE f : Eqn(f) BY DEF After
<1>3. N \in Nat /\ \A i \in 1..N : s[i] \in Frames OBVIOUS
<1>4. step \in [Drafts \X (1..N) -> Drafts]
  BY <1>3, ApplyType
<1>5. \A d \in Drafts, i \in 1..N : step[<<d, i>>] = ApplyFrame(d, s[i])
  OBVIOUS
<1>d. Draft \in Drafts BY DEF Draft, Drafts, Statuses
<1> HIDE DEF step, N
<1>6. \E g : IsRun(g, Drafts, Draft, N, step)
  BY <1>3, <1>4, <1>d, RunExists
<1>7. PICK g : g \in [0..N -> Drafts] /\ g[0] = Draft
               /\ \A i \in 1..N : g[i] = step[<<g[i-1], i>>]
  BY <1>6 DEF IsRun
<1> USE DEF N
<1>8. \A i \in 1..N : g[i] = ApplyFrame(g[i-1], s[i])
  <2> TAKE i \in 1..N
  <2>1. g[i-1] \in Drafts BY <1>3, <1>7
  <2> QED BY <2>1, <1>5, <1>7
<1>9. Eqn(g) BY <1>3, <1>7, <1>8
<1>10. Eqn(After(s)) BY <1>2, <1>9
<1>11. After(s)[0] = Draft /\ \A i \in 1..N : After(s)[i] = ApplyFrame(After(s)[i-1], s[i])
  BY <1>10, <1>3
<1>12. \A i \in 0..N : After(s)[i] = g[i]
  <2>1. \A i \in 1..N : After(s)[i-1] = g[i-1] => After(s)[i] = g[i]
    BY <1>8, <1>11
  <2>2. After(s)[0] = g[0] BY <1>7, <1>11
  <2> HIDE DEF N
  <2> QED BY <1>3, <2>1, <2>2, RunsAgree, ZenonT(30)
<1>13. After(s) \in [0..N -> Drafts]
  <2>1. After(s) = [i \in 0..N |-> After(s)[i]] BY <1>10
  <2> QED BY <1>7, <1>12, <2>1
<1> QED BY <1>1, <1>11, <1>13

\* One more frame is applied to the draft that the others gave.
LEMMA ShownAppend ==
  ASSUME NEW s \in Seq(Frames), NEW f \in Frames
  PROVE  Shown(Append(s, f)) = ApplyFrame(Shown(s), f) /\ Shown(s) \in Drafts
<1> DEFINE t == Append(s, f)
<1>1. /\ t \in Seq(Frames) /\ Len(t) = Len(s) + 1 /\ Len(s) \in Nat
      /\ \A i \in 1..Len(s) : t[i] = s[i]
      /\ t[Len(s) + 1] = f
  OBVIOUS
<1> HIDE DEF t
<1>2. /\ Shown(s) = After(s)[Len(s)] /\ After(s)[0] = Draft
      /\ After(s) \in [0..Len(s) -> Drafts]
      /\ \A i \in 1..Len(s) : After(s)[i] = ApplyFrame(After(s)[i-1], s[i])
  BY AfterIs
<1>3. /\ Shown(t) = After(t)[Len(t)] /\ After(t)[0] = Draft
      /\ \A i \in 1..Len(t) : After(t)[i] = ApplyFrame(After(t)[i-1], t[i])
  BY <1>1, AfterIs
<1>4. \A i \in 1..Len(s) : After(t)[i-1] = After(s)[i-1] => After(t)[i] = After(s)[i]
  <2> TAKE i \in 1..Len(s)
  <2>1. i \in 1..Len(t) BY <1>1
  <2> QED BY <2>1, <1>1, <1>2, <1>3
<1>5. \A i \in 0..Len(s) : After(t)[i] = After(s)[i]
  <2>1. After(t)[0] = After(s)[0] BY <1>2, <1>3
  <2> QED BY <1>1, <1>4, <2>1, RunsAgree, ZenonT(30)
<1>6. Len(s) \in 0..Len(s) /\ Len(t) \in 1..Len(t) /\ Len(t) - 1 = Len(s)
  BY <1>1
<1>7. Shown(t) = ApplyFrame(Shown(s), f)
  BY <1>1, <1>2, <1>3, <1>5, <1>6
<1> QED BY <1>1, <1>2, <1>6, <1>7 DEF t

LEMMA NothingShown == Shown(<<>>) = Draft
<1>1. <<>> \in Seq(Frames) /\ Len(<<>>) = 0 OBVIOUS
<1> QED BY <1>1, AfterIs

\* The draft of a log with one more event.
LogDraft(r) == Shown(AsFrames(stream[r]))

LEMMA SaysDraft ==
  ASSUME TInv, NEW r \in Requests, NEW e \in Events, Says(r, e)
  PROVE  LogDraft(r)' = ApplyFrame(LogDraft(r), LiveFrame(e)) /\ LogDraft(r) \in Drafts
<1>1. stream[r] \in Seq(Events) /\ stream'[r] = Append(stream[r], e)
  BY DEF TInv, TypeOK, StoresOK, Says
<1>2. \A x \in Events : LiveFrame(x) \in Frames
  BY DEF LiveFrame, Frames
<1>3. AsFrames(stream[r]) \in Seq(Frames)
  BY <1>1, <1>2 DEF AsFrames
<1>4. AsFrames(stream'[r]) = Append(AsFrames(stream[r]), LiveFrame(e))
  <2> HIDE DEF LiveFrame
  <2> QED BY <1>1 DEF AsFrames
<1> QED BY <1>2, <1>3, <1>4, ShownAppend DEF LogDraft

\* LogReplaysRow is not inductive: while the worker goes on, the draft of the
\* log is what it has accumulated, but for the event it is publishing; a worker
\* that leaves the loop early is not "completed"; "done" is its last word.
Word(m, st) == [text |-> m.text, steps |-> m.steps, status |-> st]
HasDone(r) == \E i \in DOMAIN stream[r] : stream[r][i] = "done"

Replays(r) ==
  /\ task[r] \in Silent => mem[r] = Fresh
  /\ task[r] \in Talking => mem[r].status = "completed"
  /\ task[r] = "loop" => LogDraft(r) = Word(mem[r], "streaming")
  /\ task[r] = "emit" =>
       ApplyFrame(LogDraft(r), LiveFrame(mem[r].ev)) = Word(mem[r], "streaming")
  /\ task[r] \in {"rterr", "exc", "abt"} => mem[r].status # "completed"
  /\ task[r] \in {"save", "last"} /\ mem[r].status = "completed" =>
       LogDraft(r) = Word(mem[r], "streaming")
  /\ HasDone(r) => task[r] = "ended" /\ LogDraft(r) = Word(mem[r], "completed")

ReplayOK == \A r \in Requests : Replays(r)

LEMMA SaysDone ==
  ASSUME TInv, NEW r \in Requests, NEW e \in Events, Says(r, e)
  PROVE  HasDone(r)' <=> HasDone(r) \/ e = "done"
BY SaysLog DEF HasDone

\* What the worker adds to its locals for an event is what the browser adds to
\* its draft for the frame of that event.
LEMMA AccumulateIsApply ==
  ASSUME NEW m \in Locals, NEW e \in Content
  PROVE  /\ ApplyFrame(Word(m, "streaming"), LiveFrame(e))
              = Word(Accumulate(m, e), "streaming")
         /\ Accumulate(m, e).ev = e
         /\ Accumulate(m, e).status = m.status
<1>1. m.text \in Int /\ m.steps \in Nat BY DEF Locals
<1>2. CASE e = "step"
  BY <1>1, <1>2 DEF ApplyFrame, LiveFrame, Word, Accumulate, Locals
<1>3. CASE e = "text"
  BY <1>1, <1>3 DEF ApplyFrame, LiveFrame, Word, Accumulate, Locals
<1>4. CASE e = "text_reset"
  BY <1>1, <1>4 DEF ApplyFrame, LiveFrame, Word, Accumulate, Locals
<1> QED BY <1>2, <1>3, <1>4 DEF Content

LEMMA PublishedReplays ==
  ASSUME TInv, LogOK, NEW r \in Requests, Replays(r), Published(r)
  PROVE  Replays(r)'
<1>t. /\ mem[r] \in Locals /\ task \in [Requests -> WorkerPcs]
      /\ mem \in [Requests -> Locals] /\ mem[r].ev \in Content
      /\ Content \subseteq Events /\ {"start", "done", "error", "aborted"} \subseteq Events
  BY DEF TInv, TypeOK, WorkersOK, Locals, Events, Terminal
<1>1. /\ Publish(r, InFlight(r)) /\ task'[r] = AfterPublish[task[r]]
      /\ task[r] \in {"start", "emit", "rterr", "exc", "abt", "last"}
      /\ UNCHANGED <<conv, row, clobbered>>
  BY <1>t DEF Published, Goto, AfterPublish, dbVars
<1>2. /\ mem'[r].text = mem[r].text /\ mem'[r].steps = mem[r].steps
      /\ mem'[r].status = mem[r].status
  BY <1>t DEF Published, Locals
<1>3. \A st : Word(mem'[r], st) = Word(mem[r], st) BY <1>2 DEF Word
<1>4. Says(r, InFlight(r)) BY <1>1 DEF Says, Publish
<1>5. ~HasDone(r) BY <1>1 DEF Replays
<1>6. CASE task[r] = "start"
  <2>1. InFlight(r) = "start" /\ task'[r] = "loop"
    BY <1>1, <1>6 DEF InFlight, AfterPublish
  <2>2. stream[r] = <<>> BY <1>6 DEF LogOK, Silent
  <2>3. LogDraft(r) = Draft
    <3>1. AsFrames(<<>>) = <<>> BY DEF AsFrames
    <3> QED BY <2>2, <3>1, NothingShown DEF LogDraft
  <2>4. LogDraft(r)' = ApplyFrame(Draft, LiveFrame("start"))
    BY <1>t, <1>4, <2>1, <2>3, SaysDraft
  <2>5. LogDraft(r)' = Draft
    BY <2>4 DEF ApplyFrame, LiveFrame
  <2>6. mem[r] = Fresh BY <1>6 DEF Replays, Silent
  <2>7. LogDraft(r)' = Word(mem'[r], "streaming")
    BY <1>3, <2>5, <2>6 DEF Word, Fresh, Draft
  <2>8. mem'[r].status = "completed" BY <1>2, <2>6 DEF Fresh
  <2>9. ~HasDone(r)' BY <1>t, <1>4, <1>5, <2>1, SaysDone
  <2> QED BY <2>1, <2>7, <2>8, <2>9 DEF Replays, Silent
<1>7. CASE task[r] = "emit"
  <2>1. InFlight(r) = mem[r].ev /\ task'[r] = "loop" /\ InFlight(r) \in Events
    BY <1>t, <1>1, <1>7 DEF InFlight, AfterPublish
  <2>2. LogDraft(r)' = Word(mem'[r], "streaming")
    BY <1>3, <1>4, <1>7, <2>1, SaysDraft DEF Replays
  <2>3. mem'[r].status = "completed" BY <1>2, <1>7 DEF Replays, Talking
  <2>4. InFlight(r) # "done" BY <1>t, <2>1 DEF Content
  <2>5. ~HasDone(r)' BY <1>4, <1>5, <2>1, <2>4, SaysDone
  <2> QED BY <2>1, <2>2, <2>3, <2>5 DEF Replays, Silent
<1>8. CASE task[r] \in {"rterr", "exc", "abt"}
  <2>1. InFlight(r) \in {"error", "aborted"} /\ task'[r] = "save"
    BY <1>1, <1>8 DEF InFlight, AfterPublish
  <2>2. mem'[r].status # "completed" BY <1>2, <1>8 DEF Replays
  <2>3. ~HasDone(r)' BY <1>t, <1>4, <1>5, <2>1, SaysDone
  <2> QED BY <2>1, <2>2, <2>3 DEF Replays, Silent, Talking
<1>9. CASE task[r] = "last"
  <2>1. task'[r] = "ended" BY <1>1, <1>9 DEF AfterPublish
  <2>2. CASE mem[r].status = "completed"
    <3>1. InFlight(r) = "done" BY <1>9, <2>2 DEF InFlight
    <3>2. LogDraft(r)' = ApplyFrame(Word(mem[r], "streaming"), LiveFrame("done"))
      BY <1>t, <1>4, <1>9, <2>2, <3>1, SaysDraft DEF Replays
    <3>3. LogDraft(r)' = Word(mem'[r], "completed")
      BY <1>3, <3>2 DEF ApplyFrame, LiveFrame, Word
    <3> QED BY <2>1, <3>3 DEF Replays, Silent, Talking
  <2>3. CASE mem[r].status # "completed"
    <3>1. InFlight(r) = "error" BY <1>9, <2>3 DEF InFlight
    <3>2. ~HasDone(r)' BY <1>t, <1>4, <1>5, <3>1, SaysDone
    <3> QED BY <2>1, <3>2 DEF Replays, Silent, Talking
  <2> QED BY <2>2, <2>3
<1> QED BY <1>1, <1>6, <1>7, <1>8, <1>9

\* A publish that fails or is interrupted leaves the loop, or the worker: what
\* it may have said is not "done", unless it was the last word.
LEMMA MaybeReplays ==
  ASSUME TInv, NEW r \in Requests, Replays(r), MaybePublish(r, InFlight(r)),
         UNCHANGED <<conv, row, clobbered>>, Running(r), task[r] # "loop"
  PROVE  /\ task[r] = "last" /\ mem[r].status = "completed" =>
              (HasDone(r)' => LogDraft(r)' = Word(mem[r], "completed"))
         /\ ~(task[r] = "last" /\ mem[r].status = "completed") /\
            task[r] \notin {"scheduled", "save"} => ~HasDone(r)'
<1>t. /\ mem[r] \in Locals /\ mem[r].ev \in Content /\ task[r] \in WorkerPcs
      /\ Content \subseteq Events /\ {"start", "done", "error", "aborted"} \subseteq Events
      /\ "done" \notin Content
  BY DEF TInv, TypeOK, WorkersOK, Locals, Events, Content, Terminal
<1>1. ~HasDone(r)
  BY DEF Replays, Running, Live
<1>2. CASE UNCHANGED stream
  BY <1>1, <1>2 DEF HasDone
<1>3. CASE Publish(r, InFlight(r))
  <2>1. Says(r, InFlight(r)) BY <1>3 DEF Says, Publish
  <2>2. CASE task[r] = "last" /\ mem[r].status = "completed"
    <3>1. InFlight(r) = "done" BY <2>2 DEF InFlight
    <3>2. LogDraft(r)' = ApplyFrame(Word(mem[r], "streaming"), LiveFrame("done"))
      BY <1>t, <2>1, <2>2, <3>1, SaysDraft DEF Replays
    <3>3. LogDraft(r)' = Word(mem[r], "completed")
      BY <3>2 DEF ApplyFrame, LiveFrame, Word
    <3> QED BY <2>2, <3>3
  <2>3. CASE /\ ~(task[r] = "last" /\ mem[r].status = "completed")
             /\ task[r] \notin {"scheduled", "save"}
    <3>1. InFlight(r) \in Events /\ InFlight(r) # "done"
      BY <1>t, <2>3 DEF InFlight, Running, Live
    <3> QED BY <1>1, <2>1, <2>3, <3>1, SaysDone
  <2> QED BY <2>2, <2>3
<1> QED BY <1>2, <1>3 DEF MaybePublish

LEMMA FailureReplays ==
  ASSUME TInv, NEW r \in Requests, Replays(r), PublishFails(r)
  PROVE  Replays(r)'
<1>t. /\ mem[r] \in Locals /\ task \in [Requests -> WorkerPcs]
      /\ mem \in [Requests -> Locals]
  BY DEF TInv, TypeOK, WorkersOK
<1>1. /\ MaybePublish(r, InFlight(r)) /\ task'[r] = AfterFailure[task[r]]
      /\ task[r] \in {"start", "emit", "rterr", "exc", "abt", "last"}
      /\ UNCHANGED <<conv, row, clobbered>>
      /\ mem'[r] = IF task[r] \in {"emit", "rterr"} THEN Failed(mem[r]) ELSE mem[r]
  BY <1>t DEF PublishFails, Goto, AfterFailure, dbVars
<1>2. Failed(mem[r]).status = "error" BY <1>t DEF Failed, Locals
<1>3. /\ task[r] = "last" /\ mem[r].status = "completed" =>
           (HasDone(r)' => LogDraft(r)' = Word(mem[r], "completed"))
      /\ ~(task[r] = "last" /\ mem[r].status = "completed") => ~HasDone(r)'
  BY <1>1, MaybeReplays DEF Running, Live
<1>4. CASE task[r] \in {"start", "last"}
  <2>1. task'[r] = "ended" /\ mem'[r] = mem[r] BY <1>1, <1>4 DEF AfterFailure
  <2> QED BY <1>3, <2>1 DEF Replays, Silent, Talking
<1>5. CASE task[r] \in {"emit", "rterr"}
  <2>1. task'[r] = "exc" /\ mem'[r].status = "error"
    BY <1>1, <1>2, <1>5 DEF AfterFailure
  <2> QED BY <1>3, <1>5, <2>1 DEF Replays, Silent, Talking
<1>6. CASE task[r] \in {"exc", "abt"}
  <2>1. task'[r] = "save" /\ mem'[r] = mem[r] /\ mem[r].status # "completed"
    BY <1>1, <1>6 DEF AfterFailure, Replays
  <2> QED BY <1>3, <1>6, <2>1 DEF Replays, Silent, Talking
<1> QED BY <1>1, <1>4, <1>5, <1>6

LEMMA InterruptReplays ==
  ASSUME TInv, NEW r \in Requests, Replays(r), Interrupt(r)
  PROVE  Replays(r)'
<1>t. /\ mem[r] \in Locals /\ task \in [Requests -> WorkerPcs]
      /\ mem \in [Requests -> Locals]
  BY DEF TInv, TypeOK, WorkersOK
<1>1. /\ Running(r) /\ task[r] \in Live /\ task'[r] = AfterCancel[task[r]]
      /\ UNCHANGED <<conv, row, clobbered>>
      /\ mem'[r] = IF AfterCancel[task[r]] = "abt" THEN Aborted(mem[r]) ELSE mem[r]
  BY <1>t DEF Interrupt, Goto, dbVars, Running
<1>2. Aborted(mem[r]).status = "aborted" BY <1>t DEF Aborted, Locals
<1>3. /\ task[r] = "last" /\ mem[r].status = "completed" =>
           (HasDone(r)' => LogDraft(r)' = Word(mem[r], "completed"))
      /\ ~(task[r] = "last" /\ mem[r].status = "completed") => ~HasDone(r)'
  <2>1. CASE task[r] \in {"scheduled", "loop", "save"}
    <3>1. UNCHANGED stream BY <2>1 DEF Interrupt
    <3>2. ~HasDone(r) BY <2>1 DEF Replays
    <3> QED BY <2>1, <3>1, <3>2 DEF HasDone
  <2>2. CASE task[r] \notin {"scheduled", "loop", "save"}
    BY <1>1, <2>2, MaybeReplays DEF Interrupt
  <2> QED BY <2>1, <2>2
<1>4. CASE task[r] \in {"scheduled", "start", "save", "last"}
  <2>1. task'[r] = "ended" /\ mem'[r] = mem[r]
    BY <1>1, <1>4 DEF AfterCancel
  <2> QED BY <1>3, <2>1 DEF Replays, Silent, Talking
<1>5. CASE task[r] \in {"loop", "emit", "rterr"}
  <2>1. task'[r] = "abt" /\ mem'[r].status = "aborted"
    BY <1>1, <1>2, <1>5 DEF AfterCancel
  <2> QED BY <1>3, <1>5, <2>1 DEF Replays, Silent, Talking
<1>6. CASE task[r] \in {"exc", "abt"}
  <2>1. task'[r] = "save" /\ mem'[r] = mem[r] /\ mem[r].status # "completed"
    BY <1>1, <1>6 DEF AfterCancel, Replays
  <2> QED BY <1>3, <1>6, <2>1 DEF Replays, Silent, Talking
<1> QED BY <1>1, <1>4, <1>5, <1>6 DEF Live

LEMMA WorkerReplays ==
  ASSUME TInv, LogOK, NEW r \in Requests, Replays(r), Worker(r)
  PROVE  Replays(r)'
<1>t. /\ mem[r] \in Locals /\ task \in [Requests -> WorkerPcs]
      /\ mem \in [Requests -> Locals]
  BY DEF TInv, TypeOK, WorkersOK
<1>s. UNCHANGED stream => (HasDone(r)' <=> HasDone(r)) /\ LogDraft(r)' = LogDraft(r)
  BY DEF HasDone, LogDraft
<1>1. CASE Begin(r)
  <2>1. task[r] = "scheduled" /\ task'[r] = "start" /\ UNCHANGED <<mem, stream>>
    BY <1>t, <1>1 DEF Begin, Goto
  <2> QED BY <1>s, <2>1 DEF Replays, Silent, Talking
<1>2. CASE RuntimeYields(r)
  <2>1. PICK e \in Content : mem'[r] = Accumulate(mem[r], e)
    BY <1>t, <1>2 DEF RuntimeYields
  <2>2. task[r] = "loop" /\ task'[r] = "emit" /\ UNCHANGED stream
    BY <1>t, <1>2 DEF RuntimeYields, Goto
  <2>3. LogDraft(r) = Word(mem[r], "streaming") /\ mem[r].status = "completed"
        /\ ~HasDone(r)
    BY <2>2 DEF Replays, Talking
  <2>4. /\ ApplyFrame(LogDraft(r)', LiveFrame(mem'[r].ev)) = Word(mem'[r], "streaming")
        /\ mem'[r].status = "completed"
    BY <1>t, <1>s, <2>1, <2>2, <2>3, AccumulateIsApply
  <2> QED BY <1>s, <2>2, <2>3, <2>4 DEF Replays, Silent, Talking
<1>3. CASE RuntimeFails(r)
  <2>1. /\ task[r] = "loop" /\ task'[r] \in {"rterr", "exc"} /\ UNCHANGED stream
        /\ mem'[r] = Failed(mem[r])
    BY <1>t, <1>3 DEF RuntimeFails, Goto
  <2>2. mem'[r].status = "error" BY <1>t, <2>1 DEF Failed, Locals
  <2> QED BY <1>s, <2>1, <2>2 DEF Replays, Silent, Talking
<1>4. CASE RuntimeEnds(r)
  <2>1. task[r] = "loop" /\ task'[r] = "save" /\ UNCHANGED <<mem, stream>>
    BY <1>t, <1>4 DEF RuntimeEnds, Goto
  <2> QED BY <1>s, <2>1 DEF Replays, Silent, Talking
<1>5. CASE Save(r)
  <2>1. task[r] = "save" /\ task'[r] \in {"last", "ended"} /\ UNCHANGED stream
    BY <1>t, <1>5 DEF Save, Goto, AfterSave
  <2>2. mem'[r].status = mem[r].status /\ \A st : Word(mem'[r], st) = Word(mem[r], st)
    BY <1>t, <1>5 DEF Save, Word, Locals
  <2> QED BY <1>s, <2>1, <2>2 DEF Replays, Silent, Talking
<1> QED
  BY <1>1, <1>2, <1>3, <1>4, <1>5, PublishedReplays, FailureReplays, InterruptReplays
  DEF Worker

LEMMA NextReplays == TInv /\ OwnerOK /\ LogOK /\ ReplayOK /\ [Next]_vars => ReplayOK'
<1> SUFFICES ASSUME TInv, OwnerOK, LogOK, ReplayOK, [Next]_vars, NEW s \in Requests
             PROVE  Replays(s)'
  BY DEF ReplayOK
<1>0. Replays(s) BY DEF ReplayOK
<1>s. stream'[s] = stream[s] =>
        (HasDone(s)' <=> HasDone(s)) /\ LogDraft(s)' = LogDraft(s)
  BY DEF HasDone, LogDraft
<1>1. CASE Worker(s) BY <1>0, <1>1, WorkerReplays
<1>2. CASE Rests(s) BY <1>0, <1>2, <1>s DEF Rests, Replays
<1>3. CASE Starts(s)
  BY <1>0, <1>3, <1>s DEF Starts, Replays, Silent, Talking
<1>4. CASE Dies(s)
  BY <1>0, <1>4, <1>s DEF Dies, Replays, Silent, Talking, Running, Live
<1> QED BY <1>1, <1>2, <1>3, <1>4, NextTurn

LEMMA InitReplays == Init => ReplayOK
<1> SUFFICES ASSUME Init, NEW r \in Requests PROVE Replays(r)
  BY DEF ReplayOK
<1> QED BY DEF Init, Replays, HasDone, Talking

LEMMA ReplayAlways == Spec => []ReplayOK
BY InitReplays, NextReplays, TypedAlways, OwnedAlways, LoggedAlways, PTL DEF Spec

\* Replaying the log of a finished turn gives the row that was saved, whatever
\* was cancelled, failed, retried or restarted on the way: the worker's
\* accumulated answer (worker.py) and the frames the browser applies (chat.ts)
\* are the same turn.
THEOREM ReplayIsRow == Spec => []LogReplaysRow
<1>1. SavedOK /\ ReplayOK => LogReplaysRow
  <2> SUFFICES ASSUME SavedOK, ReplayOK, NEW r \in Requests, HasDone(r),
                      mem[r].saved, row[r] # NoRow, r \notin clobbered
               PROVE  Shown(AsFrames(stream[r])) = row[r]
    BY DEF LogReplaysRow, HasDone
  <2>1. mem[r].status = "completed" /\ row[r] = RowOf(mem[r])
    BY DEF SavedOK, HasDone
  <2>2. LogDraft(r) = Word(mem[r], "completed") BY DEF ReplayOK, Replays
  <2> QED BY <2>1, <2>2 DEF LogDraft, Word, RowOf
<1> QED BY <1>1, SavedAlways, ReplayAlways, PTL

-----------------------------------------------------------------------------
(* Resuming a stream.                                                      *)

\* ResumeExact is not inductive: it rests on the browser having one connection
\* at a time, whose handler is where the browser is.  A POST follows only those
\* that were lost or refused, and only a POST that was sent can be lost.
InTurn ==
  /\ lost \subseteq {p \in Posts : post[p] # "idle"}
  /\ \A p, q \in Posts :
       p[1] = q[1] /\ p[2] < q[2] /\ post[q] # "idle" => p \in lost \/ post[p] = "failed"

AtCursor == \A p \in Posts \ lost : post[p] \notin Idle => at[p] = cursor[Req(p)]

\* The first n frames are those of the log, the others of a snapshot; until
\* there is a snapshot, the cursor counts the frames.
Reads(r, n) ==
  /\ \A i \in DOMAIN inbox[r] :
       IF i <= n THEN inbox[r][i].live /\ inbox[r][i].event = stream[r][i]
                 ELSE ~inbox[r][i].live
  /\ cursor[r] # SnapId => cursor[r] = n /\ Len(inbox[r]) = n
Applied == \A r \in Requests : \E n \in 0..Len(stream[r]) : Reads(r, n)

ResumeOK == InTurn /\ AtCursor /\ Applied

LEMMA PostParts ==
  \A p \in Posts : p = <<p[1], p[2]>> /\ p[1] \in Requests /\ p[2] \in 1..MaxAttempts
BY DEF Posts, Attempts

\* The browser never has two connections for one request.
LEMMA OneConnection ==
  ASSUME InTurn, NEW p \in Posts \ lost, NEW q \in Posts \ lost,
         post[p] \notin Idle, post[q] \notin Idle, Req(p) = Req(q)
  PROVE  p = q
<1>1. ~(p[2] < q[2]) /\ ~(q[2] < p[2])
  BY DEF InTurn, Idle, Req
<1>2. p[2] \in 1..MaxAttempts /\ q[2] \in 1..MaxAttempts
  BY PostParts
<1>3. p[2] = q[2] BY <1>1, <1>2, ChatAssumption
<1> QED BY <1>3, PostParts DEF Req

\* Handlers that go on, end or fail, and connections that break, keep the order.
LEMMA KeepsTurn ==
  ASSUME InTurn, lost \subseteq lost',
         lost' \subseteq {p \in Posts : post'[p] # "idle"},
         \A p \in Posts : /\ post'[p] # "idle" => post[p] # "idle"
                          /\ post[p] = "failed" => post'[p] = "failed"
  PROVE  InTurn'
BY DEF InTurn

LEMMA ArriveKeepsTurn ==
  ASSUME TInv, InTurn, NEW p \in Posts, PostArrive(p)
  PROVE  InTurn'
<1>1. PICK pc \in {"lookup", "failed"} : post' = [post EXCEPT ![p] = pc]
  BY DEF PostArrive, Step
<1>2. /\ post \in [Posts -> PostPcs] /\ post[p] = "idle" /\ lost' = lost
  BY DEF TInv, TypeOK, HandlersOK, PostArrive, MayAttempt
<1>3. \A q \in Posts : q # p => post'[q] = post[q]
  BY <1>1, <1>2
<1>4. post'[p] = pc /\ pc # "idle" BY <1>1, <1>2
<1>5. lost' \subseteq {q \in Posts : post'[q] # "idle"}
  BY <1>2, <1>3, <1>4 DEF InTurn
<1>6. ASSUME NEW s \in Posts, NEW q \in Posts, s[1] = q[1], s[2] < q[2],
             post'[q] # "idle"
      PROVE  s \in lost' \/ post'[s] = "failed"
  <2>1. CASE q # p
    <3>1. post[q] # "idle" BY <1>3, <1>6, <2>1
    <3>2. s \in lost \/ post[s] = "failed" BY <1>6, <3>1 DEF InTurn
    <3>3. post[s] = "failed" => post'[s] = "failed" BY <1>2, <1>3
    <3> QED BY <1>2, <3>2, <3>3
  <2>2. CASE q = p
    <3> DEFINE before == <<p[1], p[2] - 1>>
    <3>1. /\ p[2] \in 1..MaxAttempts /\ s[2] \in 1..MaxAttempts /\ MaxAttempts \in Nat
          /\ p[1] \in Requests /\ s = <<s[1], s[2]>>
      BY PostParts, ChatAssumption
    <3>2. p[2] > 1 /\ before \in Posts
      BY <1>6, <2>2, <3>1 DEF Posts, Attempts
    <3>3. before \in lost \/ post[before] = "failed"
      BY <3>2 DEF PostArrive, MayAttempt
    <3>4. CASE s = before
      <4>1. s # p BY <1>6, <2>2, <3>1
      <4> QED BY <1>2, <1>3, <3>3, <3>4, <4>1
    <3>5. CASE s # before
      <4>1. s[2] < before[2] /\ s[1] = before[1]
        BY <1>6, <2>2, <3>1, <3>5
      <4>2. post[before] # "idle" BY <3>2, <3>3 DEF InTurn
      <4>3. s \in lost \/ post[s] = "failed" BY <3>2, <4>1, <4>2 DEF InTurn
      <4>4. s # p BY <1>6, <2>2, <3>1
      <4> QED BY <1>2, <1>3, <4>3, <4>4
    <3> QED BY <3>4, <3>5
  <2> QED BY <2>1, <2>2
<1> QED BY <1>5, <1>6 DEF InTurn

\* The log grows at its end only.
Grows(r) ==
  /\ Len(stream[r]) \in Nat /\ Len(stream'[r]) \in Nat /\ Len(stream[r]) <= Len(stream'[r])
  /\ \A i \in 1..Len(stream[r]) : stream'[r][i] = stream[r][i]

LEMMA LogGrows ==
  ASSUME TInv, OwnerOK, [Next]_vars, NEW s \in Requests
  PROVE  Grows(s)
<1>1. stream \in [Requests -> Seq(Events)] /\ Len(stream[s]) \in Nat
  BY DEF TInv, TypeOK, StoresOK
<1>2. CASE stream'[s] = stream[s] BY <1>1, <1>2 DEF Grows
<1>3. ASSUME NEW r \in Requests, NEW e, stream' = [stream EXCEPT ![r] = Append(@, e)]
      PROVE  Grows(s)
  <2>1. CASE r # s BY <1>1, <1>2, <1>3, <2>1
  <2>2. CASE r = s
    <3>1. stream'[s] = Append(stream[s], e) BY <1>1, <1>3, <2>2
    <3>2. /\ Len(stream'[s]) = Len(stream[s]) + 1
          /\ \A i \in 1..Len(stream[s]) : stream'[s][i] = stream[s][i]
      BY <1>1, <3>1
    <3> QED BY <1>1, <3>2 DEF Grows
  <2> QED BY <2>1, <2>2
<1> QED BY <1>2, <1>3, NextSays DEF Quiet, SaysStart, SaysContent, SaysTerminal, Says

\* A log that grows is read as far as before.
LEMMA GrowthKeepsReads ==
  ASSUME NEW r \in Requests, Grows(r), NEW n \in 0..Len(stream[r]), Reads(r, n),
         cursor'[r] = cursor[r], inbox'[r] = inbox[r], inbox[r] \in Seq(Frames)
  PROVE  n \in 0..Len(stream'[r]) /\ Reads(r, n)'
<1>1. n \in 0..Len(stream'[r]) BY DEF Grows
<1>2. \A i \in DOMAIN inbox[r] : i <= n => stream'[r][i] = stream[r][i]
  BY DEF Grows
<1> QED BY <1>1, <1>2 DEF Reads

\* The frames of a snapshot are no stream frames.
Stills == {f \in Frames : ~f.live}

LEMMA SnapshotStill ==
  ASSUME NEW v \in RowData
  PROVE  /\ Snapshot(v) \in Seq(Stills)
         /\ \A n \in 1..(Len(Snapshot(v)) - 1) : SubSeq(Snapshot(v), 1, n) \in Seq(Stills)
<1> DEFINE F(e, n) == <<[event |-> e, n |-> n, live |-> FALSE]>>
<1>1. \A e \in Events \cup Statuses, n \in Int : F(e, n) \in Seq(Stills)
  BY DEF Frames, Stills
<1>2. SnapshotStatus(v.status) \in Events \cup Statuses
  BY DEF SnapshotStatus, RowData, Statuses, Events, Terminal
<1>3. F("start", 0) \in Seq(Stills) /\ F(SnapshotStatus(v.status), 0) \in Seq(Stills)
  <2>1. "start" \in Events \cup Statuses /\ 0 \in Int
    BY DEF Events
  <2> HIDE DEF F
  <2> QED BY <1>1, <1>2, <2>1
<1>4. F("step", v.steps) \in Seq(Stills) /\ F("text", v.text) \in Seq(Stills)
  <2>1. v.steps \in Int /\ v.text \in Int
    BY DEF RowData
  <2>2. "step" \in Events \cup Statuses /\ "text" \in Events \cup Statuses
    BY DEF Events, Content
  <2> HIDE DEF F
  <2> QED BY <1>1, <2>1, <2>2
<1>5. Snapshot(v) \in Seq(Stills)
  <2> HIDE DEF F
  <2>1. Snapshot(v) = F("start", 0) \o (IF v.steps > 0 THEN F("step", v.steps) ELSE <<>>)
                        \o (IF v.text # 0 THEN F("text", v.text) ELSE <<>>)
                        \o F(SnapshotStatus(v.status), 0)
    BY DEF Snapshot, F
  <2> QED BY <2>1, <1>3, <1>4
<1> QED BY <1>5

LEMMA DeliverReads ==
  ASSUME TInv, NEW p \in Posts, NEW frames \in Seq(Frames), NEW last,
         Deliver(p, frames, last)
  PROVE  /\ \A s \in Requests : s # Req(p) => inbox'[s] = inbox[s] /\ cursor'[s] = cursor[s]
         /\ cursor'[Req(p)] = last
         /\ inbox[Req(p)] \in Seq(Frames) /\ inbox'[Req(p)] \in Seq(Frames)
         /\ Len(inbox'[Req(p)]) = Len(inbox[Req(p)]) + Len(frames)
         /\ \A i \in 1..Len(inbox[Req(p)]) : inbox'[Req(p)][i] = inbox[Req(p)][i]
         /\ \A i \in 1..Len(frames) :
              inbox'[Req(p)][Len(inbox[Req(p)]) + i] = frames[i]
<1>1. /\ inbox \in [Requests -> Seq(Frames)] /\ Req(p) \in Requests
      /\ cursor \in [Requests -> Nat \cup {SnapId}]
  BY ReqType DEF TInv, TypeOK, BrowserOK
<1>2. /\ inbox'[Req(p)] = inbox[Req(p)] \o frames /\ cursor'[Req(p)] = last
      /\ \A s \in Requests : s # Req(p) => inbox'[s] = inbox[s] /\ cursor'[s] = cursor[s]
  BY <1>1 DEF Deliver
<1>3. inbox[Req(p)] \in Seq(Frames) BY <1>1
<1> QED BY <1>2, <1>3

LEMMA SnapshotReads ==
  ASSUME TInv, NEW p \in Posts, NEW frames \in Seq(Stills), Deliver(p, frames, SnapId),
         stream' = stream, cursor[Req(p)] \in Nat,
         NEW n \in 0..Len(stream[Req(p)]), Reads(Req(p), n)
  PROVE  Reads(Req(p), n)'
<1> DEFINE r == Req(p)
<1>f. frames \in Seq(Frames) /\ \A i \in 1..Len(frames) : ~frames[i].live
  BY DEF Stills
<1>1. /\ cursor'[r] = SnapId /\ inbox[r] \in Seq(Frames) /\ inbox'[r] \in Seq(Frames)
      /\ Len(inbox'[r]) = Len(inbox[r]) + Len(frames)
      /\ \A i \in 1..Len(inbox[r]) : inbox'[r][i] = inbox[r][i]
      /\ \A i \in 1..Len(frames) : inbox'[r][Len(inbox[r]) + i] = frames[i]
  BY <1>f, DeliverReads
<1> HIDE DEF r
<1>2. Len(inbox[r]) = n /\ n \in Nat BY DEF Reads, SnapId, r
<1>3. ASSUME NEW i \in DOMAIN inbox'[r]
      PROVE  IF i <= n THEN inbox'[r][i].live /\ inbox'[r][i].event = stream'[r][i]
                       ELSE ~inbox'[r][i].live
  <2>0. i \in 1..(n + Len(frames)) BY <1>1, <1>2
  <2>1. CASE i <= n
    <3>1. i \in DOMAIN inbox[r] /\ inbox'[r][i] = inbox[r][i]
      BY <1>1, <1>2, <2>0, <2>1
    <3>2. inbox[r][i].live /\ inbox[r][i].event = stream[r][i]
      BY <2>1, <3>1 DEF Reads, r
    <3> QED BY <2>1, <3>1, <3>2
  <2>2. CASE ~(i <= n)
    <3>1. i - n \in 1..Len(frames) /\ Len(inbox[r]) + (i - n) = i
      BY <1>f, <1>2, <2>0, <2>2
    <3>2. inbox'[r][i] = frames[i - n] BY <1>1, <3>1
    <3> QED BY <1>f, <2>2, <3>1, <3>2
  <2> QED BY <2>1, <2>2
<1> QED BY <1>1, <1>3 DEF Reads, r

LEMMA LiveReads ==
  ASSUME TInv, NEW p \in Posts, ReaderDeliver(p), at[p] = cursor[Req(p)],
         NEW n \in 0..Len(stream[Req(p)]), Reads(Req(p), n)
  PROVE  n + 1 \in 0..Len(stream'[Req(p)]) /\ Reads(Req(p), n + 1)'
<1>t. /\ Req(p) \in Requests /\ stream[Req(p)] \in Seq(Events) /\ at[p] \in Nat
  BY ReqType DEF TInv, TypeOK, StoresOK, HeldOK, ReaderDeliver
<1>f. PICK f \in Frames :
        f = [event |-> stream[Req(p)][at[p] + 1], n |-> 1, live |-> TRUE]
  <2>1. at[p] < Len(stream[Req(p)]) BY DEF ReaderDeliver
  <2>2. stream[Req(p)][at[p] + 1] \in Events BY <1>t, <2>1
  <2> DEFINE g == [event |-> stream[Req(p)][at[p] + 1], n |-> 1, live |-> TRUE]
  <2>3. g \in Frames BY <2>2 DEF Frames
  <2> QED BY <2>3
<1>1. /\ stream' = stream /\ at[p] < Len(stream[Req(p)])
      /\ Deliver(p, <<f>>, at[p] + 1)
  BY <1>f DEF ReaderDeliver
<1>2. /\ cursor[Req(p)] # SnapId /\ n = at[p] /\ Len(inbox[Req(p)]) = n
  BY <1>t DEF Reads, SnapId
<1>3. PICK frames \in Seq(Frames) : frames = <<f>>
  <2>1. <<f>> \in Seq(Frames) OBVIOUS
  <2> QED BY <2>1
<1>4. /\ cursor'[Req(p)] = at[p] + 1
      /\ inbox[Req(p)] \in Seq(Frames) /\ inbox'[Req(p)] \in Seq(Frames)
      /\ Len(inbox'[Req(p)]) = Len(inbox[Req(p)]) + Len(frames)
      /\ \A i \in 1..Len(inbox[Req(p)]) : inbox'[Req(p)][i] = inbox[Req(p)][i]
      /\ \A i \in 1..Len(frames) :
           inbox'[Req(p)][Len(inbox[Req(p)]) + i] = frames[i]
  <2>1. Deliver(p, frames, at[p] + 1) BY <1>1, <1>3
  <2> QED BY <2>1, DeliverReads
<1> DEFINE r == Req(p)
<1> HIDE DEF r
<1>5. /\ Len(inbox'[r]) = n + 1 /\ inbox'[r][n + 1] = f /\ n \in Nat
      /\ \A i \in 1..n : inbox'[r][i] = inbox[r][i]
  <2>1. Len(frames) = 1 /\ frames[1] = f BY <1>3
  <2> QED BY <1>2, <1>4, <2>1 DEF r
<1>6. ASSUME NEW i \in DOMAIN inbox'[r]
      PROVE  i <= n + 1 /\ inbox'[r][i].live /\ inbox'[r][i].event = stream'[r][i]
  <2>0. i \in 1..(n + 1) BY <1>4, <1>5 DEF r
  <2>1. CASE i = n + 1
    <3>1. f.live /\ f.event = stream[r][n + 1] BY <1>2, <1>f DEF r
    <3> QED BY <1>1, <1>5, <2>1, <3>1
  <2>2. CASE i \in 1..n
    <3>1. i \in DOMAIN inbox[r] /\ inbox'[r][i] = inbox[r][i]
      BY <1>2, <1>4, <1>5, <2>2 DEF r
    <3>2. inbox[r][i].live /\ inbox[r][i].event = stream[r][i]
      BY <2>2, <3>1 DEF Reads, r
    <3> QED BY <1>1, <2>2, <3>1, <3>2
  <2> QED BY <1>5, <2>0, <2>1, <2>2
<1>7. cursor'[r] = n + 1 /\ n + 1 \in 0..Len(stream'[r])
  BY <1>1, <1>2, <1>4, <1>5, <1>t DEF r
<1> QED BY <1>5, <1>6, <1>7 DEF Reads, r

LEMMA SameFramesApplied ==
  ASSUME TInv, OwnerOK, Applied, [Next]_vars, UNCHANGED webVars
  PROVE  Applied'
<1> SUFFICES ASSUME NEW r \in Requests
             PROVE  \E n \in 0..Len(stream'[r]) : Reads(r, n)'
  BY DEF Applied
<1>1. PICK n \in 0..Len(stream[r]) : Reads(r, n) BY DEF Applied
<1>2. inbox[r] \in Seq(Frames) BY DEF TInv, TypeOK, BrowserOK
<1>3. Grows(r) BY LogGrows
<1>4. n \in 0..Len(stream'[r]) /\ Reads(r, n)'
  BY <1>1, <1>2, <1>3, GrowthKeepsReads DEF webVars
<1> QED BY <1>4

\* A step that is no handler's.
LEMMA OthersResume ==
  ASSUME TInv, OwnerOK, ResumeOK, [Next]_vars, UNCHANGED <<httpVars, webVars>>
  PROVE  ResumeOK'
<1>1. Applied' BY SameFramesApplied DEF ResumeOK
<1>2. InTurn' /\ AtCursor'
  BY DEF ResumeOK, InTurn, AtCursor, httpVars, webVars
<1> QED BY <1>1, <1>2 DEF ResumeOK

\* A handler that goes on without sending a frame.
LEMMA MoveResumes ==
  ASSUME TInv, OwnerOK, ResumeOK, [Next]_vars, NEW p \in Posts, NEW pc,
         post[p] \notin Idle, pc # "idle", Step(p, pc),
         UNCHANGED <<at, lost, webVars>>
  PROVE  ResumeOK'
<1>1. post \in [Posts -> PostPcs] /\ post' = [post EXCEPT ![p] = pc]
  BY DEF TInv, TypeOK, HandlersOK, Step
<1>2. /\ \A q \in Posts : q # p => post'[q] = post[q]
      /\ post'[p] = pc
  BY <1>1
<1>3. Applied' BY SameFramesApplied DEF ResumeOK
<1>4. InTurn'
  <2>1. \A q \in Posts : /\ post'[q] # "idle" => post[q] # "idle"
                         /\ post[q] = "failed" => post'[q] = "failed"
    BY <1>2 DEF Idle
  <2>2. lost' \subseteq {q \in Posts : post'[q] # "idle"}
    BY <1>2 DEF ResumeOK, InTurn
  <2> QED BY <2>1, <2>2, KeepsTurn DEF ResumeOK
<1>5. AtCursor'
  BY <1>2 DEF ResumeOK, AtCursor, webVars
<1> QED BY <1>3, <1>4, <1>5 DEF ResumeOK

LEMMA ArriveResumes ==
  ASSUME TInv, OwnerOK, ResumeOK, [Next]_vars, NEW p \in Posts, PostArrive(p)
  PROVE  ResumeOK'
<1>1. InTurn' BY ArriveKeepsTurn DEF ResumeOK
<1>2. Applied' BY SameFramesApplied DEF ResumeOK, PostArrive
<1>3. /\ at \in [Posts -> Nat \cup {SnapId}] /\ post \in [Posts -> PostPcs]
      /\ at' = [at EXCEPT ![p] = cursor[Req(p)]] /\ cursor' = cursor /\ lost' = lost
  BY DEF TInv, TypeOK, HandlersOK, PostArrive, ResumeFrom, webVars
<1>4. \A q \in Posts : q # p => post'[q] = post[q]
  BY <1>3 DEF PostArrive, Step
<1>5. AtCursor' BY <1>3, <1>4 DEF ResumeOK, AtCursor
<1> QED BY <1>1, <1>2, <1>5 DEF ResumeOK

\* The connection breaks: the handler goes on, and no other one was connected.
LEMMA DropResumes ==
  ASSUME TInv, OwnerOK, ResumeOK, [Next]_vars, NEW p \in Posts, Drop(p)
  PROVE  ResumeOK'
<1>1. Applied' BY SameFramesApplied DEF ResumeOK, Drop
<1>2. post' = post /\ at' = at /\ cursor' = cursor /\ lost' = lost \cup {p}
      /\ post[p] \notin Idle
  BY DEF Drop, webVars
<1>3. InTurn'
  <2>1. lost' \subseteq {q \in Posts : post'[q] # "idle"}
    BY <1>2 DEF ResumeOK, InTurn, Idle
  <2> QED BY <1>2, <2>1, KeepsTurn DEF ResumeOK
<1>4. AtCursor' BY <1>2 DEF ResumeOK, AtCursor
<1> QED BY <1>1, <1>3, <1>4 DEF ResumeOK

LEMMA CrashResumes ==
  ASSUME TInv, OwnerOK, ResumeOK, [Next]_vars, Crash
  PROVE  ResumeOK'
<1>1. Applied' BY SameFramesApplied DEF ResumeOK, Crash
<1>2. /\ \A q \in Posts : post'[q] = IF post[q] \in Idle THEN post[q] ELSE "failed"
      /\ lost' = lost
  BY DEF Crash
<1>3. InTurn'
  <2>1. \A q \in Posts : /\ post'[q] # "idle" <=> post[q] # "idle"
                         /\ post[q] = "failed" => post'[q] = "failed"
    BY <1>2 DEF Idle
  <2>2. lost' \subseteq {q \in Posts : post'[q] # "idle"}
    BY <1>2, <2>1 DEF ResumeOK, InTurn
  <2> QED BY <1>2, <2>1, <2>2, KeepsTurn DEF ResumeOK
<1>4. AtCursor' BY <1>2 DEF AtCursor, Idle
<1> QED BY <1>1, <1>3, <1>4 DEF ResumeOK

\* A frame goes to the only connection there is.
LEMMA SendResumes ==
  ASSUME TInv, OwnerOK, ResumeOK, [Next]_vars, NEW p \in Posts, p \notin lost,
         post[p] \in {"check", "live"}, NEW pc, pc # "idle", Step(p, pc),
         lost \subseteq lost', lost' \subseteq lost \cup {p},
         NEW frames \in Seq(Frames), NEW last, Deliver(p, frames, last),
         pc \notin Idle /\ p \notin lost' => at'[p] = last,
         \A q \in Posts : q # p => at'[q] = at[q],
         \A n \in 0..Len(stream[Req(p)]) : Reads(Req(p), n) =>
           \E k \in 0..Len(stream'[Req(p)]) : Reads(Req(p), k)'
  PROVE  ResumeOK'
<1>1. post \in [Posts -> PostPcs] /\ post' = [post EXCEPT ![p] = pc]
  BY DEF TInv, TypeOK, HandlersOK, Step
<1>2. /\ \A q \in Posts : q # p => post'[q] = post[q]
      /\ post'[p] = pc /\ post[p] \notin Idle
  BY <1>1 DEF Idle
<1>3. /\ \A s \in Requests : s # Req(p) => inbox'[s] = inbox[s] /\ cursor'[s] = cursor[s]
      /\ cursor'[Req(p)] = last
  BY DeliverReads
<1>4. InTurn'
  <2>1. \A q \in Posts : /\ post'[q] # "idle" => post[q] # "idle"
                         /\ post[q] = "failed" => post'[q] = "failed"
    BY <1>2 DEF Idle
  <2>2. lost' \subseteq {q \in Posts : post'[q] # "idle"}
    BY <1>2 DEF ResumeOK, InTurn
  <2> QED BY <2>1, <2>2, KeepsTurn DEF ResumeOK
<1>5. AtCursor'
  <2> SUFFICES ASSUME NEW q \in Posts, q \notin lost', post'[q] \notin Idle
               PROVE  at'[q] = cursor'[Req(q)]
    BY DEF AtCursor
  <2>1. CASE q = p BY <1>2, <1>3, <2>1
  <2>2. CASE q # p
    <3>1. q \notin lost /\ post[q] \notin Idle BY <1>2, <2>2
    <3>2. Req(q) # Req(p) BY <1>2, <2>2, <3>1, OneConnection DEF ResumeOK
    <3>3. Req(q) \in Requests /\ at[q] = cursor[Req(q)]
      BY <3>1, ReqType DEF ResumeOK, AtCursor
    <3> QED BY <1>3, <2>2, <3>2, <3>3
  <2> QED BY <2>1, <2>2
<1>6. Applied'
  <2> SUFFICES ASSUME NEW r \in Requests
               PROVE  \E n \in 0..Len(stream'[r]) : Reads(r, n)'
    BY DEF Applied
  <2>1. PICK n \in 0..Len(stream[r]) : Reads(r, n) BY DEF ResumeOK, Applied
  <2>2. CASE r = Req(p) BY <2>1, <2>2
  <2>3. CASE r # Req(p)
    <3>1. inbox[r] \in Seq(Frames) BY DEF TInv, TypeOK, BrowserOK
    <3>2. Grows(r) BY LogGrows
    <3>3. n \in 0..Len(stream'[r]) /\ Reads(r, n)'
      BY <1>3, <2>1, <2>3, <3>1, <3>2, GrowthKeepsReads
    <3> QED BY <3>3
  <2> QED BY <2>2, <2>3
<1> QED BY <1>4, <1>5, <1>6 DEF ResumeOK

LEMMA CheckResumes ==
  ASSUME TInv, OwnerOK, ResumeOK, [Next]_vars, NEW p \in Posts, ReaderCheck(p)
  PROVE  ResumeOK'
<1>1. /\ post[p] = "check" /\ post[p] \notin Idle /\ at' = at /\ stream' = stream
      /\ view[p] \in RowData /\ at[p] \in Nat /\ Req(p) \in Requests
  BY ReqType DEF ReaderCheck, Idle, TInv, HeldOK
<1>2. CASE UNCHANGED <<lost, webVars>>
  <2>1. Step(p, "live") \/ Step(p, "end") BY DEF ReaderCheck
  <2> QED BY <1>1, <1>2, <2>1, MoveResumes
<1>3. ASSUME p \notin lost, Step(p, "end"), lost \subseteq lost',
             lost' \subseteq lost \cup {p},
             NEW frames \in Seq(Stills), Deliver(p, frames, SnapId)
      PROVE  ResumeOK'
  <2>1. frames \in Seq(Frames) BY DEF Stills
  <2>2. cursor[Req(p)] \in Nat
    BY <1>1, <1>3 DEF ResumeOK, AtCursor
  <2>3. ASSUME NEW n \in 0..Len(stream[Req(p)]), Reads(Req(p), n)
        PROVE  \E k \in 0..Len(stream'[Req(p)]) : Reads(Req(p), k)'
    <3>1. Reads(Req(p), n)' BY <1>1, <1>3, <2>2, <2>3, SnapshotReads
    <3> QED BY <1>1, <3>1
  <2>4. "end" \in Idle /\ "end" # "idle" BY DEF Idle
  <2> QED BY <1>1, <1>3, <2>1, <2>3, <2>4, SendResumes
<1>4. \/ UNCHANGED <<lost, webVars>>
      \/ /\ p \notin lost /\ lost' = lost /\ Step(p, "end")
         /\ Deliver(p, Snapshot(view[p]), SnapId)
      \/ /\ p \notin lost /\ lost' = lost \cup {p} /\ Step(p, "end")
         /\ \E n \in 1..(Len(Snapshot(view[p])) - 1) :
              Deliver(p, SubSeq(Snapshot(view[p]), 1, n), SnapId)
  BY DEF ReaderCheck
<1>5. /\ Snapshot(view[p]) \in Seq(Stills)
      /\ \A n \in 1..(Len(Snapshot(view[p])) - 1) :
           SubSeq(Snapshot(view[p]), 1, n) \in Seq(Stills)
  BY <1>1, SnapshotStill
<1> QED BY <1>2, <1>3, <1>4, <1>5

LEMMA SendLiveResumes ==
  ASSUME TInv, OwnerOK, ResumeOK, [Next]_vars, NEW p \in Posts, ReaderDeliver(p)
  PROVE  ResumeOK'
<1>1. /\ post[p] = "live" /\ p \notin lost /\ lost' = lost /\ stream' = stream
      /\ at[p] \in Nat /\ at \in [Posts -> Nat \cup {SnapId}] /\ Req(p) \in Requests
      /\ at' = [at EXCEPT ![p] = @ + 1] /\ stream[Req(p)] \in Seq(Events)
  BY ReqType DEF ReaderDeliver, TInv, TypeOK, HandlersOK, HeldOK, StoresOK
<1>2. at'[p] = at[p] + 1 /\ \A q \in Posts : q # p => at'[q] = at[q]
  BY <1>1
<1>3. at[p] = cursor[Req(p)] BY <1>1 DEF ResumeOK, AtCursor, Idle
<1>4. PICK frames \in Seq(Frames) : Deliver(p, frames, at[p] + 1)
  <2> DEFINE f == [event |-> stream[Req(p)][at[p] + 1], n |-> 1, live |-> TRUE]
  <2>1. at[p] < Len(stream[Req(p)]) /\ Deliver(p, <<f>>, at[p] + 1)
    BY DEF ReaderDeliver
  <2>2. stream[Req(p)][at[p] + 1] \in Events BY <1>1, <2>1
  <2>3. f \in Frames BY <2>2 DEF Frames
  <2>4. <<f>> \in Seq(Frames) BY <2>3
  <2> QED BY <2>1, <2>4
<1>5. PICK pc \in {"live", "end"} : Step(p, pc) BY DEF ReaderDeliver
<1>6. ASSUME NEW n \in 0..Len(stream[Req(p)]), Reads(Req(p), n)
      PROVE  \E k \in 0..Len(stream'[Req(p)]) : Reads(Req(p), k)'
  <2>1. n + 1 \in 0..Len(stream'[Req(p)]) /\ Reads(Req(p), n + 1)'
    BY <1>3, <1>6, LiveReads
  <2> QED BY <2>1
<1> QED BY <1>1, <1>2, <1>4, <1>5, <1>6, SendResumes

LEMMA HandlerResumes ==
  ASSUME TInv, OwnerOK, ResumeOK, [Next]_vars, NEW p \in Posts,
         Handler(p) \/ PostFails(p) \/ ReaderFails(p)
  PROVE  ResumeOK'
<1>1. ASSUME NEW pc, pc # "idle", Step(p, pc), post[p] \notin Idle,
             UNCHANGED <<at, lost, webVars>>
      PROVE  ResumeOK'
  BY <1>1, MoveResumes
<1>2. CASE PostLookup(p) BY <1>1, <1>2 DEF PostLookup, Idle
<1>3. CASE PostDecide(p)
  <2>1. Step(p, "user") \/ Step(p, "repair") \/ Step(p, "open")
    BY <1>3 DEF PostDecide
  <2> QED BY <1>1, <1>3, <2>1 DEF PostDecide, Idle
<1>4. CASE PostUser(p) BY <1>1, <1>4 DEF PostUser, Idle
<1>5. CASE PostAssistant(p) BY <1>1, <1>5 DEF PostAssistant, Idle
<1>6. CASE PostSpawn(p) BY <1>1, <1>6 DEF PostSpawn, Idle
<1>7. CASE PostRepair(p) BY <1>1, <1>7 DEF PostRepair, Idle
<1>8. CASE ReadInitial(p)
  <2>1. Step(p, "failed") \/ Step(p, "live") \/ Step(p, "check")
    BY <1>8 DEF ReadInitial
  <2> QED BY <1>1, <1>8, <2>1 DEF ReadInitial, Idle
<1>9. CASE ReaderCheck(p) BY <1>9, CheckResumes
<1>10. CASE ReaderDeliver(p) BY <1>10, SendLiveResumes
<1>11. CASE ReaderLeaves(p) BY <1>1, <1>11 DEF ReaderLeaves, Idle
<1>12. CASE PostFails(p) BY <1>1, <1>12 DEF PostFails, Idle
<1>13. CASE ReaderFails(p) BY <1>1, <1>13 DEF ReaderFails, Idle
<1> QED BY <1>2, <1>3, <1>4, <1>5, <1>6, <1>7, <1>8, <1>9, <1>10, <1>11,
           <1>12, <1>13 DEF Handler

LEMMA NextResumes == TInv /\ OwnerOK /\ ResumeOK /\ [Next]_vars => ResumeOK'
<1> SUFFICES ASSUME TInv, OwnerOK, ResumeOK, [Next]_vars
             PROVE  ResumeOK'
  OBVIOUS
<1>1. CASE UNCHANGED vars
  BY <1>1, OthersResume DEF vars, httpVars, webVars
<1>2. ASSUME NEW r \in Requests, Worker(r) \/ LateSave(r) PROVE ResumeOK'
  <2>1. UNCHANGED <<httpVars, webVars>>
    BY <1>2 DEF Worker, Begin, Published, PublishFails, RuntimeYields, RuntimeFails,
                RuntimeEnds, Save, Interrupt, LateSave, notWorker
  <2> QED BY <2>1, OthersResume
<1>3. ASSUME NEW p \in Posts,
             PostArrive(p) \/ Handler(p) \/ PostFails(p) \/ ReaderFails(p) \/ Drop(p)
      PROVE  ResumeOK'
  BY <1>3, ArriveResumes, HandlerResumes, DropResumes
<1>4. ASSUME NEW a \in Aborts, AbortArrive(a) \/ AbortLook(a) \/ AbortWrite(a)
      PROVE  ResumeOK'
  <2>1. UNCHANGED <<httpVars, webVars>>
    BY <1>4 DEF AbortArrive, AbortLook, AbortWrite
  <2> QED BY <2>1, OthersResume
<1>5. CASE Delete \/ Shutdown
  <2>1. UNCHANGED <<httpVars, webVars>> BY <1>5 DEF Delete, Shutdown, notWorker
  <2> QED BY <2>1, OthersResume
<1>6. CASE Crash BY <1>6, CrashResumes
<1> QED BY <1>1, <1>2, <1>3, <1>4, <1>5, <1>6 DEF Next

LEMMA InitResumes == Init => ResumeOK
<1> SUFFICES ASSUME Init PROVE ResumeOK
  OBVIOUS
<1>1. \A p \in Posts : post[p] = "idle" BY DEF Init
<1>2. lost = {} BY DEF Init
<1>3. InTurn BY <1>1, <1>2 DEF InTurn
<1>4. AtCursor BY <1>1 DEF AtCursor, Idle
<1>5. ASSUME NEW r \in Requests PROVE 0 \in 0..Len(stream[r]) /\ Reads(r, 0)
  <2>1. stream[r] = <<>> /\ inbox[r] = <<>> /\ cursor[r] = 0 BY DEF Init
  <2> QED BY <2>1 DEF Reads
<1>6. Applied BY <1>5 DEF Applied
<1> QED BY <1>3, <1>4, <1>6 DEF ResumeOK

\* The frames the browser applied over all its connections are the log from its
\* start, each once and in order, and after them those of a snapshot: with any
\* number of attempts, faults, crashes and broken connections.
THEOREM ResumeIsExact == Spec => []ResumeExact
<1>1. Spec => []ResumeOK
  BY InitResumes, NextResumes, TypedAlways, OwnedAlways, PTL DEF Spec
<1>2. ResumeOK => ResumeExact
  BY DEF ResumeOK, Applied, Reads, ResumeExact
<1> QED BY <1>1, <1>2, PTL

-----------------------------------------------------------------------------
(* Repairing a turn.                                                       *)

\* RetryRepairs holds where only crashes, deletions and broken connections
\* happen: an abort that finds the worker not yet begun, a failed publish of the
\* first event and a failed save each leave a connected turn "streaming".
OnlyStops == Aborts = {} /\ "broker" \notin Faults /\ "store" \notin Faults

\* The row is no longer open, or it is gone.
RowDone(r) == row[r] = NoRow \/ row[r].status # "streaming"

\* A worker is cancelled only while the process shuts down, when no handler
\* runs; a worker that may only publish has closed its row; what a handler
\* fetched tells of the row it will find.
DownOK ==
  /\ \A r \in Requests : cancel[r] => ~up
  /\ ~up => \A p \in Posts : post[p] \in Idle
LastOK == \A r \in Requests : task[r] = "last" => RowDone(r)
Knows(p) ==
  view[p] # NoRow =>
    /\ conv = "live" => row[Req(p)] # NoRow
    /\ view[p].status # "streaming" => RowDone(Req(p))
ViewOK == \A p \in Posts : Knows(p)

RepairOK == DownOK /\ LastOK /\ ViewOK /\ RetryRepairs

LEMMA DoneStays ==
  ASSUME TInv, SavedOK, [Next]_vars, NEW r \in Requests, RowDone(r), ~Inserts(r)
  PROVE  RowDone(r)'
<1>t. row \in [Requests -> RowData \cup {NoRow}] BY DEF TInv, TypeOK, StoresOK
<1>1. CASE SameTurns BY <1>1 DEF SameTurns, RowDone
<1>2. CASE Forgets BY <1>2 DEF Forgets, RowDone
<1>3. ASSUME NEW s \in Requests, Inserts(s) PROVE RowDone(r)'
  BY <1>t, <1>3 DEF Inserts, RowDone
<1>4. ASSUME NEW s \in Requests, Closes(s) PROVE RowDone(r)'
  <2>1. PICK d \in Settled : row' = [row EXCEPT ![s] = d] BY <1>4 DEF Closes, Overwrite
  <2> QED BY <1>t, <2>1 DEF RowDone, Settled
<1> QED BY <1>1, <1>2, <1>3, <1>4, NextRows

LEMMA RowStays ==
  ASSUME TInv, SavedOK, [Next]_vars, NEW r \in Requests,
         conv = "live" => row[r] # NoRow
  PROVE  conv' = "live" => row'[r] # NoRow
<1>t. row \in [Requests -> RowData \cup {NoRow}] BY DEF TInv, TypeOK, StoresOK
<1>1. CASE SameTurns BY <1>1 DEF SameTurns
<1>2. CASE Forgets BY <1>2 DEF Forgets
<1>3. ASSUME NEW s \in Requests, Inserts(s) PROVE conv' = "live" => row'[r] # NoRow
  BY <1>t, <1>3 DEF Inserts
<1>4. ASSUME NEW s \in Requests, Closes(s) PROVE conv' = "live" => row'[r] # NoRow
  <2>1. PICK d \in Settled : row' = [row EXCEPT ![s] = d] BY <1>4 DEF Closes, Overwrite
  <2>2. d # NoRow BY NoRowNotData DEF Settled
  <2> QED BY <1>t, <1>4, <2>1, <2>2 DEF Closes
<1> QED BY <1>1, <1>2, <1>3, <1>4, NextRows

LEMMA NextDown == OnlyStops /\ TInv /\ DownOK /\ [Next]_vars => DownOK'
<1> SUFFICES ASSUME OnlyStops, TInv, DownOK, [Next]_vars PROVE DownOK'
  OBVIOUS
<1>0. UNCHANGED <<cancel, post, up>> => DownOK' BY DEF DownOK
<1>p. UNCHANGED procVars => UNCHANGED up BY DEF procVars
<1>h. UNCHANGED notHttp => UNCHANGED <<cancel, up>> BY DEF notHttp, workVars, procVars
<1>w. UNCHANGED notWorker => UNCHANGED <<post, up>>
  BY DEF notWorker, httpVars, procVars
<1>1. CASE UNCHANGED vars BY <1>0, <1>1 DEF vars
<1>2. CASE \E r \in Requests : Worker(r) \/ LateSave(r)
  <2>1. UNCHANGED notWorker /\ \A r \in Requests : cancel'[r] => cancel[r]
    BY <1>2 DEF Worker, Begin, Published, PublishFails, RuntimeYields, RuntimeFails,
       RuntimeEnds, Save, Interrupt, LateSave, TInv, TypeOK, WorkersOK
  <2> QED BY <1>w, <2>1 DEF DownOK
<1>3. CASE \E p \in Posts : \/ PostArrive(p) \/ PostLookup(p) \/ PostDecide(p) \/ PostUser(p)
                            \/ PostAssistant(p) \/ PostSpawn(p) \/ PostRepair(p) \/ PostFails(p)
  <2>1. PICK p \in Posts : post[p] \notin Idle \/ up
    BY <1>3 DEF PostArrive, MayAttempt, PostLookup, PostDecide, PostUser, PostAssistant,
       PostSpawn, PostRepair, PostFails, Idle
  <2>2. up BY <2>1 DEF DownOK
  <2>3. UNCHANGED <<cancel, up>>
    BY <1>3, <1>h, <1>p DEF PostArrive, PostLookup, PostDecide, PostUser, PostAssistant,
       PostSpawn, PostRepair, PostFails
  <2> QED BY <2>2, <2>3 DEF DownOK
<1>4. CASE \E p \in Posts : \/ ReadInitial(p) \/ ReaderCheck(p) \/ ReaderDeliver(p)
                            \/ ReaderLeaves(p) \/ ReaderFails(p) \/ Drop(p)
  <2>1. PICK p \in Posts : post[p] \notin Idle
    BY <1>4 DEF ReadInitial, ReaderCheck, ReaderDeliver, ReaderLeaves, ReaderFails, Drop, Idle
  <2>2. up BY <2>1 DEF DownOK
  <2>3. UNCHANGED <<cancel, up>>
    BY <1>4, <1>h DEF ReadInitial, ReaderCheck, ReaderDeliver, ReaderLeaves, ReaderFails, Drop
  <2> QED BY <2>2, <2>3 DEF DownOK
<1>5. CASE Delete BY <1>0, <1>5, <1>w DEF Delete, workVars
<1>6. CASE Crash BY <1>6 DEF Crash, DownOK
<1>7. CASE Shutdown BY <1>7 DEF Shutdown, DownOK, httpVars
<1> QED BY <1>1, <1>2, <1>3, <1>4, <1>5, <1>6, <1>7 DEF Next, Handler, OnlyStops

\* A save that cannot fail closes the row, unless the row is gone.
LEMMA SaveCloses ==
  ASSUME OnlyStops, TInv, SavedOK, NEW r \in Requests, Save(r)
  PROVE  RowDone(r)'
<1>1. mem[r].status # "streaming" /\ row \in [Requests -> RowData \cup {NoRow}]
  BY DEF SavedOK, TInv, TypeOK, StoresOK
<1> QED BY <1>1 DEF Save, Overwrite, RowDone, RowOf, OnlyStops

LEMMA NextLast ==
  OnlyStops /\ TInv /\ OwnerOK /\ SavedOK /\ LastOK /\ [Next]_vars => LastOK'
<1> SUFFICES ASSUME OnlyStops, TInv, OwnerOK, SavedOK, LastOK, [Next]_vars,
                    NEW r \in Requests, task'[r] = "last"
             PROVE  RowDone(r)'
  BY DEF LastOK, RowDone
<1>t. task[r] \in WorkerPcs /\ task \in [Requests -> WorkerPcs]
  BY DEF TInv, TypeOK, WorkersOK
<1>1. CASE task[r] = "last"
  <2>1. RowDone(r) /\ ~Inserts(r) BY <1>1 DEF LastOK, OwnerOK, RowFirst, Inserts
  <2> QED BY <2>1, DoneStays
<1>2. CASE task[r] # "last"
  <2>1. Worker(r) BY <1>2, NextTurn DEF Rests, Starts, Dies
  <2>2. \A pc : Goto(r, pc) => pc = "last" BY <1>t DEF Goto
  <2>3. Save(r)
    BY <1>t, <2>1, <2>2 DEF Worker, Begin, Published, PublishFails, RuntimeYields,
       RuntimeFails, RuntimeEnds, Interrupt, AfterPublish, AfterFailure, AfterCancel, OnlyStops,
       Running, Live
  <2> QED BY <2>3, SaveCloses
<1> QED BY <1>1, <1>2

LEMMA KnowsStays ==
  ASSUME TInv, SavedOK, [Next]_vars, NEW p \in Posts, Knows(p), view'[p] = view[p]
  PROVE  Knows(p)'
<1>1. Req(p) \in Requests BY ReqType
<1>2. CASE view[p] = NoRow BY <1>2 DEF Knows
<1>3. CASE view[p] # NoRow
  <2>1. conv' = "live" => row'[Req(p)] # NoRow BY <1>1, <1>3, RowStays DEF Knows
  <2>2. ~Inserts(Req(p)) BY <1>3 DEF Knows, Inserts
  <2>3. view[p].status # "streaming" => RowDone(Req(p))'
    BY <1>1, <1>3, <2>2, DoneStays DEF Knows
  <2> QED BY <2>1, <2>3 DEF Knows, RowDone
<1> QED BY <1>2, <1>3

LEMMA NextViews == TInv /\ SavedOK /\ ViewOK /\ [Next]_vars => ViewOK'
<1> SUFFICES ASSUME TInv, SavedOK, ViewOK, [Next]_vars PROVE ViewOK'
  OBVIOUS
<1>t. /\ view \in [Posts -> RowData \cup {NoRow}] /\ row \in [Requests -> RowData \cup {NoRow}]
  BY DEF TInv, TypeOK, HandlersOK, StoresOK
<1>0. UNCHANGED view => ViewOK' BY KnowsStays DEF ViewOK
<1>p. ASSUME NEW p \in Posts, Knows(p)', \A q \in Posts : q # p => view'[q] = view[q]
      PROVE  ViewOK'
  BY <1>p, KnowsStays DEF ViewOK
<1>1. ASSUME NEW p \in Posts, PostLookup(p) PROVE ViewOK'
  <2>1. view'[p] = row[Req(p)] /\ \A q \in Posts : q # p => view'[q] = view[q]
    BY <1>t, <1>1 DEF PostLookup
  <2>2. Knows(p)' BY <1>1, <2>1 DEF PostLookup, dbVars, Knows, RowDone
  <2> QED BY <1>p, <2>1, <2>2
<1>2. ASSUME NEW p \in Posts, PostAssistant(p) PROVE ViewOK'
  <2>1. CASE UNCHANGED view BY <1>0, <2>1
  <2>2. CASE ~UNCHANGED view
    <3>1. /\ view' = [view EXCEPT ![p] = NewRow] /\ row' = [row EXCEPT ![Req(p)] = NewRow]
      BY <1>2, <2>2 DEF PostAssistant, InsertAssistant
    <3>2. view'[p] = NewRow /\ \A q \in Posts : q # p => view'[q] = view[q]
      BY <1>t, <3>1
    <3>3. row'[Req(p)] = NewRow /\ NewRow # NoRow /\ NewRow.status = "streaming"
      BY <1>t, <3>1, ReqType, NewRowData, NoRowNotData DEF NewRow
    <3>4. Knows(p)' BY <3>2, <3>3 DEF Knows
    <3> QED BY <1>p, <3>2, <3>4
  <2> QED BY <2>1, <2>2
<1>3. ASSUME NEW p \in Posts, PostRepair(p) PROVE ViewOK'
  <2>1. CASE UNCHANGED view BY <1>0, <2>1
  <2>2. CASE ~UNCHANGED view
    <3>1. PICK d \in RowData : /\ d.status = "error" /\ view' = [view EXCEPT ![p] = d]
                               /\ row' = [row EXCEPT ![Req(p)] = d]
      <4> DEFINE d == [view[p] EXCEPT !.status = "error"]
      <4>1. view[p] \in RowData BY <1>3 DEF PostRepair, TInv, HeldOK
      <4>2. d \in RowData /\ d.status = "error" BY <4>1 DEF RowData, Statuses
      <4>3. view' = [view EXCEPT ![p] = d] /\ row' = [row EXCEPT ![Req(p)] = d]
        BY <1>3, <2>2 DEF PostRepair, Overwrite
      <4> QED BY <4>2, <4>3
    <3>2. view'[p] = d /\ \A q \in Posts : q # p => view'[q] = view[q]
      BY <1>t, <3>1
    <3>3. row'[Req(p)] = d /\ d # NoRow BY <1>t, <3>1, ReqType, NoRowNotData
    <3>4. Knows(p)' BY <3>1, <3>2, <3>3 DEF Knows, RowDone
    <3> QED BY <1>p, <3>2, <3>4
  <2> QED BY <2>1, <2>2
<1>4. CASE UNCHANGED vars \/ Delete \/ Crash \/ Shutdown
  BY <1>0, <1>4 DEF vars, Delete, Crash, Shutdown, notWorker, httpVars
<1>5. CASE \E r \in Requests : Worker(r) \/ LateSave(r)
  <2>1. UNCHANGED notWorker
    BY <1>5 DEF Worker, Begin, Published, PublishFails, RuntimeYields, RuntimeFails,
       RuntimeEnds, Save, Interrupt, LateSave
  <2> QED BY <1>0, <2>1 DEF notWorker, httpVars
<1>6. CASE \E p \in Posts : \/ PostArrive(p) \/ PostDecide(p) \/ PostUser(p) \/ PostSpawn(p)
                            \/ PostFails(p) \/ ReadInitial(p) \/ ReaderCheck(p)
                            \/ ReaderDeliver(p) \/ ReaderLeaves(p) \/ ReaderFails(p) \/ Drop(p)
  BY <1>0, <1>6 DEF PostArrive, PostDecide, PostUser, PostSpawn, PostFails, ReadInitial,
     ReaderCheck, ReaderDeliver, ReaderLeaves, ReaderFails, Drop
<1>7. CASE \E a \in Aborts : AbortArrive(a) \/ AbortLook(a) \/ AbortWrite(a)
  BY <1>0, <1>7 DEF AbortArrive, AbortLook, AbortWrite, httpVars
<1> QED BY <1>1, <1>2, <1>3, <1>4, <1>5, <1>6, <1>7 DEF Next, Handler

\* Somebody sees to the turn of r, or nobody needs to.
Tended(r) ==
  RowDone(r) \/ Running(r) \/ \E p \in Posts : Req(p) = r /\ post[p] = "spawn"
Answering == {"open", "check", "live"}

LEMMA TendedIsRepaired ==
  RetryRepairs <=> \A p \in Posts : post[p] \in Answering => Tended(Req(p))
BY ReqType DEF RetryRepairs, Orphan, Tended, RowDone, Answering

LEMMA WorkerTends ==
  ASSUME OnlyStops, TInv, OwnerOK, SavedOK, DownOK, LastOK, [Next]_vars,
         NEW s \in Requests, Worker(s), NEW r \in Requests, Tended(r), up
  PROVE  Tended(r)'
<1>t. task \in [Requests -> WorkerPcs] BY DEF TInv, TypeOK, WorkersOK
<1>u. UNCHANGED notWorker
  BY DEF Worker, Begin, Published, PublishFails, RuntimeYields, RuntimeFails,
     RuntimeEnds, Save, Interrupt
<1>1. CASE RowDone(r)
  <2>1. ~Inserts(r)
    BY NoRowNotData, NewRowData, <1>t DEF Worker, Begin, Published, PublishFails,
       RuntimeYields, RuntimeFails, RuntimeEnds, Save, Interrupt, Inserts, dbVars, OwnerOK,
       RowFirst, Overwrite, TInv, TypeOK, StoresOK
  <2> QED BY <1>1, <2>1, DoneStays DEF Tended
<1>2. CASE \E p \in Posts : Req(p) = r /\ post[p] = "spawn"
  BY <1>2, <1>u DEF Tended, notWorker, httpVars
<1>3. CASE Running(r) /\ s # r
  BY <1>3, WorkerElsewhere DEF Rests, Tended, Running
<1>4. CASE Running(r) /\ s = r
  <2>1. CASE Save(r) BY <2>1, SaveCloses DEF Tended
  <2>2. CASE task[r] = "last"
    <3>1. RowDone(r) /\ ~Inserts(r) BY <2>2 DEF LastOK, OwnerOK, RowFirst, Inserts
    <3> QED BY <3>1, DoneStays DEF Tended
  <2>3. CASE ~Save(r) /\ task[r] # "last"
    <3>1. ~cancel[r] BY DEF DownOK
    <3>2. \A pc : Goto(r, pc) => task'[r] = pc BY <1>t DEF Goto
    <3>3. Begin(r) \/ Published(r) \/ RuntimeYields(r) \/ RuntimeFails(r) \/ RuntimeEnds(r)
      BY <1>4, <2>3, <3>1 DEF Worker, PublishFails, Interrupt, OnlyStops
    <3>4. task'[r] \in Live
      <4>1. CASE Begin(r) BY <3>2, <4>1 DEF Begin, Live
      <4>2. CASE Published(r)
        <5>1. task[r] \in DOMAIN AfterPublish /\ task'[r] = AfterPublish[task[r]]
          BY <3>2, <4>2 DEF Published
        <5> QED BY <2>3, <5>1 DEF AfterPublish, Live
      <4>3. CASE RuntimeYields(r) BY <3>2, <4>3 DEF RuntimeYields, Live
      <4>4. CASE RuntimeFails(r) BY <3>2, <4>4 DEF RuntimeFails, Live
      <4>5. CASE RuntimeEnds(r) BY <3>2, <4>5 DEF RuntimeEnds, Live
      <4> QED BY <3>3, <4>1, <4>2, <4>3, <4>4, <4>5
    <3> QED BY <3>4 DEF Tended, Running
  <2> QED BY <2>1, <2>2, <2>3
<1> QED BY <1>1, <1>2, <1>3, <1>4 DEF Tended

\* The worker and the row are left alone, and so is every handler about to
\* start a worker.
LEMMA StillTended ==
  ASSUME TInv, SavedOK, [Next]_vars, NEW r \in Requests, Tended(r), ~Inserts(r),
         UNCHANGED task, \A p \in Posts : post[p] = "spawn" => post'[p] = "spawn"
  PROVE  Tended(r)'
BY DoneStays DEF Tended, Running

LEMMA HandlerTends ==
  ASSUME OnlyStops, TInv, OwnerOK, SavedOK, [Next]_vars, NEW p \in Posts,
         PostArrive(p) \/ Handler(p) \/ PostFails(p) \/ ReaderFails(p) \/ Drop(p),
         NEW r \in Requests, Tended(r)
  PROVE  Tended(r)'
<1>t. /\ post \in [Posts -> PostPcs] /\ task \in [Requests -> WorkerPcs]
      /\ row \in [Requests -> RowData \cup {NoRow}]
  BY DEF TInv, TypeOK, HandlersOK, WorkersOK, StoresOK
<1>h. UNCHANGED notHttp => UNCHANGED task BY DEF notHttp, workVars
<1>s. ASSUME post[p] # "spawn", NEW pc, Step(p, pc) \/ UNCHANGED post
      PROVE  \A q \in Posts : post[q] = "spawn" => post'[q] = "spawn"
  BY <1>t, <1>s DEF Step
<1>1. CASE PostSpawn(p)
  <2>1. task[Req(p)] = "none" /\ Req(p) \in Requests
    BY <1>1, ReqType DEF PostSpawn, OwnerOK, RowFirst
  <2>2. task' = [task EXCEPT ![Req(p)] = "scheduled"] /\ UNCHANGED dbVars /\ Step(p, "open")
    BY <1>1, <2>1 DEF PostSpawn, Running, Live, Goto
  <2>3. CASE r = Req(p) BY <1>t, <2>1, <2>2, <2>3 DEF Tended, Running, Live
  <2>4. CASE r # Req(p)
    <3>1. task'[r] = task[r] /\ row'[r] = row[r] BY <1>t, <2>2, <2>4 DEF dbVars
    <3>2. \A q \in Posts : Req(q) = r => post'[q] = post[q]
      BY <1>t, <2>2, <2>4 DEF Step
    <3> QED BY <3>1, <3>2 DEF Tended, Running, RowDone
  <2> QED BY <2>3, <2>4
<1>2. CASE PostAssistant(p)
  <2>1. UNCHANGED task /\ post[p] # "spawn" BY <1>2, <1>h DEF PostAssistant
  <2>2. CASE UNCHANGED row
    <3>1. Step(p, "spawn") \/ Step(p, "failed") BY <1>2 DEF PostAssistant
    <3>2. \A q \in Posts : post[q] = "spawn" => post'[q] = "spawn" BY <1>s, <2>1, <3>1
    <3> QED BY <2>1, <2>2, <3>2 DEF Tended, Running, RowDone
  <2>3. CASE ~UNCHANGED row
    <3>1. row' = [row EXCEPT ![Req(p)] = NewRow] /\ Step(p, "spawn")
      BY <1>2, <2>3 DEF PostAssistant, InsertAssistant
    <3>2. \A q \in Posts : post[q] = "spawn" => post'[q] = "spawn" BY <1>s, <2>1, <3>1
    <3>3. CASE r = Req(p) BY <1>t, <3>1, <3>3 DEF Tended, Step
    <3>4. CASE r # Req(p)
      <4>1. row'[r] = row[r] BY <1>t, <3>1, <3>4
      <4> QED BY <2>1, <3>2, <4>1 DEF Tended, Running, RowDone
    <3> QED BY <3>3, <3>4
  <2> QED BY <2>2, <2>3
<1>3. CASE PostRepair(p)
  <2>1. UNCHANGED task /\ post[p] # "spawn" BY <1>3, <1>h DEF PostRepair
  <2>2. ~Inserts(r)
    <3> DEFINE d == [view[p] EXCEPT !.status = "error"]
    <3>0. \/ UNCHANGED <<row, clobbered>>
          \/ row[Req(p)] # NoRow /\ Overwrite(Req(p), d)
      BY <1>3 DEF PostRepair
    <3> HIDE DEF d
    <3>2. row[r] = NoRow => row'[r] = NoRow
      <4>1. CASE UNCHANGED <<row, clobbered>> BY <4>1
      <4>2. CASE row[Req(p)] # NoRow /\ Overwrite(Req(p), d)
        <5>1. row' = [row EXCEPT ![Req(p)] = d] BY <4>2 DEF Overwrite
        <5> QED BY <1>t, <4>2, <5>1
      <4> QED BY <3>0, <4>1, <4>2
    <3> QED BY <1>t, <3>2, NewRowData, NoRowNotData DEF Inserts
  <2>3. Step(p, "open") \/ Step(p, "failed") BY <1>3 DEF PostRepair
  <2> QED BY <1>s, <2>1, <2>2, <2>3, StillTended
<1>4. CASE \/ PostArrive(p) \/ PostLookup(p) \/ PostDecide(p) \/ PostUser(p)
           \/ ReadInitial(p) \/ ReaderCheck(p) \/ ReaderDeliver(p) \/ ReaderLeaves(p)
           \/ ReaderFails(p)
  <2>1. UNCHANGED <<task, row>> /\ post[p] # "spawn"
    BY <1>4, <1>h DEF PostArrive, MayAttempt, PostLookup, PostDecide, PostUser, ReadInitial,
       ReaderCheck, ReaderDeliver, ReaderLeaves, ReaderFails, dbVars
  <2>2. \E pc : Step(p, pc) \/ UNCHANGED post
    BY <1>4 DEF PostArrive, PostLookup, PostDecide, PostUser, ReadInitial, ReaderCheck,
       ReaderDeliver, ReaderLeaves, ReaderFails
  <2>3. \A q \in Posts : post[q] = "spawn" => post'[q] = "spawn" BY <1>s, <2>1, <2>2
  <2> QED BY <2>1, <2>3 DEF Tended, Running, RowDone
<1>5. CASE Drop(p)
  BY <1>5, <1>h DEF Drop, dbVars, Tended, Running, RowDone
<1> QED BY <1>1, <1>2, <1>3, <1>4, <1>5 DEF Handler, PostFails, OnlyStops

\* A handler comes to its response.
LEMMA AnswerIsTended ==
  ASSUME OnlyStops, TInv, OwnerOK, SavedOK, ViewOK, [Next]_vars, NEW p \in Posts,
         post[p] \notin Answering, post'[p] \in Answering
  PROVE  Tended(Req(p))'
<1>t. /\ post \in [Posts -> PostPcs] /\ task \in [Requests -> WorkerPcs]
      /\ row \in [Requests -> RowData \cup {NoRow}] /\ Req(p) \in Requests
  BY ReqType DEF TInv, TypeOK, HandlersOK, WorkersOK, StoresOK
<1>s. \A q \in Posts : \A pc : Step(q, pc) => post'[p] = IF q = p THEN pc ELSE post[p]
  BY <1>t DEF Step
<1>1. CASE UNCHANGED post BY <1>1
<1>2. CASE Crash BY <1>2 DEF Crash, Answering, Idle
<1>3. ASSUME NEW q \in Posts,
             PostArrive(q) \/ Handler(q) \/ PostFails(q) \/ ReaderFails(q) \/ Drop(q)
      PROVE  Tended(Req(p))'
  <2>1. CASE PostSpawn(q)
    <3>1. p = q BY <1>s, <2>1 DEF PostSpawn
    <3>2. task[Req(p)] = "none"
      BY <2>1, <3>1 DEF PostSpawn, OwnerOK, RowFirst
    <3>3. task' = [task EXCEPT ![Req(p)] = "scheduled"]
      BY <2>1, <3>1, <3>2 DEF PostSpawn, Running, Live, Goto
    <3> QED BY <1>t, <3>3 DEF Tended, Running, Live
  <2>2. CASE PostRepair(q)
    <3>1. p = q BY <1>s, <2>2 DEF PostRepair
    <3>2. row[Req(p)] # NoRow
      BY <1>s, <2>2, <3>1 DEF PostRepair, Answering
    <3> DEFINE d == [view[p] EXCEPT !.status = "error"]
    <3>3. d.status = "error" BY <2>2, <3>1 DEF PostRepair, TInv, HeldOK, RowData
    <3>4. row' = [row EXCEPT ![Req(p)] = d] BY <2>2, <3>1, <3>2 DEF PostRepair, Overwrite
    <3> QED BY <1>t, <3>3, <3>4 DEF Tended, RowDone
  <2>3. CASE PostDecide(q)
    <3>1. p = q BY <1>s, <2>3 DEF PostDecide
    <3>2. view[p] # NoRow /\ (view[p].status # "streaming" \/ Running(Req(p)))
      BY <1>s, <2>3, <3>1 DEF PostDecide, Answering
    <3>3. UNCHANGED <<row, task>> BY <2>3 DEF PostDecide, dbVars, notHttp, workVars
    <3>4. RowDone(Req(p)) \/ Running(Req(p)) BY <3>2 DEF ViewOK, Knows
    <3> QED BY <3>3, <3>4 DEF Tended, RowDone, Running
  <2>4. CASE \/ PostArrive(q) \/ PostLookup(q) \/ PostUser(q) \/ PostAssistant(q)
             \/ PostFails(q) \/ ReaderFails(q) \/ Drop(q) \/ ReaderLeaves(q)
    <3>1. \E pc : (pc \notin Answering /\ Step(q, pc)) \/ UNCHANGED post
      BY <2>4 DEF PostArrive, PostLookup, PostUser, PostAssistant, PostFails, ReaderFails,
         Drop, ReaderLeaves, Answering
    <3> QED BY <1>s, <3>1
  <2>5. CASE ReadInitial(q) \/ ReaderCheck(q) \/ ReaderDeliver(q)
    <3>1. post[q] \in Answering BY <2>5 DEF ReadInitial, ReaderCheck, ReaderDeliver, Answering
    <3>2. \E pc : Step(q, pc) BY <2>5 DEF ReadInitial, ReaderCheck, ReaderDeliver
    <3> QED BY <1>s, <3>1, <3>2
  <2> QED BY <1>3, <2>1, <2>2, <2>3, <2>4, <2>5 DEF Handler
<1>4. CASE UNCHANGED vars \/ Delete \/ Shutdown \/ (\E r \in Requests : Worker(r) \/ LateSave(r))
  <2>1. UNCHANGED httpVars
    BY <1>4 DEF vars, Delete, Shutdown, notWorker, Worker, Begin, Published, PublishFails,
       RuntimeYields, RuntimeFails, RuntimeEnds, Save, Interrupt, LateSave, httpVars
  <2> QED BY <1>1, <2>1 DEF httpVars
<1> QED BY <1>2, <1>3, <1>4 DEF Next, OnlyStops

LEMMA NextTends ==
  OnlyStops /\ TInv /\ OwnerOK /\ SavedOK /\ RepairOK /\ [Next]_vars => RetryRepairs'
<1> SUFFICES ASSUME OnlyStops, TInv, OwnerOK, SavedOK, RepairOK, [Next]_vars,
                    NEW p \in Posts, post'[p] \in Answering
             PROVE  Tended(Req(p))'
  BY ReqType DEF RetryRepairs, Orphan, Tended, RowDone, Answering, Running
<1> USE DEF RepairOK
<1>1. CASE post[p] \notin Answering BY <1>1, AnswerIsTended
<1>2. CASE post[p] \in Answering
  <2>r. Req(p) \in Requests /\ Tended(Req(p)) /\ up
    BY <1>2, ReqType, TendedIsRepaired DEF DownOK, Answering, Idle
  <2>1. CASE UNCHANGED vars BY <2>1, <2>r DEF vars, Tended, RowDone, Running
  <2>2. CASE \E r \in Requests : Worker(r) BY <2>2, <2>r, WorkerTends
  <2>3. CASE \E r \in Requests : LateSave(r)
    <3>1. UNCHANGED <<task, post>> BY <2>3 DEF LateSave, notWorker, httpVars
    <3>2. ~Inserts(Req(p))
      BY <2>3, <2>r, NoRowNotData, NewRowData DEF LateSave, Inserts, Overwrite, TInv, TypeOK,
         StoresOK, WorkersOK
    <3> QED BY <2>r, <3>1, <3>2, StillTended
  <2>4. CASE \E q \in Posts : PostArrive(q) \/ Handler(q) \/ PostFails(q) \/ ReaderFails(q) \/ Drop(q)
    BY <2>4, <2>r, HandlerTends
  <2>5. CASE Delete BY <2>5, <2>r DEF Delete, Tended, RowDone
  <2>6. CASE Crash BY <1>2, <2>6 DEF Crash, Answering, Idle
  <2>7. CASE Shutdown BY <1>2, <2>7 DEF Shutdown, Answering, Idle
  <2> QED BY <2>1, <2>2, <2>3, <2>4, <2>5, <2>6, <2>7 DEF Next, OnlyStops
<1> QED BY <1>1, <1>2

LEMMA InitRepairs == Init => RepairOK
<1> SUFFICES ASSUME Init PROVE RepairOK
  OBVIOUS
<1>1. DownOK BY DEF Init, DownOK
<1>2. LastOK BY DEF Init, LastOK
<1>3. ViewOK BY DEF Init, ViewOK, Knows
<1>4. RetryRepairs BY DEF Init, RetryRepairs
<1> QED BY <1>1, <1>2, <1>3, <1>4 DEF RepairOK

\* With any number of crashes, shutdowns, deletions and broken connections, a
\* POST that has come to its response leaves no turn open that nobody works on.
THEOREM RetryIsRepair ==
  ASSUME Aborts = {}, "broker" \notin Faults, "store" \notin Faults
  PROVE  Spec => []RetryRepairs
<1>1. OnlyStops BY DEF OnlyStops
<1>2. TInv /\ OwnerOK /\ SavedOK /\ RepairOK /\ [Next]_vars => RepairOK'
  BY <1>1, NextDown, NextLast, NextViews, NextTends DEF RepairOK
<1>3. Spec => []RepairOK
  BY <1>2, InitRepairs, TypedAlways, OwnedAlways, SavedAlways, PTL DEF Spec
<1>4. RepairOK => RetryRepairs BY DEF RepairOK
<1> QED BY <1>3, <1>4, PTL

-----------------------------------------------------------------------------
(* The verdict of a turn.                                                  *)

\* VerdictAgrees holds while the stores work, the process stays up and a turn
\* is aborted at most once: a save that fails, or a crash before it, leaves the
\* row open under a closed log, and a second abort that interrupts the publish
\* of "aborted" has the log say "error" after it.
Steady == {"broker", "store", "crash"} \cap Faults = {}
OneAbortEach ==
  \A a, b \in Aborts : abort[a].req = abort[b].req => a = b

\* The turn's abort was called, and delivered.
Called(r) == \A a \in Aborts : abort[a].req = r => abort[a].pc # "idle"
Spent(r)  == ~cancel[r] /\ Called(r)

LastWord(r) == stream[r][Len(stream[r])]

\* The worker's status from the loop to the end, and what the log says of it.
Tells(r) ==
  /\ task[r] \in {"scheduled", "start", "loop", "emit"} =>
       mem[r].status = "completed" /\ ~mem[r].told
  /\ task[r] \in {"rterr", "exc"} =>
       mem[r].status = "error" /\ ~mem[r].told /\ ~Closed(r)
  /\ task[r] = "abt" => mem[r].status = "aborted" /\ ~mem[r].told /\ Spent(r)
  /\ task[r] \in {"save", "last"} /\ ~mem[r].told => mem[r].status \in {"completed", "error"}
  /\ task[r] = "last" => ~mem[r].told
  /\ task[r] \in {"save", "last", "ended"} /\ Closed(r) =>
       LastWord(r) = SnapshotStatus(mem[r].status)

\* The row, once the worker is over, and the save that outlived it.
Keeps(r) ==
  /\ late[r] # NoLate => task[r] = "ended" /\ late[r].status = mem[r].status
  /\ /\ task[r] = "last" \/ (task[r] = "ended" /\ Closed(r))
     /\ late[r] = NoLate /\ row[r] # NoRow /\ r \notin clobbered
     => row[r].status = mem[r].status

VerdictOK ==
  /\ OneAbortEach
  /\ \A r \in Requests : (cancel[r] => Called(r)) /\ Tells(r) /\ Keeps(r)

\* What one more event does to the last word and to the end of a log.
LEMMA LastSaid ==
  ASSUME TInv, NEW r \in Requests, NEW e \in Events, Says(r, e)
  PROVE  /\ LastWord(r)' = e
         /\ Closed(r)' => Closed(r) \/ e \in Terminal
<1>1. /\ stream \in [Requests -> Seq(Events)]
      /\ stream' = [stream EXCEPT ![r] = Append(stream[r], e)]
  BY DEF TInv, TypeOK, StoresOK, Says
<1>2. stream[r] \in Seq(Events) /\ stream'[r] = Append(stream[r], e) BY <1>1
<1>3. LastWord(r)' = e BY <1>2 DEF LastWord
<1>4. ASSUME Closed(r)', e \notin Terminal PROVE Closed(r)
  <2>1. PICK i \in 1..(Len(stream[r]) + 1) : stream'[r][i] \in Terminal
    BY <1>4, SaysLog DEF Closed
  <2>2. i \in 1..Len(stream[r]) /\ stream[r][i] \in Terminal
    BY <1>4, <2>1, SaysLog
  <2> QED BY <2>2, SaysLog DEF Closed
<1> QED BY <1>3, <1>4

\* A call of the abort endpoint is made once, for one turn.
LEMMA CalledStays ==
  ASSUME TInv, [Next]_vars
  PROVE  /\ \A a \in Aborts : abort'[a].req = abort[a].req
         /\ \A r \in Requests : Called(r) => Called(r)'
<1>t. abort \in [Aborts -> AbortData] BY DEF TInv, TypeOK, HandlersOK
<1>s. ASSUME \A a \in Aborts : abort'[a].req = abort[a].req
                            /\ (abort[a].pc # "idle" => abort'[a].pc # "idle")
      PROVE  /\ \A a \in Aborts : abort'[a].req = abort[a].req
             /\ \A r \in Requests : Called(r) => Called(r)'
  BY <1>s DEF Called
<1>1. CASE UNCHANGED abort BY <1>1, <1>s
<1>2. CASE \E a \in Aborts : AbortArrive(a) \/ AbortLook(a) \/ AbortWrite(a)
  <2>1. PICK a \in Aborts : AbortArrive(a) \/ AbortLook(a) \/ AbortWrite(a) BY <1>2
  <2>2. \A b \in Aborts : b # a => abort'[b] = abort[b]
    BY <1>t, <2>1 DEF AbortArrive, AbortLook, AbortWrite
  <2>3. abort'[a].req = abort[a].req /\ abort'[a].pc # "idle"
    BY <1>t, <2>1 DEF AbortArrive, AbortLook, AbortWrite, AbortData
  <2> QED BY <1>s, <2>2, <2>3
<1>3. CASE Crash
  BY <1>s, <1>t, <1>3 DEF Crash, Idle, AbortData
<1>4. CASE UNCHANGED vars \/ Delete \/ Shutdown \/ (\E r \in Requests : Worker(r) \/ LateSave(r))
  BY <1>1, <1>4 DEF vars, Delete, Shutdown, notWorker, Worker, Begin, Published, PublishFails,
     RuntimeYields, RuntimeFails, RuntimeEnds, Save, Interrupt, LateSave
<1>5. CASE \E p \in Posts : PostArrive(p) \/ Handler(p) \/ PostFails(p) \/ ReaderFails(p) \/ Drop(p)
  BY <1>1, <1>5 DEF PostArrive, Handler, PostLookup, PostDecide, PostUser, PostAssistant,
     PostSpawn, PostRepair, PostFails, ReadInitial, ReaderCheck, ReaderDeliver, ReaderLeaves,
     ReaderFails, Drop, notHttp
<1> QED BY <1>2, <1>3, <1>4, <1>5 DEF Next

\* A worker is cancelled by its turn's abort only.
LEMMA CancelComes ==
  ASSUME Steady, TInv, OneAbortEach, [Next]_vars, NEW r \in Requests,
         cancel[r] => Called(r), cancel'[r]
  PROVE  Called(r)' /\ ~Spent(r)
<1>t. /\ cancel \in [Requests -> BOOLEAN] /\ abort \in [Aborts -> AbortData]
  BY DEF TInv, TypeOK, WorkersOK, HandlersOK
<1>1. CASE cancel[r] BY <1>1, CalledStays DEF Spent
<1>2. CASE ~cancel[r]
  <2>1. \E a \in Aborts : AbortArrive(a)
    <3>1. cancel' # cancel BY <1>2
    <3>2. ~UNCHANGED vars BY <3>1 DEF vars
    <3>3. ~(\E s \in Requests : Worker(s) \/ LateSave(s))
      BY <1>t, <1>2, <3>1 DEF Worker, Begin, Published, PublishFails, RuntimeYields,
         RuntimeFails, RuntimeEnds, Save, Interrupt, LateSave
    <3>4. ~(\E p \in Posts : PostArrive(p) \/ Handler(p) \/ PostFails(p) \/ ReaderFails(p) \/ Drop(p))
      BY <3>1 DEF PostArrive, Handler, PostLookup, PostDecide, PostUser, PostAssistant,
         PostSpawn, PostRepair, PostFails, ReadInitial, ReaderCheck, ReaderDeliver,
         ReaderLeaves, ReaderFails, Drop, notHttp, workVars
    <3>5. ~(\E a \in Aborts : AbortLook(a) \/ AbortWrite(a)) /\ ~Delete
      BY <3>1 DEF AbortLook, AbortWrite, Delete, workVars
    <3>6. ~Crash /\ ~Shutdown BY DEF Crash, Shutdown, Steady
    <3> QED BY <3>2, <3>3, <3>4, <3>5, <3>6 DEF Next
  <2>2. PICK a \in Aborts : AbortArrive(a) BY <2>1
  <2>3. abort[a].req = r /\ abort[a].pc = "idle"
    BY <1>t, <1>2, <2>2 DEF AbortArrive
  <2>4. abort'[a].pc # "idle" BY <1>t, <2>2 DEF AbortArrive, AbortData
  <2>5. \A b \in Aborts : abort'[b].req = r => b = a
    BY <2>3, CalledStays DEF OneAbortEach
  <2> QED BY <2>3, <2>4, <2>5 DEF Called, Spent
<1> QED BY <1>1, <1>2

LEMMA SpentStays ==
  ASSUME Steady, TInv, OneAbortEach, [Next]_vars, NEW r \in Requests,
         cancel[r] => Called(r), Spent(r)
  PROVE  Spent(r)'
<1>1. ~cancel'[r] BY CancelComes
<1>2. Called(r)' BY CalledStays DEF Spent
<1> QED BY <1>1, <1>2 DEF Spent

\* A worker that goes on without a word.
LEMMA SilentTells ==
  ASSUME Steady, TInv, LogOK, NEW r \in Requests, Tells(r), Keeps(r),
         Begin(r) \/ RuntimeYields(r) \/ RuntimeFails(r) \/ RuntimeEnds(r)
  PROVE  Tells(r)' /\ Keeps(r)'
<1>t. /\ mem[r] \in Locals /\ task \in [Requests -> WorkerPcs]
      /\ mem \in [Requests -> Locals]
  BY DEF TInv, TypeOK, WorkersOK
<1>0. late[r] = NoLate /\ UNCHANGED <<late, stream>>
  BY DEF Keeps, Begin, RuntimeYields, RuntimeFails, RuntimeEnds
<1>c. Closed(r)' <=> Closed(r) BY <1>0 DEF Closed
<1>1. CASE Begin(r)
  <2>1. task[r] = "scheduled" /\ task'[r] = "start" /\ UNCHANGED mem
    BY <1>t, <1>1 DEF Begin, Goto
  <2> QED BY <1>0, <2>1 DEF Tells, Keeps
<1>2. CASE RuntimeYields(r)
  <2>1. PICK e \in Content : mem'[r] = Accumulate(mem[r], e)
    BY <1>t, <1>2 DEF RuntimeYields
  <2>2. task[r] = "loop" /\ task'[r] = "emit" BY <1>t, <1>2 DEF RuntimeYields, Goto
  <2>3. mem'[r].status = mem[r].status /\ mem'[r].told = mem[r].told
    BY <1>t, <2>1 DEF Accumulate, Locals
  <2> QED BY <1>0, <2>2, <2>3 DEF Tells, Keeps
<1>3. CASE RuntimeFails(r)
  <2>1. /\ task[r] = "loop" /\ task'[r] \in {"rterr", "exc"} /\ mem'[r] = Failed(mem[r])
    BY <1>t, <1>3 DEF RuntimeFails, Goto
  <2>2. mem'[r].status = "error" /\ mem'[r].told = mem[r].told
    BY <1>t, <2>1 DEF Failed, Locals
  <2>3. ~Closed(r)' BY <1>c, <2>1 DEF LogOK, Talking
  <2> QED BY <1>0, <2>1, <2>2, <2>3 DEF Tells, Keeps
<1>4. CASE RuntimeEnds(r)
  <2>1. task[r] = "loop" /\ task'[r] = "save" /\ UNCHANGED mem
    BY <1>t, <1>4 DEF RuntimeEnds, Goto
  <2>3. ~Closed(r)' BY <1>c, <2>1 DEF LogOK, Talking
  <2> QED BY <1>0, <2>1, <2>3 DEF Tells, Keeps
<1> QED BY <1>1, <1>2, <1>3, <1>4

LEMMA PublishTells ==
  ASSUME Steady, TInv, LogOK, NEW r \in Requests, Tells(r), Keeps(r), Published(r)
  PROVE  Tells(r)' /\ Keeps(r)'
<1>t. /\ mem[r] \in Locals /\ mem[r].ev \in Content /\ task \in [Requests -> WorkerPcs]
      /\ mem \in [Requests -> Locals] /\ Content \subseteq Events \ Terminal
      /\ "start" \in Events \ Terminal
      /\ {"done", "error", "aborted"} \subseteq Events
  BY DEF TInv, TypeOK, WorkersOK, Locals, Events, Content, Terminal
<1>1. /\ task[r] \in DOMAIN AfterPublish /\ task'[r] = AfterPublish[task[r]]
      /\ UNCHANGED <<conv, row, clobbered, late>>
      /\ mem' = [mem EXCEPT ![r].told = @ \/ task[r] \in {"rterr", "exc", "abt"}]
  BY <1>t DEF Published, Goto, AfterPublish, dbVars
<1>2. Says(r, InFlight(r)) BY <1>1 DEF Published, Publish, Says
<1>3. mem'[r].status = mem[r].status BY <1>1, <1>t DEF Locals
<1>4. late[r] = NoLate BY <1>1 DEF Keeps, AfterPublish
<1>5. CASE task[r] \in {"start", "emit"}
  <2>1. task'[r] = "loop" /\ mem'[r].told = mem[r].told
    BY <1>1, <1>5, <1>t DEF AfterPublish, Locals
  <2> QED BY <1>1, <1>3, <1>4, <1>5, <2>1 DEF Tells, Keeps
<1>6. CASE task[r] \in {"rterr", "exc", "abt"}
  <2>1. task'[r] = "save" /\ mem'[r].told
    <3>1. task'[r] = "save" BY <1>1, <1>6 DEF AfterPublish
    <3>2. mem'[r].told = (mem[r].told \/ task[r] \in {"rterr", "exc", "abt"})
      BY <1>1, <1>t DEF Locals
    <3> QED BY <1>6, <3>1, <3>2
  <2>2. InFlight(r) \in Events /\ InFlight(r) = SnapshotStatus(mem[r].status)
    BY <1>6, <1>t DEF InFlight, Tells, SnapshotStatus
  <2>3. LastWord(r)' = SnapshotStatus(mem[r].status) BY <1>2, <2>2, LastSaid
  <2> QED BY <1>1, <1>3, <1>4, <2>1, <2>3 DEF Tells, Keeps
<1>7. CASE task[r] = "last"
  <2>1. task'[r] = "ended" BY <1>1, <1>7 DEF AfterPublish
  <2>2. InFlight(r) \in Events /\ InFlight(r) = SnapshotStatus(mem[r].status)
    BY <1>7, <1>t DEF InFlight, Tells, SnapshotStatus
  <2>3. LastWord(r)' = SnapshotStatus(mem[r].status) BY <1>2, <2>2, LastSaid
  <2> QED BY <1>1, <1>3, <1>4, <1>7, <2>1, <2>3 DEF Tells, Keeps
<1> QED BY <1>1, <1>5, <1>6, <1>7 DEF AfterPublish

LEMMA SaveTells ==
  ASSUME Steady, TInv, NEW r \in Requests, Tells(r), Keeps(r), Save(r)
  PROVE  Tells(r)' /\ Keeps(r)'
<1>t. /\ mem[r] \in Locals /\ task \in [Requests -> WorkerPcs]
      /\ mem \in [Requests -> Locals] /\ row \in [Requests -> RowData \cup {NoRow}]
  BY DEF TInv, TypeOK, WorkersOK, StoresOK
<1>1. /\ task[r] = "save" /\ task'[r] = IF mem[r].told THEN "ended" ELSE "last"
      /\ UNCHANGED <<stream, late>>
  BY <1>t DEF Save, Goto, AfterSave
<1>2. mem'[r].status = mem[r].status /\ mem'[r].told = mem[r].told
  BY <1>t DEF Save, Locals
<1>3. late[r] = NoLate BY <1>1 DEF Keeps
<1>4. row'[r] # NoRow => row'[r].status = mem[r].status
  <2>1. CASE row[r] # NoRow /\ Overwrite(r, RowOf(mem[r]))
    BY <1>t, <2>1 DEF Overwrite, RowOf
  <2>2. CASE row[r] = NoRow /\ UNCHANGED row BY <2>2
  <2> QED BY <2>1, <2>2 DEF Save, Steady
<1>5. Closed(r)' <=> Closed(r) BY <1>1 DEF Closed
<1>6. LastWord(r)' = LastWord(r) BY <1>1 DEF LastWord
<1>7. Tells(r)' BY <1>1, <1>2, <1>5, <1>6 DEF Tells
<1>8. Keeps(r)' BY <1>1, <1>2, <1>3, <1>4 DEF Keeps
<1> QED BY <1>7, <1>8

LEMMA InterruptTells ==
  ASSUME Steady, TInv, OneAbortEach, LogOK, [Next]_vars, NEW r \in Requests,
         cancel[r] => Called(r), Tells(r), Keeps(r), Interrupt(r)
  PROVE  Tells(r)' /\ Keeps(r)'
<1>t. /\ mem[r] \in Locals /\ mem[r].ev \in Content /\ task \in [Requests -> WorkerPcs]
      /\ mem \in [Requests -> Locals] /\ Content \subseteq Events \ Terminal
      /\ "start" \in Events \ Terminal /\ cancel \in [Requests -> BOOLEAN]
      /\ late \in [Requests -> RowData \cup {NoRow}]
      /\ {"done", "error", "aborted"} \subseteq Events
  BY DEF TInv, TypeOK, WorkersOK, Locals, Events, Content, Terminal
<1>1. /\ task[r] \in Live /\ task'[r] = AfterCancel[task[r]] /\ cancel[r] /\ ~cancel'[r]
      /\ UNCHANGED <<conv, row, clobbered>>
      /\ mem'[r] = IF AfterCancel[task[r]] = "abt" THEN Aborted(mem[r]) ELSE mem[r]
      /\ late'[r] = IF task[r] = "save" THEN RowOf(mem[r]) ELSE late[r]
  BY <1>t DEF Interrupt, Goto, dbVars, Running
<1>2. Spent(r)' /\ ~Spent(r) BY <1>1, CalledStays DEF Spent
<1>3. late[r] = NoLate BY <1>1 DEF Keeps, Live
<1>4. CASE task[r] \in {"loop", "emit", "rterr"}
  <2>1. /\ task'[r] = "abt" /\ mem'[r].status = "aborted" /\ mem'[r].told = mem[r].told
        /\ late'[r] = late[r]
    BY <1>1, <1>4, <1>t DEF AfterCancel, Aborted, Locals
  <2> QED BY <1>2, <1>3, <1>4, <2>1 DEF Tells, Keeps
<1>5. CASE task[r] \in {"scheduled", "start"}
  <2>1. task'[r] = "ended" /\ late'[r] = late[r] BY <1>1, <1>5 DEF AfterCancel
  <2>2. ~Closed(r) BY <1>5 DEF LogOK, Silent, Closed
  <2>3. UNCHANGED stream \/ Says(r, "start")
    BY <1>1, <1>5 DEF Interrupt, MaybePublish, Publish, Says, InFlight
  <2>4. ~Closed(r)'
    <3>1. CASE UNCHANGED stream BY <2>2, <3>1 DEF Closed
    <3>2. CASE Says(r, "start") BY <1>t, <2>2, <3>2, LastSaid
    <3> QED BY <2>3, <3>1, <3>2
  <2> QED BY <1>3, <2>1, <2>4 DEF Tells, Keeps
<1>6. CASE task[r] \in {"exc", "last"}
  <2>1. /\ task'[r] = (IF task[r] = "exc" THEN "save" ELSE "ended") /\ mem'[r] = mem[r]
        /\ late'[r] = late[r]
    BY <1>1, <1>6 DEF AfterCancel
  <2>2. InFlight(r) \in Events /\ InFlight(r) = SnapshotStatus(mem[r].status)
    BY <1>6, <1>t DEF InFlight, Tells, SnapshotStatus
  <2>3. UNCHANGED stream \/ Says(r, InFlight(r))
    BY <1>1, <1>6 DEF Interrupt, MaybePublish, Publish, Says
  <2>4. Closed(r)' => LastWord(r)' = SnapshotStatus(mem[r].status)
    <3>1. CASE UNCHANGED stream
      <4>1. (Closed(r)' <=> Closed(r)) /\ LastWord(r)' = LastWord(r)
        BY <3>1 DEF Closed, LastWord
      <4> QED BY <1>6, <4>1 DEF Tells
    <3>2. CASE Says(r, InFlight(r)) BY <2>2, <3>2, LastSaid
    <3> QED BY <2>3, <3>1, <3>2
  <2>5. Tells(r)' BY <1>6, <2>1, <2>4 DEF Tells
  <2>6. Keeps(r)' BY <1>1, <1>3, <1>6, <2>1 DEF Keeps
  <2> QED BY <2>5, <2>6
<1>7. CASE task[r] = "save"
  <2>1. task'[r] = "ended" /\ mem'[r] = mem[r] /\ late'[r] = RowOf(mem[r])
    BY <1>1, <1>7 DEF AfterCancel
  <2>2. UNCHANGED stream BY <1>7 DEF Interrupt
  <2>3. (Closed(r)' <=> Closed(r)) /\ LastWord(r)' = LastWord(r)
    BY <2>2 DEF Closed, LastWord
  <2>4. RowOf(mem[r]) # NoLate /\ RowOf(mem[r]).status = mem[r].status
    BY <1>t, LocalsType, NoRowNotData DEF NoLate, RowOf
  <2>5. Tells(r)' BY <1>7, <2>1, <2>3 DEF Tells
  <2>6. Keeps(r)' BY <2>1, <2>4 DEF Keeps
  <2> QED BY <2>5, <2>6
<1>8. CASE task[r] = "abt" BY <1>2, <1>8 DEF Tells
<1> QED BY <1>1, <1>4, <1>5, <1>6, <1>7, <1>8 DEF Live

LEMMA LateElsewhere ==
  ASSUME Steady, TInv, [Next]_vars, NEW s \in Requests, ~Worker(s)
  PROVE  late'[s] = late[s] \/ LateSave(s)
<1>t. late \in [Requests -> RowData \cup {NoRow}] BY DEF TInv, TypeOK, WorkersOK
<1>1. CASE UNCHANGED vars \/ Delete \/ Shutdown
  BY <1>1 DEF vars, Delete, Shutdown, workVars
<1>2. ASSUME NEW r \in Requests, Worker(r) PROVE late'[s] = late[s]
  <2>1. r # s BY <1>2
  <2> QED BY <1>t, <1>2, <2>1 DEF Worker, Begin, Published, PublishFails, RuntimeYields,
             RuntimeFails, RuntimeEnds, Save, Interrupt
<1>3. ASSUME NEW r \in Requests, LateSave(r), r # s PROVE late'[s] = late[s]
  BY <1>t, <1>3 DEF LateSave
<1>4. CASE \E p \in Posts : PostArrive(p) \/ Handler(p) \/ PostFails(p) \/ ReaderFails(p) \/ Drop(p)
  BY <1>4 DEF PostArrive, Handler, PostLookup, PostDecide, PostUser, PostAssistant,
     PostSpawn, PostRepair, PostFails, ReadInitial, ReaderCheck, ReaderDeliver,
     ReaderLeaves, ReaderFails, Drop, notHttp, workVars
<1>5. CASE \E a \in Aborts : AbortArrive(a) \/ AbortLook(a) \/ AbortWrite(a)
  BY <1>5 DEF AbortArrive, AbortLook, AbortWrite, workVars
<1>6. ~Crash BY DEF Crash, Steady
<1> QED BY <1>1, <1>2, <1>3, <1>4, <1>5, <1>6 DEF Next

\* What others do to a turn whose worker is over: the save that outlived it
\* writes the worker's verdict, and any other handler leaves its mark.
LEMMA RestKeeps ==
  ASSUME Steady, TInv, OwnerOK, SavedOK, [Next]_vars, NEW s \in Requests, ~Worker(s),
         Rests(s), Keeps(s)
  PROVE  Keeps(s)'
<1>t. row \in [Requests -> RowData \cup {NoRow}] /\ late \in [Requests -> RowData \cup {NoRow}]
  BY DEF TInv, TypeOK, StoresOK, WorkersOK
<1>c. Closed(s)' <=> Closed(s) BY DEF Rests, Closed
<1>m. task'[s] = task[s] /\ mem'[s] = mem[s] BY DEF Rests
<1>1. CASE LateSave(s)
  <2>1. late'[s] = NoLate /\ late[s] # NoLate BY <1>t, <1>1 DEF LateSave
  <2>2. late[s].status = mem[s].status BY <2>1 DEF Keeps
  <2>3. row'[s] # NoRow => row'[s] = late[s]
    BY <1>t, <1>1 DEF LateSave, Overwrite, Steady
  <2> QED BY <1>m, <2>1, <2>2, <2>3 DEF Keeps
<1>2. CASE late'[s] = late[s]
  <2>1. ASSUME task[s] = "last" \/ (task[s] = "ended" /\ Closed(s)),
               late[s] = NoLate, row'[s] # NoRow, s \notin clobbered'
        PROVE  row'[s].status = mem[s].status
    <3>1. row[s] # NoRow /\ s \notin clobbered => row[s].status = mem[s].status
      BY <2>1 DEF Keeps
    <3>2. CASE SameTurns BY <2>1, <3>1, <3>2 DEF SameTurns
    <3>3. CASE Forgets BY <2>1, <3>3 DEF Forgets
    <3>4. ASSUME NEW r \in Requests, Inserts(r) PROVE row'[s].status = mem[s].status
      <4>1. r # s BY <2>1, <3>4 DEF Inserts, OwnerOK, RowFirst
      <4>2. row'[s] = row[s] /\ clobbered' = clobbered BY <1>t, <3>4, <4>1 DEF Inserts
      <4> QED BY <2>1, <3>1, <4>2
    <3>5. ASSUME NEW r \in Requests, Closes(r) PROVE row'[s].status = mem[s].status
      <4>1. PICK d \in Settled : Overwrite(r, d) BY <3>5 DEF Closes
      <4>2. s \notin clobbered BY <2>1, <4>1 DEF Overwrite
      <4>3. CASE r = s
        <5>1. row[s] # NoRow BY <3>5, <4>3 DEF Closes
        <5>2. row[s].status # "streaming" BY <3>1, <4>2, <5>1 DEF SavedOK
        <5> QED BY <2>1, <4>1, <4>3, <5>2 DEF Overwrite
      <4>4. CASE r # s
        <5>1. row'[s] = row[s] BY <1>t, <4>1, <4>4 DEF Overwrite
        <5> QED BY <2>1, <3>1, <4>2, <5>1
      <4> QED BY <4>3, <4>4
    <3> QED BY <3>2, <3>3, <3>4, <3>5, NextRows
  <2> QED BY <1>c, <1>m, <1>2, <2>1 DEF Keeps
<1> QED BY <1>1, <1>2, LateElsewhere

LEMMA NextVerdict ==
  Steady /\ TInv /\ OwnerOK /\ LogOK /\ SavedOK /\ VerdictOK /\ [Next]_vars => VerdictOK'
<1> SUFFICES ASSUME Steady, TInv, OwnerOK, LogOK, SavedOK, VerdictOK, [Next]_vars
             PROVE  VerdictOK'
  OBVIOUS
<1>1. OneAbortEach /\ OneAbortEach' BY CalledStays DEF VerdictOK, OneAbortEach
<1> SUFFICES ASSUME NEW s \in Requests
             PROVE  (cancel'[s] => Called(s)') /\ Tells(s)' /\ Keeps(s)'
  BY <1>1 DEF VerdictOK
<1>2. (cancel[s] => Called(s)) /\ Tells(s) /\ Keeps(s) BY DEF VerdictOK
<1>3. cancel'[s] => Called(s)' BY <1>1, <1>2, CancelComes
<1>4. CASE Worker(s)
  <2>1. ~PublishFails(s) BY DEF PublishFails, Steady
  <2> QED BY <1>1, <1>2, <1>3, <1>4, <2>1, SilentTells, PublishTells, SaveTells,
             InterruptTells DEF Worker
<1>5. CASE ~Worker(s) /\ Rests(s)
  <2>1. /\ task'[s] = task[s] /\ mem'[s] = mem[s]
        /\ Closed(s)' <=> Closed(s)
        /\ LastWord(s)' = LastWord(s)
    BY <1>5 DEF Rests, Closed, LastWord
  <2>2. Spent(s) => Spent(s)' BY <1>1, <1>2, SpentStays
  <2>3. Tells(s)' BY <1>2, <2>1, <2>2 DEF Tells
  <2> QED BY <1>2, <1>3, <1>5, <2>3, RestKeeps
<1>6. CASE ~Worker(s) /\ Starts(s)
  <2>1. task'[s] = "scheduled" /\ task[s] = "none" /\ mem'[s] = Fresh BY <1>6 DEF Starts
  <2>2. late[s] = NoLate BY <1>2, <2>1 DEF Keeps
  <2>3. late'[s] = NoLate BY <1>6, <2>2, LateElsewhere DEF LateSave
  <2>4. Tells(s)' BY <2>1 DEF Tells, Fresh
  <2>5. Keeps(s)' BY <2>1, <2>3 DEF Keeps
  <2> QED BY <1>3, <2>4, <2>5
<1>7. ~Dies(s) BY DEF Dies, Crash, Steady
<1> QED BY <1>4, <1>5, <1>6, <1>7, NextTurn

LEMMA InitVerdict == Init /\ OneAbortEach => VerdictOK
<1> SUFFICES ASSUME Init, OneAbortEach, NEW r \in Requests
             PROVE  (cancel[r] => Called(r)) /\ Tells(r) /\ Keeps(r)
  BY DEF VerdictOK
<1>1. ~cancel[r] /\ task[r] = "none" /\ late[r] = NoLate BY DEF Init
<1> QED BY <1>1 DEF Tells, Keeps

\* With working stores, no crash and at most one abort for a turn, the last word
\* of the log of a turn whose worker is over is the status of its row, unless
\* another handler overwrote that.
THEOREM VerdictIsOne ==
  ASSUME "broker" \notin Faults, "store" \notin Faults, "crash" \notin Faults
  PROVE  Spec /\ OneAbortEach => []VerdictAgrees
<1>1. Steady BY DEF Steady
<1>2. TInv /\ OwnerOK /\ LogOK /\ SavedOK /\ VerdictOK /\ [Next]_vars => VerdictOK'
  BY <1>1, NextVerdict
<1>3. Spec /\ OneAbortEach => []VerdictOK
  BY <1>2, InitVerdict, TypedAlways, OwnedAlways, LoggedAlways, SavedAlways, PTL DEF Spec
<1>4. VerdictOK => VerdictAgrees
  <2> SUFFICES ASSUME VerdictOK, NEW r \in Requests,
                      task[r] = "ended", late[r] = NoLate,
                      row[r] # NoRow, r \notin clobbered,
                      \E i \in DOMAIN stream[r] : stream[r][i] \in Terminal
               PROVE  SnapshotStatus(row[r].status) = stream[r][Len(stream[r])]
    BY DEF VerdictAgrees
  <2>1. Closed(r) BY DEF Closed
  <2>2. row[r].status = mem[r].status BY <2>1 DEF VerdictOK, Keeps
  <2>3. LastWord(r) = SnapshotStatus(mem[r].status) BY <2>1 DEF VerdictOK, Tells
  <2> QED BY <2>2, <2>3 DEF LastWord
<1> QED BY <1>3, <1>4, PTL
=============================================================================
