-------------------------- MODULE DatasetLifecycle --------------------------
(***************************************************************************)
(* The uploaded tables of one process: the row in PostgreSQL, the directory *)
(* on disk and the view in the in-memory DuckDB engine, through upload,     *)
(* queries, deletion, crash and restore.  Handlers run on one event loop;   *)
(* conversion, registration and queries run in threads.  A query holds the  *)
(* engine's lock, and a removal takes it on the event loop itself, so that  *)
(* no handler moves while a removal waits.  A definition directly before    *)
(* another one with its name and a suffix is a faulty variant of it, used   *)
(* only to show that a property can fail.                                   *)
(***************************************************************************)
EXTENDS Naturals

CONSTANTS
  Datasets,    \* one per upload
  Deletions,   \* concurrent DELETE requests; each may come again
  Readers,     \* concurrent previews and SQL tools; each may come again
  Nothing,     \* no dataset, no holder of the lock
  Faults,      \* "store": a statement of PostgreSQL may fail, applied or not;
               \* "files": a clean-up may raise, or leave files and say nothing
  MaxCrashes   \* bound: process crashes

ASSUME DatasetAssumption ==
  /\ Nothing \notin Datasets \cup Readers
  /\ Faults \subseteq {"store", "files"} /\ MaxCrashes \in Nat

VARIABLES
  row,       \* datasets.status: none when there is no row
  disk,      \* the dataset's directory: none, part, or with its data.parquet
  view,      \* the view in the engine
  proc,      \* boot, restore, up, or unrestored: restore_engine has failed
  todo,      \* rows restore_engine still has to visit
  bad,       \* rows it will mark failed
  upload,    \* where ingest is
  deletion,  \* the dataset a DELETE is about, and where the DELETE is
  reader,    \* the dataset a query is about, and where the query is
  lock,      \* who holds the engine's lock over several steps
  removing,  \* the dataset that DatasetProcessor.remove works on
  stage,     \* where it is
  crashes,
  hurt       \* history: datasets whose handler met a crash, lost a commit or
             \* failed to clean up

vars == <<row, disk, view, proc, todo, bad, upload, deletion, reader, lock,
          removing, stage, crashes, hurt>>
storeVars   == <<row, disk, view>>
restoreVars == <<proc, todo, bad>>
removeVars  == <<removing, stage>>
queryVars   == <<reader, lock>>
pastVars    == <<crashes, hurt>>

Working == {"write", "convert", "register", "schema", "commit", "refresh", "undo"}

TypeOK ==
  /\ row \in [Datasets -> {"none", "ready", "failed"}]
  /\ disk \in [Datasets -> {"none", "part", "parquet"}]
  /\ view \in [Datasets -> {"absent", "present"}]
  /\ proc \in {"boot", "restore", "up", "unrestored"}
  /\ todo \subseteq Datasets /\ bad \subseteq Datasets
  /\ upload \in [Datasets -> Working \cup {"new", "done", "failed", "cut"}]
  /\ deletion \in [Deletions -> [at : {"idle", "fetched", "committed"},
                                 on : Datasets \cup {Nothing}]]
  /\ reader \in [Readers -> [at : {"idle", "queued", "running", "error"},
                             on : Datasets \cup {Nothing}]]
  /\ lock \in Readers \cup {Nothing}
  /\ removing \in Datasets \cup {Nothing} /\ stage \in {"drop", "rmtree"}
  /\ crashes \in 0..MaxCrashes /\ hurt \subseteq Datasets

Init ==
  /\ row = [d \in Datasets |-> "none"]
  /\ disk = [d \in Datasets |-> "none"]
  /\ view = [d \in Datasets |-> "absent"]
  /\ proc = "boot" /\ todo = {} /\ bad = {}
  /\ upload = [d \in Datasets |-> "new"]
  /\ deletion = [k \in Deletions |-> [at |-> "idle", on |-> Nothing]]
  /\ reader = [q \in Readers |-> [at |-> "idle", on |-> Nothing]]
  /\ lock = Nothing /\ removing = Nothing /\ stage = "drop"
  /\ crashes = 0 /\ hurt = {}

\* A handler can move: the process serves and no removal occupies the loop.
LoopFreeAlways == proc \in {"up", "unrestored"}
LoopFree == proc \in {"up", "unrestored"} /\ removing = Nothing

-----------------------------------------------------------------------------
(* DatasetProcessor.remove: drop the view under the lock, then the files.  *)
(* drop_table may raise, and then the files stay as well; rmtree ignores   *)
(* every error.                                                            *)

RemoveUnlocked(d) == removing' = d /\ stage' = "rmtree"
Remove(d) == removing' = d /\ stage' = "drop"

DropView ==
  /\ removing # Nothing /\ stage = "drop" /\ lock = Nothing
  /\ \/ /\ view' = [view EXCEPT ![removing] = "absent"]
        /\ stage' = "rmtree" /\ UNCHANGED <<removing, hurt>>
     \/ /\ "files" \in Faults /\ removing' = Nothing
        /\ hurt' = hurt \cup {removing} /\ UNCHANGED <<view, stage>>
  /\ UNCHANGED <<row, disk, restoreVars, upload, deletion, queryVars, crashes>>

RemoveFiles ==
  /\ removing # Nothing /\ stage = "rmtree"
  /\ \/ disk' = [disk EXCEPT ![removing] = "none"] /\ UNCHANGED hurt
     \/ /\ "files" \in Faults /\ hurt' = hurt \cup {removing}
        /\ disk' \in {disk, [disk EXCEPT ![removing] = "part"]}
  /\ removing' = Nothing /\ stage' = "drop"
  /\ UNCHANGED <<row, view, restoreVars, upload, deletion, queryVars, crashes>>

-----------------------------------------------------------------------------
(* Upload: DatasetService.ingest and DatasetProcessor.process.             *)

\* The step at which ingest is, and what it comes to.  The effect of a thread is
\* folded into the resumption of its handler, for which the loop must be free:
\* nobody reads what an upload has made before its row is committed.
At(d, pc) == LoopFree /\ upload[d] = pc
Goto(d, pc) == upload' = [upload EXCEPT ![d] = pc] /\ UNCHANGED removeVars

\* The except clauses: everything the upload made is removed.
FailUploadKept(d) == Goto(d, "failed")
FailUpload(d) == upload' = [upload EXCEPT ![d] = "failed"] /\ Remove(d)

UploadStart(d) ==
  /\ At(d, "new") /\ Goto(d, "write")
  /\ disk' = [disk EXCEPT ![d] = "part"]
  /\ UNCHANGED <<row, view, restoreVars, deletion, queryVars, pastVars>>

\* The bytes are written, and a workbook is normalised; or the file is refused.
UploadWritten(d) ==
  /\ At(d, "write")
  /\ Goto(d, "convert") \/ FailUpload(d)
  /\ UNCHANGED <<storeVars, restoreVars, deletion, queryVars, pastVars>>

AfterConvertCommit == "commit"
AfterConvert == "register"
Convert(d) ==
  /\ At(d, "convert")
  /\ disk' = [disk EXCEPT ![d] = "parquet"]
  /\ Goto(d, AfterConvert) \/ FailUpload(d)
  /\ UNCHANGED <<row, view, restoreVars, deletion, queryVars, pastVars>>

\* register_parquet takes the lock in its thread.
Register(d) ==
  /\ At(d, "register") /\ lock = Nothing /\ Goto(d, "schema")
  /\ view' = [view EXCEPT ![d] = "present"]
  /\ UNCHANGED <<row, disk, restoreVars, deletion, queryVars, pastVars>>

\* get_schema, and the limit on columns.
ReadSchema(d) ==
  /\ At(d, "schema") /\ lock = Nothing
  /\ Goto(d, "commit") \/ FailUpload(d)
  /\ UNCHANGED <<storeVars, restoreVars, deletion, queryVars, pastVars>>

\* A failed commit may have been applied, the answer being lost.  The session
\* is closed, which gives up the loop, before the files are removed.
CommitRow(d) ==
  /\ At(d, "commit")
  /\ \/ row' = [row EXCEPT ![d] = "ready"] /\ Goto(d, "refresh")
     \/ /\ "store" \in Faults /\ Goto(d, "undo")
        /\ row' \in {row, [row EXCEPT ![d] = "ready"]}
  /\ UNCHANGED <<disk, view, restoreVars, deletion, queryVars, pastVars>>

\* session.refresh fails also when the row has been deleted meanwhile.
RefreshRow(d) ==
  /\ At(d, "refresh")
  /\ \/ row[d] # "none" /\ Goto(d, "done")
     \/ (row[d] = "none" \/ "store" \in Faults) /\ Goto(d, "undo")
  /\ UNCHANGED <<storeVars, restoreVars, deletion, queryVars, pastVars>>

UndoUpload(d) ==
  /\ At(d, "undo") /\ FailUpload(d)
  /\ UNCHANGED <<storeVars, restoreVars, deletion, queryVars, pastVars>>

Upload(d) ==
  \/ UploadStart(d) \/ UploadWritten(d) \/ Convert(d) \/ Register(d)
  \/ ReadSchema(d) \/ CommitRow(d) \/ RefreshRow(d) \/ UndoUpload(d)

-----------------------------------------------------------------------------
(* Deletion: DatasetService.delete_dataset.                                *)

DeleteLook(k, d) ==
  /\ LoopFree /\ deletion[k].at = "idle" /\ row[d] # "none"
  /\ deletion' = [deletion EXCEPT ![k] = [at |-> "fetched", on |-> d]]
  /\ UNCHANGED <<storeVars, restoreVars, upload, queryVars, removeVars, pastVars>>

\* Another DELETE may have deleted the row: this one deletes nothing, and goes
\* on.  A failed commit may have been applied; then nothing is removed.
DeleteCommit(k) ==
  /\ LoopFree /\ deletion[k].at = "fetched"
  /\ \/ /\ row' = [row EXCEPT ![deletion[k].on] = "none"]
        /\ deletion' = [deletion EXCEPT ![k].at = "committed"]
        /\ UNCHANGED hurt
     \/ /\ "store" \in Faults
        /\ deletion' = [deletion EXCEPT ![k] = [at |-> "idle", on |-> Nothing]]
        /\ \/ UNCHANGED <<row, hurt>>
           \/ /\ row' = [row EXCEPT ![deletion[k].on] = "none"]
              /\ hurt' = hurt \cup {deletion[k].on}
  /\ UNCHANGED <<disk, view, restoreVars, upload, queryVars, removeVars, crashes>>

\* The session is closed, and the handler goes on to remove.
DeleteRemove(k) ==
  /\ LoopFree /\ deletion[k].at = "committed"
  /\ deletion' = [deletion EXCEPT ![k] = [at |-> "idle", on |-> Nothing]]
  /\ Remove(deletion[k].on)
  /\ UNCHANGED <<storeVars, restoreVars, upload, queryVars, pastVars>>

Deletion(k) ==
  DeleteCommit(k) \/ DeleteRemove(k) \/ \E d \in Datasets : DeleteLook(k, d)

-----------------------------------------------------------------------------
(* Queries: preview_dataset, get_schema and run_sql look up the ready rows *)
(* and then read the view in a thread, under the lock.                     *)

Look(q, d) ==
  /\ LoopFree /\ reader[q].at \in {"idle", "error"} /\ row[d] = "ready"
  /\ reader' = [reader EXCEPT ![q] = [at |-> "queued", on |-> d]]
  /\ UNCHANGED <<storeVars, restoreVars, upload, deletion, lock, removeVars, pastVars>>

Readable(d) == view[d] = "present" /\ disk[d] = "parquet"

ReadStart(q) ==
  /\ reader[q].at = "queued" /\ lock = Nothing
  /\ IF Readable(reader[q].on)
     THEN lock' = q /\ reader' = [reader EXCEPT ![q].at = "running"]
     ELSE UNCHANGED lock /\ reader' = [reader EXCEPT ![q].at = "error"]
  /\ UNCHANGED <<storeVars, restoreVars, upload, deletion, removeVars, pastVars>>

ReadEnd(q) ==
  /\ reader[q].at = "running" /\ lock' = Nothing
  /\ reader' = [reader EXCEPT ![q] = [at |-> "idle", on |-> Nothing]]
  /\ UNCHANGED <<storeVars, restoreVars, upload, deletion, removeVars, pastVars>>

-----------------------------------------------------------------------------
(* Restart: DatasetService.restore_engine, before the first request.       *)

RestoreFetch ==
  /\ proc = "boot"
  /\ \/ proc' = "restore" /\ todo' = {d \in Datasets : row[d] = "ready"}
     \/ "store" \in Faults /\ proc' = "unrestored" /\ UNCHANGED todo
  /\ UNCHANGED <<storeVars, bad, upload, deletion, queryVars, removeVars, pastVars>>

\* A row without its file is marked; so is one that cannot be registered.
HasFileUnchecked(d) == TRUE
HasFile(d) == disk[d] = "parquet"
RestoreOne(d) ==
  /\ proc = "restore" /\ d \in todo
  /\ todo' = todo \ {d}
  /\ \/ /\ HasFile(d) /\ view' = [view EXCEPT ![d] = "present"]
        /\ UNCHANGED bad
     \/ bad' = bad \cup {d} /\ UNCHANGED view
  /\ UNCHANGED <<row, disk, proc, upload, deletion, queryVars, removeVars, pastVars>>

\* One commit marks them all; failed or lost, it leaves the process unrestored.
MarkFailed == "failed"
Marked == [d \in Datasets |-> IF d \in bad THEN MarkFailed ELSE row[d]]
RestoreEnd ==
  /\ proc = "restore" /\ todo = {} /\ bad' = {}
  /\ \/ proc' = "up" /\ row' = Marked
     \/ /\ "store" \in Faults /\ bad # {} /\ proc' = "unrestored"
        /\ row' \in {row, Marked}
  /\ UNCHANGED <<disk, view, todo, upload, deletion, queryVars, removeVars, pastVars>>

\* Some handler still has to finish, or to undo, its work on d.
InHand(d) ==
  \/ upload[d] \in Working \/ removing = d
  \/ \E k \in Deletions : deletion[k] = [at |-> "committed", on |-> d]

\* Handlers, threads and the engine are gone; rows and files stay.
Crash ==
  /\ crashes < MaxCrashes /\ crashes' = crashes + 1
  /\ hurt' = hurt \cup {d \in Datasets : InHand(d)}
  /\ proc' = "boot" /\ todo' = {} /\ bad' = {}
  /\ view' = [d \in Datasets |-> "absent"]
  /\ upload' = [d \in Datasets |-> IF upload[d] \in Working THEN "cut" ELSE upload[d]]
  /\ deletion' = [k \in Deletions |-> [at |-> "idle", on |-> Nothing]]
  /\ reader' = [q \in Readers |-> [at |-> "idle", on |-> Nothing]]
  /\ lock' = Nothing /\ removing' = Nothing /\ stage' = "drop"
  /\ UNCHANGED <<row, disk>>

Removal == DropView \/ RemoveFiles
Restore == RestoreFetch \/ RestoreEnd \/ \E d \in Datasets : RestoreOne(d)

Next ==
  \/ \E d \in Datasets : Upload(d)
  \/ \E k \in Deletions : Deletion(k)
  \/ \E q \in Readers : ReadStart(q) \/ ReadEnd(q) \/ \E d \in Datasets : Look(q, d)
  \/ Removal \/ Restore \/ Crash

Spec == Init /\ [][Next]_vars

\* The event loop and the threads go on, and a query ends.  The lock is not
\* fair: a thread that waits for it may be overtaken.
Fairness ==
  /\ WF_vars(Removal) /\ WF_vars(Restore)
  /\ \A q \in Readers : WF_vars(ReadEnd(q)) /\ WF_vars(ReadStart(q))

FairSpec == Spec /\ Fairness

-----------------------------------------------------------------------------
(* What the lifecycle guarantees.                                          *)

\* A dataset whose upload was not answered with an error can be read as long as
\* its row says ready, whatever is uploaded and deleted beside it.
ReadyReadable ==
  \A d \in Datasets :
    proc = "up" /\ row[d] = "ready" /\ upload[d] # "failed" => Readable(d)

\* A removal never takes the file from under a running query: it waits for the
\* lock before it touches anything.
ReadersUndisturbed ==
  \A q \in Readers : reader[q].at = "running" => Readable(reader[q].on)

\* Files and views without a row, and without a handler that works on them, are
\* left only by a crash in the middle of a handler, by a commit whose answer was
\* lost or by a clean-up that failed itself.
NoStrayFiles ==
  \A d \in Datasets :
    row[d] = "none" /\ ~InHand(d)
    => d \in hurt \/ (view[d] = "absent" /\ disk[d] = "none")

\* After a restart that restores, every row tells the truth, also one whose
\* upload removed the files of a row that had been committed.
RestoreRepairs ==
  [][proc' = "up" /\ proc # "up" =>
       \A d \in Datasets : row'[d] = "ready" => Readable(d)']_vars

\* A removal, which stops the event loop while queries hold the lock, ends: new
\* queries cannot overtake it for ever because the loop admits none.
RemovalEnds == removing # Nothing ~> removing = Nothing
=============================================================================
