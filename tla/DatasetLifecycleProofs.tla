----------------------- MODULE DatasetLifecycleProofs -----------------------
(***************************************************************************)
(* Theorems about DatasetLifecycle, for any number of datasets, deletions,  *)
(* queries and crashes.  The inductive invariant LifeInv says who may touch *)
(* what a dataset consists of: an upload until its row is committed, then   *)
(* its row, and at last a removal, which runs alone.                        *)
(***************************************************************************)
EXTENDS DatasetLifecycle, TLAPS

Serving == proc \in {"up", "unrestored"}

\* ingest has come to the commit, or has given up.
Past == {"refresh", "undo", "done", "failed", "cut"}

\* A DELETE and a query past their look-up are about a dataset.
KnownOK ==
  /\ \A k \in Deletions : deletion[k].at # "idle" => deletion[k].on \in Datasets
  /\ \A q \in Readers :
       reader[q].at \in {"queued", "running"} => reader[q].on \in Datasets

\* A query that runs holds the lock, and its table is there.
QueryOK ==
  \A q \in Readers :
    reader[q].at = "running" => lock = q /\ Readable(reader[q].on)

\* A DELETE is about a committed dataset, without a row after its own commit.
DeletionOK ==
  \A k \in Deletions :
    /\ deletion[k].at # "idle" => upload[deletion[k].on] \in Past
    /\ deletion[k].at = "committed" => row[deletion[k].on] = "none"

\* What an upload has made so far; there is no row before the commit.
UploadOK ==
  \A d \in Datasets :
    /\ upload[d] \notin Past => row[d] = "none"
    /\ upload[d] = "new" => disk[d] = "none"
    /\ upload[d] \in {"write", "convert"} => disk[d] = "part"
    /\ upload[d] \in {"new", "write", "convert"} => view[d] = "absent"
    /\ upload[d] = "register" => disk[d] = "parquet"
    /\ upload[d] \in {"schema", "commit"} => Readable(d)

\* A removal is of a dataset that has failed or has no row, and its view goes
\* before its files.
RemovalOK ==
  removing # Nothing =>
    /\ Serving /\ upload[removing] \in Past
    /\ upload[removing] = "failed" \/ row[removing] = "none"
    /\ stage = "rmtree" => view[removing] = "absent"

\* What restore_engine has visited is readable or will be marked.
RestoreOK ==
  /\ proc = "restore" => \A d \in todo \cup bad : row[d] = "ready"
  /\ proc # "restore" => bad = {}
  /\ proc = "restore" =>
       \A d \in Datasets : row[d] = "ready" => d \in todo \cup bad \/ Readable(d)

TypeInv == TypeOK /\ KnownOK

LifeInv ==
  /\ TypeInv /\ QueryOK /\ DeletionOK /\ UploadOK /\ RemovalOK /\ RestoreOK
  /\ ReadyReadable /\ NoStrayFiles

-----------------------------------------------------------------------------
LEMMA InitTyped == Init => TypeInv
  BY DatasetAssumption DEF Init, TypeInv, TypeOK, KnownOK

LEMMA NextTyped == TypeInv /\ [Next]_vars => TypeInv'
<1> SUFFICES ASSUME TypeInv, [Next]_vars PROVE TypeInv'
  OBVIOUS
<1> USE DEF TypeInv, TypeOK, KnownOK
<1>1. ASSUME NEW d \in Datasets, Upload(d) PROVE TypeInv'
  <2> USE DEF At, Goto, FailUpload, Remove, Working, storeVars, restoreVars,
              removeVars, queryVars, pastVars
  <2>1. CASE UploadStart(d) \/ UploadWritten(d) \/ UndoUpload(d)
    BY <2>1 DEF UploadStart, UploadWritten, UndoUpload
  <2>2. CASE Convert(d)
    BY <2>2 DEF Convert, AfterConvert
  <2>3. CASE Register(d) \/ ReadSchema(d)
    BY <2>3 DEF Register, ReadSchema
  <2>4. CASE CommitRow(d) \/ RefreshRow(d)
    BY <2>4 DEF CommitRow, RefreshRow
  <2> QED BY <1>1, <2>1, <2>2, <2>3, <2>4 DEF Upload
<1>2. ASSUME NEW k \in Deletions, Deletion(k) PROVE TypeInv'
  BY <1>2
  DEF Deletion, DeleteLook, DeleteCommit, DeleteRemove, Remove,
      storeVars, restoreVars, removeVars, queryVars, pastVars
<1>3. ASSUME NEW q \in Readers, ReadStart(q) \/ ReadEnd(q) \/ \E d \in Datasets : Look(q, d)
      PROVE  TypeInv'
  BY <1>3
  DEF ReadStart, ReadEnd, Look, storeVars, restoreVars, removeVars, queryVars, pastVars
<1>4. CASE Removal
  BY <1>4 DEF Removal, DropView, RemoveFiles, restoreVars, queryVars, pastVars
<1>5. CASE Restore
  BY <1>5
  DEF Restore, RestoreFetch, RestoreOne, RestoreEnd, MarkFailed, Marked,
      storeVars, removeVars, queryVars, pastVars
<1>6. CASE Crash
  BY <1>6, DatasetAssumption DEF Crash
<1>7. CASE UNCHANGED vars
  BY <1>7 DEF vars
<1> QED BY <1>1, <1>2, <1>3, <1>4, <1>5, <1>6, <1>7 DEF Next

-----------------------------------------------------------------------------
(* One lemma per handler: the parts of LifeInv beyond the types.           *)

LifeOK ==
  /\ QueryOK /\ DeletionOK /\ UploadOK /\ RemovalOK /\ RestoreOK
  /\ ReadyReadable /\ NoStrayFiles

LEMMA RemovalKeeps == ASSUME LifeInv, TypeInv', Removal PROVE LifeOK'
<1> USE DEF LifeInv, TypeInv, TypeOK, KnownOK, queryVars, restoreVars, pastVars
<1>1. CASE DropView
  <2> USE <1>1 DEF DropView
  <2>1. QueryOK'
    BY DatasetAssumption DEF QueryOK
  <2>2. DeletionOK' /\ RestoreOK' /\ RemovalOK'
    BY DEF DeletionOK, RestoreOK, RemovalOK, Serving, Readable
  <2>3. UploadOK'
    BY DEF UploadOK, RemovalOK, Past, Readable
  <2>4. ReadyReadable' /\ NoStrayFiles'
    BY DEF ReadyReadable, NoStrayFiles, RemovalOK, InHand, Readable
  <2> QED BY <2>1, <2>2, <2>3, <2>4 DEF LifeOK
<1>2. CASE RemoveFiles
  <2> USE <1>2 DEF RemoveFiles
  <2>1. QueryOK'
    BY DEF QueryOK, RemovalOK, Readable
  <2>2. DeletionOK' /\ RestoreOK' /\ RemovalOK'
    BY DEF DeletionOK, RestoreOK, RemovalOK, Serving, Readable
  <2>3. UploadOK'
    BY DEF UploadOK, RemovalOK, Past, Readable
  <2>4. ReadyReadable' /\ NoStrayFiles'
    BY DEF ReadyReadable, NoStrayFiles, RemovalOK, InHand, Readable
  <2> QED BY <2>1, <2>2, <2>3, <2>4 DEF LifeOK
<1> QED BY <1>1, <1>2 DEF Removal

\* An upload leaves other datasets alone, and its own in some hands.
LEMMA UploadStray ==
  ASSUME LifeInv, TypeInv', NEW d \in Datasets, Upload(d) PROVE NoStrayFiles'
<1> USE DEF LifeInv, TypeInv, TypeOK, KnownOK, At, Goto, FailUpload, Remove, LoopFree,
            storeVars, queryVars, restoreVars, removeVars, pastVars
<1>1. /\ deletion' = deletion /\ hurt' = hurt /\ removing = Nothing
      /\ \A e \in Datasets \ {d} :
           /\ row'[e] = row[e] /\ disk'[e] = disk[e] /\ view'[e] = view[e]
           /\ upload'[e] = upload[e]
      /\ row'[d] = "none" => upload'[d] \in Working \/ removing' = d
  <2>1. CASE UploadStart(d) \/ UploadWritten(d) \/ UndoUpload(d)
    BY <2>1 DEF UploadStart, UploadWritten, UndoUpload, Working
  <2>2. CASE Convert(d)
    BY <2>2 DEF Convert, AfterConvert, Working
  <2>3. CASE Register(d) \/ ReadSchema(d)
    BY <2>3 DEF Register, ReadSchema, Working
  <2>4. CASE CommitRow(d) \/ RefreshRow(d)
    BY <2>4 DEF CommitRow, RefreshRow, Working
  <2> QED BY <2>1, <2>2, <2>3, <2>4 DEF Upload
<1>2. ASSUME NEW e \in Datasets, e # d, InHand(e) PROVE InHand(e)'
  BY <1>1, <1>2, DatasetAssumption DEF InHand
<1>3. row'[d] = "none" => InHand(d)'
  BY <1>1 DEF InHand
<1> QED BY <1>1, <1>2, <1>3 DEF NoStrayFiles

LEMMA UploadKeeps ==
  ASSUME LifeInv, TypeInv', NEW d \in Datasets, Upload(d) PROVE LifeOK'
<1> USE DEF LifeInv, TypeInv, TypeOK, KnownOK, At, Goto, FailUpload, Remove, LoopFree,
            storeVars, queryVars, restoreVars, removeVars, pastVars
<1>1. CASE UploadStart(d)
  <2> USE <1>1 DEF UploadStart
  <2>1. QueryOK' /\ RestoreOK'
    BY DEF QueryOK, RestoreOK, Readable, UploadOK, RemovalOK
  <2>2. DeletionOK' /\ RemovalOK'
    BY DEF DeletionOK, RemovalOK, Serving, Past, UploadOK
  <2>3. UploadOK'
    BY DEF UploadOK, RemovalOK, Past, Readable
  <2>4. ReadyReadable'
    BY DEF ReadyReadable, Readable, Past, UploadOK
  <2> QED BY <2>1, <2>2, <2>3, <2>4, UploadStray DEF LifeOK
<1>2. CASE UploadWritten(d)
  <2> USE <1>2 DEF UploadWritten
  <2>1. QueryOK' /\ RestoreOK'
    BY DEF QueryOK, RestoreOK, Readable, UploadOK, RemovalOK
  <2>2. DeletionOK' /\ RemovalOK'
    BY DEF DeletionOK, RemovalOK, Serving, Past, UploadOK
  <2>3. UploadOK'
    BY DEF UploadOK, RemovalOK, Past, Readable
  <2>4. ReadyReadable'
    BY DEF ReadyReadable, Readable, Past, UploadOK
  <2> QED BY <2>1, <2>2, <2>3, <2>4, UploadStray DEF LifeOK
<1>3. CASE Convert(d)
  <2> USE <1>3 DEF Convert, AfterConvert
  <2>1. QueryOK' /\ RestoreOK'
    BY DEF QueryOK, RestoreOK, Readable, UploadOK, RemovalOK
  <2>2. DeletionOK' /\ RemovalOK'
    BY DEF DeletionOK, RemovalOK, Serving, Past, UploadOK
  <2>3. UploadOK'
    BY DEF UploadOK, RemovalOK, Past, Readable
  <2>4. ReadyReadable'
    BY DEF ReadyReadable, Readable, Past, UploadOK
  <2> QED BY <2>1, <2>2, <2>3, <2>4, UploadStray DEF LifeOK
<1>4. CASE Register(d)
  <2> USE <1>4 DEF Register
  <2>1. QueryOK' /\ RestoreOK'
    BY DEF QueryOK, RestoreOK, Readable, UploadOK, RemovalOK
  <2>2. DeletionOK' /\ RemovalOK'
    BY DEF DeletionOK, RemovalOK, Serving, Past, UploadOK
  <2>3. UploadOK'
    BY DEF UploadOK, RemovalOK, Past, Readable
  <2>4. ReadyReadable'
    BY DEF ReadyReadable, Readable, Past, UploadOK
  <2> QED BY <2>1, <2>2, <2>3, <2>4, UploadStray DEF LifeOK
<1>5. CASE ReadSchema(d)
  <2> USE <1>5 DEF ReadSchema
  <2>1. QueryOK' /\ RestoreOK'
    BY DEF QueryOK, RestoreOK, Readable, UploadOK, RemovalOK
  <2>2. DeletionOK' /\ RemovalOK'
    BY DEF DeletionOK, RemovalOK, Serving, Past, UploadOK
  <2>3. UploadOK'
    BY DEF UploadOK, RemovalOK, Past, Readable
  <2>4. ReadyReadable'
    BY DEF ReadyReadable, Readable, Past, UploadOK
  <2> QED BY <2>1, <2>2, <2>3, <2>4, UploadStray DEF LifeOK
<1>6. CASE CommitRow(d)
  <2> USE <1>6 DEF CommitRow
  <2>1. QueryOK' /\ RestoreOK'
    BY DEF QueryOK, RestoreOK, Readable, UploadOK, RemovalOK
  <2>2. DeletionOK' /\ RemovalOK'
    BY DEF DeletionOK, RemovalOK, Serving, Past, UploadOK
  <2>3. UploadOK'
    BY DEF UploadOK, RemovalOK, Past, Readable
  <2>4. ReadyReadable'
    BY DEF ReadyReadable, Readable, Past, UploadOK
  <2> QED BY <2>1, <2>2, <2>3, <2>4, UploadStray DEF LifeOK
<1>7. CASE RefreshRow(d)
  <2> USE <1>7 DEF RefreshRow
  <2>1. QueryOK' /\ RestoreOK'
    BY DEF QueryOK, RestoreOK, Readable, UploadOK, RemovalOK
  <2>2. DeletionOK' /\ RemovalOK'
    BY DEF DeletionOK, RemovalOK, Serving, Past, UploadOK
  <2>3. UploadOK'
    BY DEF UploadOK, RemovalOK, Past, Readable
  <2>4. ReadyReadable'
    BY DEF ReadyReadable, Readable, Past, UploadOK
  <2> QED BY <2>1, <2>2, <2>3, <2>4, UploadStray DEF LifeOK
<1>8. CASE UndoUpload(d)
  <2> USE <1>8 DEF UndoUpload
  <2>1. QueryOK' /\ RestoreOK'
    BY DEF QueryOK, RestoreOK, Readable, UploadOK, RemovalOK
  <2>2. DeletionOK' /\ RemovalOK'
    BY DEF DeletionOK, RemovalOK, Serving, Past, UploadOK
  <2>3. UploadOK'
    BY DEF UploadOK, RemovalOK, Past, Readable
  <2>4. ReadyReadable'
    BY DEF ReadyReadable, Readable, Past, UploadOK
  <2> QED BY <2>1, <2>2, <2>3, <2>4, UploadStray DEF LifeOK
<1> QED BY <1>1, <1>2, <1>3, <1>4, <1>5, <1>6, <1>7, <1>8 DEF Upload

LEMMA DeletionKeeps ==
  ASSUME LifeInv, TypeInv', NEW k \in Deletions, Deletion(k) PROVE LifeOK'
<1> USE DEF LifeInv, TypeInv, TypeOK, KnownOK, Remove, LoopFree,
            storeVars, queryVars, restoreVars, removeVars, pastVars
<1>1. ASSUME NEW d \in Datasets, DeleteLook(k, d) PROVE LifeOK'
  <2> USE <1>1 DEF DeleteLook
  <2>1. QueryOK' /\ RestoreOK' /\ UploadOK' /\ ReadyReadable'
    BY DEF QueryOK, RestoreOK, UploadOK, ReadyReadable, Readable
  <2>2. DeletionOK' /\ RemovalOK'
    BY DEF DeletionOK, RemovalOK, UploadOK
  <2>3. NoStrayFiles'
    BY DEF NoStrayFiles, InHand
  <2> QED BY <2>1, <2>2, <2>3 DEF LifeOK
<1>2. CASE DeleteCommit(k)
  <2> USE <1>2 DEF DeleteCommit
  <2>1. QueryOK' /\ RestoreOK' /\ UploadOK' /\ ReadyReadable'
    BY DEF QueryOK, RestoreOK, UploadOK, ReadyReadable, Readable
  <2>2. DeletionOK' /\ RemovalOK'
    BY DEF DeletionOK, RemovalOK
  <2>3. NoStrayFiles'
    BY DEF NoStrayFiles, InHand
  <2> QED BY <2>1, <2>2, <2>3 DEF LifeOK
<1>3. CASE DeleteRemove(k)
  <2> USE <1>3 DEF DeleteRemove
  <2>1. QueryOK' /\ RestoreOK' /\ UploadOK' /\ ReadyReadable'
    BY DEF QueryOK, RestoreOK, UploadOK, ReadyReadable, Readable
  <2>2. DeletionOK' /\ RemovalOK'
    BY DEF DeletionOK, RemovalOK, Serving
  <2>3. NoStrayFiles'
    BY DatasetAssumption DEF NoStrayFiles, InHand
  <2> QED BY <2>1, <2>2, <2>3 DEF LifeOK
<1> QED BY <1>1, <1>2, <1>3 DEF Deletion

LEMMA QueryKeeps ==
  ASSUME LifeInv, TypeInv', NEW q \in Readers,
         ReadStart(q) \/ ReadEnd(q) \/ \E d \in Datasets : Look(q, d)
  PROVE  LifeOK'
<1> USE DEF LifeInv, TypeInv, TypeOK, KnownOK, ReadStart, ReadEnd, Look,
            storeVars, restoreVars, removeVars, pastVars
<1>1. UNCHANGED <<storeVars, restoreVars, upload, deletion, removeVars, pastVars>>
  OBVIOUS
<1>2. QueryOK'
  BY DatasetAssumption DEF QueryOK, Readable
<1>3. DeletionOK' /\ UploadOK' /\ RemovalOK' /\ RestoreOK' /\ ReadyReadable' /\ NoStrayFiles'
  BY <1>1 DEF DeletionOK, UploadOK, RemovalOK, RestoreOK, ReadyReadable, NoStrayFiles,
              InHand, Readable, Serving
<1> QED BY <1>2, <1>3 DEF LifeOK

LEMMA RestoreKeeps == ASSUME LifeInv, TypeInv', Restore PROVE LifeOK'
<1> USE DEF LifeInv, TypeInv, TypeOK, KnownOK, storeVars, removeVars, queryVars, pastVars
<1>1. CASE RestoreFetch
  BY <1>1
  DEF RestoreFetch, LifeOK, QueryOK, DeletionOK, UploadOK, RemovalOK, RestoreOK,
      ReadyReadable, NoStrayFiles, InHand, Readable, Serving
<1>2. ASSUME NEW d \in Datasets, RestoreOne(d) PROVE LifeOK'
  <2> USE <1>2 DEF RestoreOne, HasFile
  <2>1. QueryOK' /\ DeletionOK' /\ RemovalOK' /\ ReadyReadable'
    BY DEF QueryOK, DeletionOK, RemovalOK, ReadyReadable, Readable, Serving
  <2>2. UploadOK' /\ RestoreOK'
    BY DEF UploadOK, RestoreOK, Readable, Past
  <2>3. NoStrayFiles'
    BY DEF NoStrayFiles, InHand, RestoreOK
  <2> QED BY <2>1, <2>2, <2>3 DEF LifeOK
<1>3. CASE RestoreEnd
  <2> USE <1>3 DEF RestoreEnd, MarkFailed, Marked
  <2>1. QueryOK' /\ DeletionOK' /\ RemovalOK' /\ RestoreOK'
    BY DEF QueryOK, DeletionOK, RemovalOK, RestoreOK, Readable, Serving
  <2>2. UploadOK' /\ ReadyReadable'
    BY DEF UploadOK, RestoreOK, ReadyReadable, Readable
  <2>3. NoStrayFiles'
    BY DEF NoStrayFiles, InHand
  <2> QED BY <2>1, <2>2, <2>3 DEF LifeOK
<1> QED BY <1>1, <1>2, <1>3 DEF Restore

LEMMA CrashKeeps == ASSUME LifeInv, TypeInv', Crash PROVE LifeOK'
<1> USE DEF LifeInv, TypeInv, TypeOK, KnownOK, Crash
<1>1. QueryOK' /\ DeletionOK' /\ RemovalOK' /\ RestoreOK' /\ ReadyReadable'
  BY DEF QueryOK, DeletionOK, RemovalOK, RestoreOK, ReadyReadable
<1>2. UploadOK'
  BY DEF UploadOK, Past, Working
<1>3. NoStrayFiles'
  BY DEF NoStrayFiles, InHand, Working
<1> QED BY <1>1, <1>2, <1>3 DEF LifeOK

LEMMA InitLife == Init => LifeInv
  BY InitTyped, DatasetAssumption
  DEF Init, LifeInv, QueryOK, DeletionOK, UploadOK, RemovalOK, RestoreOK,
      ReadyReadable, NoStrayFiles, Past

LEMMA NextLife == LifeInv /\ [Next]_vars => LifeInv'
<1> SUFFICES ASSUME LifeInv, [Next]_vars PROVE LifeOK'
  BY NextTyped DEF LifeInv, LifeOK
<1>1. TypeInv'
  BY NextTyped DEF LifeInv
<1>2. CASE UNCHANGED vars
  BY <1>2
  DEF vars, LifeInv, LifeOK, QueryOK, DeletionOK, UploadOK, RemovalOK, RestoreOK,
      ReadyReadable, NoStrayFiles, InHand, Readable, Serving
<1> QED
  BY <1>1, <1>2, UploadKeeps, DeletionKeeps, QueryKeeps, RemovalKeeps, RestoreKeeps,
     CrashKeeps DEF Next

-----------------------------------------------------------------------------
\* Every variable keeps its type, and a handler past its look-up knows its
\* dataset.
THEOREM DatasetTypeCorrect == Spec => []TypeOK
  BY InitTyped, NextTyped, PTL DEF Spec, TypeInv

\* Whatever is uploaded, deleted, queried or restored beside it, a table that is
\* ready can be read (DatasetService.ingest commits last, restore_engine marks).
THEOREM ReadyIsReadable == Spec => []ReadyReadable
  BY InitLife, NextLife, PTL DEF Spec, LifeInv

\* No removal takes the file of a running query (the lock in drop_table).
THEOREM QueriesUndisturbed == Spec => []ReadersUndisturbed
<1>1. LifeInv => ReadersUndisturbed
  BY DEF LifeInv, QueryOK, ReadersUndisturbed
<1> QED BY <1>1, InitLife, NextLife, PTL DEF Spec

\* Nothing is left over by a handler that neither crashed, nor lost a commit, nor
\* failed in its clean-up (DatasetProcessor.remove).
THEOREM NothingStray == Spec => []NoStrayFiles
  BY InitLife, NextLife, PTL DEF Spec, LifeInv

\* After a restart that restores, every ready row has its table.
THEOREM RestartRepairs == Spec => RestoreRepairs
<1>1. ASSUME LifeInv, [Next]_vars, proc' = "up", proc # "up"
      PROVE  \A d \in Datasets : row'[d] = "ready" => Readable(d)'
  <2>1. RestoreEnd
    BY <1>1
    DEF Next, Upload, UploadStart, UploadWritten, Convert, Register, ReadSchema, CommitRow,
        RefreshRow, UndoUpload, Deletion, DeleteLook, DeleteCommit, DeleteRemove, ReadStart,
        ReadEnd, Look, Removal, DropView, RemoveFiles, Restore, RestoreFetch, RestoreOne,
        Crash, restoreVars, vars
  <2> QED
    BY <1>1, <2>1 DEF RestoreEnd, MarkFailed, Marked, LifeInv, TypeInv, TypeOK, RestoreOK, Readable
<1> QED BY <1>1, InitLife, NextLife, PTL DEF Spec, RestoreRepairs
=============================================================================
