----------------------------- MODULE SandboxRun -----------------------------
(***************************************************************************)
(* run_python from the tool call to the stored artifacts: the caller in    *)
(* the backend, the thread of the sandbox runner that serves it, and the   *)
(* container and output directory of the run.  The caller has a timeout of *)
(* its own, and whether it waits or not, the thread goes on.  A definition *)
(* directly before another one with its name and a suffix is a faulty      *)
(* variant of it, used only to show that a property can fail.              *)
(***************************************************************************)
EXTENDS Naturals, FiniteSets

CONSTANTS
  Runs,        \* calls of run_python
  Threads,     \* size of the runner's thread pool
  Faults,      \* "docker", "store": its calls may fail; "cancel": callers too
  MaxCrashes   \* bound: crashes of the runner

ASSUME SandboxAssumption ==
  /\ IsFiniteSet(Runs) /\ {Threads, MaxCrashes} \subseteq Nat
  /\ Faults \subseteq {"docker", "store", "cancel"}

VARIABLES
  caller,     \* where run_python is
  got,        \* the ExecutionResult it has: verdict and artifacts
  batch,      \* the batch directory of ArtifactStore.persist
  rows,       \* the rows of the batch
  worker,     \* where _execute_sync is
  answer,     \* the result it has so far
  container,  \* the container of the run; ok and bad are exits
  dir,        \* its output directory, and how much of the output is in it
  lapse,      \* history: what has left something behind
  exit,       \* history: how the code of the run ended
  crashes

vars == <<caller, got, batch, rows, worker, answer, container, dir, lapse, exit, crashes>>
callerVars == <<caller, got, batch, rows>>
hostVars   == <<container, dir>>
pastVars   == <<lapse, exit, crashes>>

\* The steps of a thread, and those of a caller that is not over yet.
InThread == {"mkdir", "create", "start", "wait", "kill", "logs", "collect",
             "remove", "rmtree"}
InFlight == {"waiting", "write", "commit", "clean"}
Results  == [verdict : {"ok", "failed"}, files : {"empty", "part", "whole"}]
Failure  == [verdict |-> "failed", files |-> "empty"]

TypeOK ==
  /\ caller \in [Runs -> InFlight \cup {"new", "answered", "failed", "cancelled"}]
  /\ got \in [Runs -> Results] /\ answer \in [Runs -> Results]
  /\ batch \in [Runs -> {"none", "part", "whole"}]
  /\ rows \in [Runs -> {"none", "stored"}]
  /\ worker \in [Runs -> InThread \cup {"none", "queued", "done", "dead"}]
  /\ container \in [Runs -> {"none", "created", "running", "ok", "bad"}]
  /\ dir \in [Runs -> {"none", "empty", "part", "whole"}]
  /\ lapse \in [Runs -> SUBSET {"create", "remove", "cut", "kept", "crash"}]
  /\ exit \in [Runs -> {"none", "ok", "bad"}]
  /\ crashes \in 0..MaxCrashes

Init ==
  /\ caller = [r \in Runs |-> "new"] /\ worker = [r \in Runs |-> "none"]
  /\ got = [r \in Runs |-> Failure] /\ answer = [r \in Runs |-> Failure]
  /\ batch = [r \in Runs |-> "none"] /\ rows = [r \in Runs |-> "none"]
  /\ container = [r \in Runs |-> "none"] /\ dir = [r \in Runs |-> "none"]
  /\ lapse = [r \in Runs |-> {}] /\ exit = [r \in Runs |-> "none"] /\ crashes = 0

-----------------------------------------------------------------------------
(* The thread: DockerPythonExecutor._execute_sync, one Docker call a step.  *)

At(r, pc) == worker[r] = pc
Goto(r, pc) == worker' = [worker EXCEPT ![r] = pc]
Result(r, what) == answer' = [answer EXCEPT ![r] = what]
Lapse(r, how) == lapse' = [lapse EXCEPT ![r] = @ \cup {how}] /\ UNCHANGED <<exit, crashes>>

\* How a failure that is caught leaves the try block: through its finally
\* clause, which removes the container if the thread has one.
ByFinally(hasContainer) == IF hasContainer THEN "remove" ELSE "rmtree"
Fail(r, hasContainer) ==
  "docker" \in Faults /\ Result(r, Failure) /\ Goto(r, ByFinally(hasContainer))

BusyWanted == {r \in Runs : worker[r] \in InThread /\ caller[r] = "waiting"}
Busy == {r \in Runs : worker[r] \in InThread}

\* _validate_payload, before a thread is asked for.
Refuse(r) ==
  /\ At(r, "queued") /\ Goto(r, "done")
  /\ UNCHANGED <<callerVars, answer, hostVars, pastVars>>

\* A thread of the pool takes the run up.
Begin(r) ==
  /\ At(r, "queued") /\ Cardinality(Busy) < Threads
  /\ Goto(r, "mkdir")
  /\ UNCHANGED <<callerVars, answer, hostVars, pastVars>>

\* Without the image nothing is made, and nothing is cleaned up.
MakeDir(r) ==
  /\ At(r, "mkdir")
  /\ \/ "docker" \in Faults /\ Goto(r, "done") /\ UNCHANGED <<dir, answer>>
     \/ dir' = [dir EXCEPT ![r] = "empty"] /\ Goto(r, "create") /\ UNCHANGED answer
     \/ dir' \in {dir, [dir EXCEPT ![r] = "empty"]} /\ Fail(r, FALSE)
  /\ UNCHANGED <<callerVars, container, pastVars>>

\* When the answer of Docker is lost, the container may be there all the same.
Create(r) ==
  /\ At(r, "create")
  /\ \/ /\ container' = [container EXCEPT ![r] = "created"]
        /\ Goto(r, "start") /\ UNCHANGED <<answer, pastVars>>
     \/ Fail(r, FALSE) /\ UNCHANGED <<container, pastVars>>
     \/ /\ container' = [container EXCEPT ![r] = "created"]
        /\ Fail(r, FALSE) /\ Lapse(r, "create")
  /\ UNCHANGED <<callerVars, dir>>

Start(r) ==
  /\ At(r, "start")
  /\ \/ /\ container' = [container EXCEPT ![r] = "running"]
        /\ Goto(r, "wait") /\ UNCHANGED answer
     \/ /\ container' \in {container, [container EXCEPT ![r] = "running"]}
        /\ Fail(r, TRUE)
  /\ UNCHANGED <<callerVars, dir, pastVars>>

VerdictAny(r) == "ok"
Verdict(r) == IF container[r] = "ok" THEN "ok" ELSE "failed"
WaitReturns(r) ==
  /\ At(r, "wait") /\ container[r] \in {"ok", "bad"}
  /\ Result(r, [verdict |-> Verdict(r), files |-> "empty"])
  /\ Goto(r, "logs")
  /\ UNCHANGED <<callerVars, hostVars, pastVars>>

\* The time limit, or Docker stops answering.
WaitTimesOutNever(r) == FALSE
WaitTimesOut(r) ==
  /\ At(r, "wait")
  /\ Result(r, Failure) /\ Goto(r, "kill")
  /\ UNCHANGED <<callerVars, hostVars, pastVars>>

\* The code of the run is over, by itself or killed.
Exit(r, how) ==
  container' = [container EXCEPT ![r] = how] /\ exit' = [exit EXCEPT ![r] = how]

Kill(r) ==
  /\ At(r, "kill") /\ Goto(r, "logs")
  /\ \/ container[r] = "running" /\ Exit(r, "bad")
     \/ (container[r] # "running" \/ "docker" \in Faults) /\ UNCHANGED <<container, exit>>
  /\ UNCHANGED <<callerVars, answer, dir, lapse, crashes>>

ReadLogs(r) ==
  /\ At(r, "logs")
  /\ \/ Goto(r, "collect") /\ UNCHANGED answer
     \/ Fail(r, TRUE)
  /\ UNCHANGED <<callerVars, hostVars, pastVars>>

\* The artifacts are read, or refused for their number, size or names.
AfterCollectDone == "done"
AfterCollect == "remove"
Collect(r) ==
  /\ At(r, "collect") /\ Goto(r, AfterCollect)
  /\ \/ Result(r, [answer[r] EXCEPT !.files = dir[r]])
     \/ Result(r, Failure)
  /\ UNCHANGED <<callerVars, hostVars, pastVars>>

\* A refusal is ignored.  An error of the transport is not: it replaces the
\* result and skips the removal of the directory.
Remove(r) ==
  /\ At(r, "remove")
  /\ \/ /\ container' = [container EXCEPT ![r] = "none"]
        /\ Goto(r, "rmtree") /\ UNCHANGED <<answer, pastVars>>
     \/ /\ "docker" \in Faults /\ UNCHANGED <<container, answer>>
        /\ Lapse(r, "remove") /\ Goto(r, "rmtree")
     \/ /\ "docker" \in Faults /\ Lapse(r, "cut")
        /\ container' \in {container, [container EXCEPT ![r] = "none"]}
        /\ Result(r, Failure) /\ Goto(r, "done")
  /\ UNCHANGED <<callerVars, dir>>

\* rmtree with ignore_errors: whatever cannot be removed stays, and nobody is
\* told.  So does a directory that the code has made in its output, as another
\* user, when the runner has lost the privilege to write there.
RemoveDir(r) ==
  /\ At(r, "rmtree") /\ Goto(r, "done")
  /\ \/ dir' = [dir EXCEPT ![r] = "none"] /\ UNCHANGED pastVars
     \/ dir[r] # "none" /\ UNCHANGED dir /\ Lapse(r, "kept")
  /\ UNCHANGED <<callerVars, answer, container>>

Thread(r) ==
  \/ Begin(r) \/ MakeDir(r) \/ Create(r) \/ Start(r) \/ WaitReturns(r)
  \/ WaitTimesOut(r) \/ Kill(r) \/ ReadLogs(r) \/ Collect(r) \/ Remove(r)
  \/ RemoveDir(r)

\* The code of the model: it may write output, and it ends or not.
ContainerStep(r) ==
  /\ container[r] = "running"
  /\ \/ /\ dir[r] = "empty" /\ dir' = [dir EXCEPT ![r] = "part"]
        /\ UNCHANGED <<container, exit>>
     \/ Exit(r, "bad") /\ UNCHANGED dir
     \/ /\ Exit(r, "ok")
        /\ dir' = [dir EXCEPT ![r] = IF @ = "part" THEN "whole" ELSE @]
  /\ UNCHANGED <<callerVars, worker, answer, lapse, crashes>>

-----------------------------------------------------------------------------
(* The caller: run_python, SandboxClient.execute, ArtifactStore.persist.   *)

Move(r, pc) == caller' = [caller EXCEPT ![r] = pc]

Ask(r) ==
  /\ caller[r] = "new" /\ Move(r, "waiting")
  /\ Goto(r, "queued")
  /\ UNCHANGED <<got, batch, rows, answer, hostVars, pastVars>>

\* Without artifacts there is nothing to store.
Receive(r) ==
  /\ caller[r] = "waiting" /\ At(r, "done")
  /\ got' = [got EXCEPT ![r] = answer[r]]
  /\ Move(r, IF answer[r].files = "empty" THEN "answered" ELSE "write")
  /\ UNCHANGED <<batch, rows, worker, answer, hostVars, pastVars>>

\* Its own timeout, which the thread does not learn of; or the runner is gone.
GiveUp(r) ==
  /\ caller[r] = "waiting" /\ Move(r, "answered")
  /\ UNCHANGED <<got, batch, rows, worker, answer, hostVars, pastVars>>

\* File after file.
Store(r) ==
  /\ caller[r] = "write"
  /\ \/ /\ batch[r] = "none" /\ batch' = [batch EXCEPT ![r] = "part"]
        /\ UNCHANGED caller
     \/ /\ batch[r] = "part" /\ batch' = [batch EXCEPT ![r] = "whole"]
        /\ Move(r, "commit")
     \/ /\ "store" \in Faults /\ UNCHANGED batch
        /\ Move(r, "clean")
  /\ UNCHANGED <<got, rows, worker, answer, hostVars, pastVars>>

\* A failed commit may have been applied, the answer being lost.
AfterLostCommitKept == "failed"
AfterLostCommit == "clean"
Commit(r) ==
  /\ caller[r] = "commit"
  /\ \/ rows' = [rows EXCEPT ![r] = "stored"] /\ Move(r, "answered")
     \/ /\ "store" \in Faults /\ Move(r, AfterLostCommit)
        /\ rows' \in {rows, [rows EXCEPT ![r] = "stored"]}
  /\ UNCHANGED <<got, batch, worker, answer, hostVars, pastVars>>

Clean(r) ==
  /\ caller[r] = "clean" /\ Move(r, "failed")
  /\ batch' = [batch EXCEPT ![r] = "none"]
  /\ UNCHANGED <<got, rows, worker, answer, hostVars, pastVars>>

\* The agent run is cancelled, or the backend stops.  except Exception does not
\* catch it; a write that a thread has begun goes on, a commit may be applied.
Cancel(r) ==
  /\ "cancel" \in Faults /\ caller[r] \in InFlight /\ Move(r, "cancelled")
  /\ batch' \in CASE caller[r] = "write" -> {batch} \cup {[batch EXCEPT ![r] = b] : b \in {"part", "whole"}}
                  [] caller[r] = "clean" -> {batch, [batch EXCEPT ![r] = "none"]}
                  [] OTHER               -> {batch}
  /\ rows' \in IF caller[r] = "commit" THEN {rows, [rows EXCEPT ![r] = "stored"]}
               ELSE {rows}
  /\ UNCHANGED <<got, worker, answer, hostVars, pastVars>>

Caller(r) == Receive(r) \/ GiveUp(r) \/ Store(r) \/ Commit(r) \/ Clean(r)

\* The runner starts anew and looks for nothing; its threads are gone.
RunnerCrash ==
  /\ crashes < MaxCrashes /\ crashes' = crashes + 1
  /\ worker' = [r \in Runs |-> IF worker[r] \in InThread \cup {"queued"}
                               THEN "dead" ELSE worker[r]]
  /\ lapse' = [r \in Runs |-> IF worker[r] \in InThread THEN lapse[r] \cup {"crash"}
                                ELSE lapse[r]]
  /\ UNCHANGED <<callerVars, answer, hostVars, exit>>

Next ==
  \/ \E r \in Runs : Ask(r) \/ Caller(r) \/ Cancel(r)
                     \/ Refuse(r) \/ Thread(r) \/ ContainerStep(r)
  \/ RunnerCrash

Spec == Init /\ [][Next]_vars

\* Every call to Docker has a timeout, and the pool takes up its queue.  A container
\* may run for ever, nobody has to ask, and no thread waits for its caller.
Fairness == \A r \in Runs : WF_vars(Thread(r))

FairSpec == Spec /\ Fairness

-----------------------------------------------------------------------------
(* What a run guarantees.                                                  *)

\* On whatever path a thread is over, its container is gone, unless Docker
\* refused or broke off the removal, or lost the answer about a container, which
\* then was never started; and its directory is gone, also when the container
\* is not, unless the removal of the container broke off and skipped it, or
\* rmtree could not remove it and did not say so (finally in _execute_sync).
NothingLeft ==
  \A r \in Runs : worker[r] = "done" =>
    /\ \/ container[r] = "none" \/ lapse[r] \cap {"remove", "cut"} # {}
       \/ container[r] = "created" /\ "create" \in lapse[r]
    /\ dir[r] = "none" \/ lapse[r] \cap {"cut", "kept"} # {}

\* Callers give up and ask again while threads work on; still no more containers
\* run than the pool has threads, but those whose removal failed and those a
\* crash of the runner has orphaned.
RunningAtMostThreads ==
  Cardinality({r \in Runs : /\ container[r] = "running"
                            /\ lapse[r] \cap {"remove", "cut", "crash"} = {}}) <= Threads

\* What the model is told succeeded has exited with 0, its output is complete,
\* and every artifact it is given a link to can be downloaded.
ToldTruth ==
  \A r \in Runs :
    caller[r] = "answered" /\ got[r].verdict = "ok" =>
      /\ exit[r] = "ok" /\ got[r].files # "part"
      /\ got[r].files = "whole" => rows[r] = "stored" /\ batch[r] = "whole"

\* A batch that is not stored is removed, however storing it fails; only a
\* cancellation leaves files without rows (except Exception in persist).
NoStrayBatch ==
  \A r \in Runs :
    /\ caller[r] = "failed" => batch[r] = "none"
    /\ caller[r] = "answered" /\ batch[r] # "none" => rows[r] = "stored"

\* A run whose caller is gone or not, whose code ends or not, is cleaned up and
\* gives its thread back: all that were asked for come to their turn.
ThreadEnds == \A r \in Runs : worker[r] = "queued" ~> worker[r] \in {"done", "dead"}
=============================================================================
