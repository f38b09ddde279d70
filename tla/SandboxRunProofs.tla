-------------------------- MODULE SandboxRunProofs --------------------------
(***************************************************************************)
(* Theorems about SandboxRun, for any number of runs, threads and crashes. *)
(* What a thread has made so far (HostOK) says what is left when it ends;  *)
(* what it may answer at which step (AnswerOK), and what a caller may have *)
(* stored (CallerOK), say what the model is told.                          *)
(***************************************************************************)
EXTENDS SandboxRun, FiniteSetTheorems, TLAPS

\* What a thread has made, and left, at each of its steps.
HostOK ==
  \A r \in Runs :
    /\ caller[r] = "new" => worker[r] = "none"
    /\ worker[r] \in {"none", "queued", "mkdir"} => dir[r] = "none"
    /\ worker[r] \in {"none", "queued", "mkdir", "create"} => container[r] = "none"
    /\ worker[r] \in {"create", "start", "wait", "kill", "logs", "collect"} =>
         dir[r] # "none"
    /\ worker[r] \in {"none", "queued"} \cup (InThread \ {"rmtree"}) => lapse[r] = {}
    /\ worker[r] = "rmtree" =>
         \/ container[r] = "none"
         \/ lapse[r] = {"create"} /\ container[r] = "created"
         \/ "remove" \in lapse[r]
    /\ worker[r] = "dead" /\ "crash" \notin lapse[r] => container[r] = "none"

\* How the code of a run ended is settled once, and after the start.
ExitOK ==
  \A r \in Runs :
    /\ worker[r] \in {"none", "queued", "mkdir", "create", "start"} => exit[r] = "none"
    /\ worker[r] = "start" => container[r] = "created"
    /\ exit[r] # "none" => container[r] # "running"
    /\ container[r] = "ok" => exit[r] = "ok"

\* A thread that answers ok has seen its container exit with 0, and an exit
\* with 0 completes the output.
AnswerOK ==
  \A r \in Runs :
    /\ container[r] = "ok" => dir[r] # "part"
    /\ answer[r].verdict = "ok" =>
         /\ exit[r] = "ok" /\ answer[r].files # "part"
         /\ worker[r] \in {"logs", "collect"} => container[r] = "ok"
    /\ worker[r] \in {"none", "queued", "mkdir", "create", "start", "wait", "kill"} =>
         answer[r] = Failure

\* What a caller knows and has stored at each of its steps.
CallerOK ==
  \A r \in Runs :
    /\ got[r].verdict = "ok" => exit[r] = "ok" /\ got[r].files # "part"
    /\ caller[r] \in {"new", "waiting"} => got[r] = Failure /\ batch[r] = "none"
    /\ caller[r] = "commit" => batch[r] = "whole"

PoolOK == Cardinality(Busy) <= Threads

RunInv ==
  /\ TypeOK /\ HostOK /\ ExitOK /\ AnswerOK /\ CallerOK
  /\ NothingLeft /\ ToldTruth /\ NoStrayBatch

-----------------------------------------------------------------------------
(* Types.                                                                  *)

LEMMA InitTyped == Init => TypeOK
  BY SandboxAssumption DEF Init, TypeOK, InThread, InFlight, Results, Failure,
     SandboxAssumption

LEMMA ThreadTyped == 
  ASSUME TypeOK, HostOK, NEW r \in Runs, Thread(r) \/ Refuse(r) PROVE TypeOK'
<1> USE DEF TypeOK, At, Goto, Result, Lapse, Fail, ByFinally, callerVars, hostVars,
            pastVars
<1>1. Failure \in Results BY DEF Failure, Results
<1>2. CASE Begin(r) \/ MakeDir(r) \/ Create(r) \/ Start(r)
  BY <1>1, <1>2 DEF Begin, MakeDir, Create, Start, InThread
<1>3. CASE WaitReturns(r)
  <2>1. [verdict |-> Verdict(r), files |-> "empty"] \in Results
    BY DEF Verdict, Results
  <2> QED BY <1>3, <2>1 DEF WaitReturns, InThread
<1>4. CASE WaitTimesOut(r) \/ Kill(r) \/ ReadLogs(r) \/ Refuse(r)
  BY <1>1, <1>4 DEF WaitTimesOut, Kill, Exit, ReadLogs, Refuse, InThread
<1>5. CASE Collect(r)
  <2>1. worker[r] = "collect" /\ dir[r] \in {"empty", "part", "whole"}
    BY <1>5 DEF Collect, HostOK, InThread
  <2>2. [answer[r] EXCEPT !.files = dir[r]] \in Results BY <2>1 DEF Results
  <2> QED BY <1>1, <1>5, <2>2 DEF Collect, AfterCollect, InThread
<1>6. CASE Remove(r) \/ RemoveDir(r)
  BY <1>1, <1>6 DEF Remove, RemoveDir, InThread
<1> QED BY <1>2, <1>3, <1>4, <1>5, <1>6 DEF Thread

LEMMA CallerTyped ==
  ASSUME TypeOK, NEW r \in Runs, Ask(r) \/ Caller(r) \/ Cancel(r) PROVE TypeOK'
<1> USE DEF TypeOK, Goto, Move, hostVars, pastVars, InFlight
<1>1. CASE Ask(r) BY <1>1 DEF Ask
<1>2. CASE Receive(r) BY <1>2 DEF Receive, At
<1>3. CASE GiveUp(r) \/ Store(r) \/ Commit(r) \/ Clean(r)
  BY <1>3 DEF GiveUp, Store, Commit, Clean, AfterLostCommit
<1>4. CASE Cancel(r) BY <1>4 DEF Cancel
<1> QED BY <1>1, <1>2, <1>3, <1>4 DEF Caller

LEMMA WorldTyped ==
  ASSUME TypeOK,
         (\E r \in Runs : ContainerStep(r)) \/ RunnerCrash \/ UNCHANGED vars
  PROVE  TypeOK'
<1> USE DEF TypeOK, callerVars, hostVars, pastVars
<1>1. CASE \E r \in Runs : ContainerStep(r) BY <1>1 DEF ContainerStep, Exit
<1>2. CASE RunnerCrash
  <2>1. crashes' \in 0..MaxCrashes BY <1>2, SandboxAssumption DEF RunnerCrash
  <2> QED BY <1>2, <2>1 DEF RunnerCrash
<1>3. CASE UNCHANGED vars BY <1>3 DEF vars
<1> QED BY <1>1, <1>2, <1>3

-----------------------------------------------------------------------------
(* What threads and containers do.                                         *)

ThreadInv == TypeOK /\ HostOK /\ ExitOK /\ AnswerOK /\ NothingLeft

\* Every step of a thread keeps what is known of all runs.
LEMMA ThreadKeeps ==
  ASSUME ThreadInv, NEW r \in Runs, Thread(r) \/ Refuse(r)
  PROVE  HostOK' /\ ExitOK' /\ AnswerOK' /\ NothingLeft'
<1> USE DEF ThreadInv, TypeOK, HostOK, ExitOK, AnswerOK, NothingLeft, At, Goto, Result,
            Lapse, Fail, ByFinally, callerVars, hostVars, pastVars, InThread, Failure
<1>1. CASE Begin(r) \/ Refuse(r) BY <1>1 DEF Begin, Refuse
<1>2. CASE MakeDir(r) BY <1>2 DEF MakeDir
<1>3. CASE Create(r) BY <1>3 DEF Create
<1>4. CASE Start(r) BY <1>4 DEF Start
<1>5. CASE WaitReturns(r) BY <1>5 DEF WaitReturns, Verdict
<1>6. CASE WaitTimesOut(r) BY <1>6 DEF WaitTimesOut
<1>7. CASE Kill(r) BY <1>7 DEF Kill, Exit
<1>8. CASE ReadLogs(r) BY <1>8 DEF ReadLogs
<1>9. CASE Collect(r) BY <1>9 DEF Collect, AfterCollect, Results
<1>10. CASE Remove(r)
  <2> USE <1>10 DEF Remove
  <2>1. HostOK' OBVIOUS
  <2>2. ExitOK' OBVIOUS
  <2>3. AnswerOK' OBVIOUS
  <2>4. NothingLeft'
    <3>1. lapse[r] = {} /\ (worker'[r] = "done" => "cut" \in lapse'[r]) OBVIOUS
    <3>2. \A q \in Runs \ {r} :
            UNCHANGED <<worker[q], container[q], dir[q], lapse[q]>>
      OBVIOUS
    <3>3. CASE worker'[r] = "done" BY <3>1, <3>2, <3>3
    <3>4. CASE worker'[r] # "done" BY <3>2, <3>4
    <3> QED BY <3>3, <3>4
  <2> QED BY <2>1, <2>2, <2>3, <2>4
<1>11. CASE RemoveDir(r)
  <2> USE <1>11 DEF RemoveDir
  <2>1. HostOK' OBVIOUS
  <2>2. ExitOK' OBVIOUS
  <2>3. AnswerOK' OBVIOUS
  <2>4. NothingLeft'
    <3>1. /\ worker[r] = "rmtree" /\ container' = container
          /\ dir'[r] = "none" \/ "kept" \in lapse'[r]
      OBVIOUS
    <3>2. lapse[r] \subseteq lapse'[r] /\ (lapse[r] = {"create"} => "create" \in lapse'[r])
      OBVIOUS
    <3>3. \A q \in Runs \ {r} : UNCHANGED <<worker[q], dir[q], lapse[q]>>
      OBVIOUS
    <3>4. \/ container[r] = "none"
          \/ lapse[r] = {"create"} /\ container[r] = "created"
          \/ "remove" \in lapse[r]
      BY <3>1
    <3> HIDE <1>11 DEF RemoveDir, HostOK, ExitOK, AnswerOK, Lapse, Goto
    <3>5. ASSUME NEW q \in Runs, worker'[q] = "done"
          PROVE  /\ \/ container'[q] = "none" \/ lapse'[q] \cap {"remove", "cut"} # {}
                    \/ container'[q] = "created" /\ "create" \in lapse'[q]
                 /\ dir'[q] = "none" \/ lapse'[q] \cap {"cut", "kept"} # {}
      <4>1. CASE q = r BY <3>1, <3>2, <3>4, <4>1
      <4>2. CASE q # r BY <3>1, <3>3, <3>5, <4>2
      <4> QED BY <4>1, <4>2
    <3> QED BY <3>5
  <2> QED BY <2>1, <2>2, <2>3, <2>4
<1> QED BY <1>1, <1>2, <1>3, <1>4, <1>5, <1>6, <1>7, <1>8, <1>9, <1>10, <1>11
        DEF Thread

\* The code in the container, and a crash of the runner.
LEMMA WorldKeeps ==
  ASSUME ThreadInv,
         (\E r \in Runs : ContainerStep(r)) \/ RunnerCrash \/ UNCHANGED vars
  PROVE  HostOK' /\ ExitOK' /\ AnswerOK' /\ NothingLeft'
<1> USE DEF ThreadInv, TypeOK, HostOK, ExitOK, AnswerOK, NothingLeft, InThread,
            callerVars
<1>1. CASE \E r \in Runs : ContainerStep(r)
  BY <1>1 DEF ContainerStep, Exit
<1>2. CASE RunnerCrash BY <1>2 DEF RunnerCrash, hostVars
<1>3. CASE UNCHANGED vars BY <1>3 DEF vars
<1> QED BY <1>1, <1>2, <1>3

\* A caller starts its thread, and does not touch it afterwards.
LEMMA CallerKeepsThread ==
  ASSUME ThreadInv, NEW r \in Runs, Ask(r) \/ Caller(r) \/ Cancel(r)
  PROVE  HostOK' /\ ExitOK' /\ AnswerOK' /\ NothingLeft'
<1> USE DEF ThreadInv, TypeOK, HostOK, ExitOK, AnswerOK, NothingLeft, Goto, hostVars, pastVars
<1>1. CASE Ask(r) BY <1>1 DEF Ask, InThread, Move
<1>2. CASE Caller(r) \/ Cancel(r)
  <2> USE <1>2 DEF Caller, Receive, GiveUp, Store, Commit, Clean, Cancel
  <2>1. UNCHANGED <<worker, answer, container, dir, lapse, exit>>
    OBVIOUS
  <2>2. \A q \in Runs : caller'[q] = "new" => caller[q] = "new"
    BY DEF Move, InFlight, AfterLostCommit
  <2> QED BY <2>1, <2>2
<1> QED BY <1>1, <1>2

-----------------------------------------------------------------------------
(* What callers know and store.                                            *)

CallerInv == TypeOK /\ CallerOK /\ ToldTruth /\ NoStrayBatch

LEMMA CallerKeeps ==
  ASSUME CallerInv, AnswerOK, NEW r \in Runs, Ask(r) \/ Caller(r) \/ Cancel(r)
  PROVE  CallerOK' /\ ToldTruth' /\ NoStrayBatch'
<1> USE DEF CallerInv, TypeOK, CallerOK, ToldTruth, NoStrayBatch, Move, InFlight, Failure,
            pastVars
<1>1. CASE Ask(r) BY <1>1 DEF Ask
<1>2. CASE Receive(r) BY <1>2 DEF Receive, AnswerOK, Results
<1>3. CASE GiveUp(r) BY <1>3 DEF GiveUp
<1>4. CASE Store(r) BY <1>4 DEF Store
<1>5. CASE Commit(r) BY <1>5 DEF Commit, AfterLostCommit
<1>6. CASE Clean(r) BY <1>6 DEF Clean
<1>7. CASE Cancel(r) BY <1>7 DEF Cancel
<1> QED BY <1>1, <1>2, <1>3, <1>4, <1>5, <1>6, <1>7 DEF Caller

\* Code that has exited does not run again.
ExitStays == \A r \in Runs : exit[r] = "ok" => exit'[r] = "ok"

\* Nothing else changes what a caller has.
LEMMA OthersKeepCaller ==
  ASSUME CallerInv, UNCHANGED callerVars, ExitStays
  PROVE  CallerOK' /\ ToldTruth' /\ NoStrayBatch'
  BY DEF CallerInv, callerVars, ExitStays, CallerOK, ToldTruth, NoStrayBatch

LEMMA ThreadLeavesCaller ==
  ASSUME TypeOK, ExitOK, NEW r \in Runs, Thread(r) \/ Refuse(r)
  PROVE  UNCHANGED callerVars /\ ExitStays
<1> USE DEF Thread, Refuse, Begin, MakeDir, Create, Start, WaitReturns, WaitTimesOut, Kill,
            ReadLogs, Collect, Remove, RemoveDir
<1>1. UNCHANGED callerVars OBVIOUS
<1>2. CASE Kill(r) BY <1>2 DEF Exit, ExitOK, ExitStays, TypeOK
<1>3. CASE ~Kill(r)
  <2>1. UNCHANGED exit BY <1>3 DEF Fail, Lapse, pastVars
  <2> QED BY <2>1 DEF ExitStays
<1> QED BY <1>1, <1>2, <1>3

-----------------------------------------------------------------------------
(* The invariant.                                                          *)

LEMMA InitRun == Init => RunInv
<1>1. Init => HostOK /\ ExitOK /\ NothingLeft
  BY DEF Init, HostOK, ExitOK, NothingLeft, InThread
<1>2. Init => AnswerOK /\ CallerOK /\ ToldTruth /\ NoStrayBatch
  BY DEF Init, AnswerOK, CallerOK, ToldTruth, NoStrayBatch, Failure
<1> QED BY <1>1, <1>2, InitTyped DEF RunInv

LEMMA NextRun == RunInv /\ [Next]_vars => RunInv'
<1> SUFFICES ASSUME RunInv, [Next]_vars PROVE RunInv'
  OBVIOUS
<1>0. ThreadInv /\ CallerInv BY DEF RunInv, ThreadInv, CallerInv
<1>1. ASSUME NEW r \in Runs, Ask(r) \/ Caller(r) \/ Cancel(r) PROVE RunInv'
  BY <1>0, <1>1, CallerTyped, CallerKeepsThread, CallerKeeps DEF RunInv
<1>2. ASSUME NEW r \in Runs, Thread(r) \/ Refuse(r) PROVE RunInv'
  BY <1>0, <1>2, ThreadTyped, ThreadKeeps, ThreadLeavesCaller, OthersKeepCaller DEF RunInv
<1>3. CASE (\E r \in Runs : ContainerStep(r)) \/ RunnerCrash \/ UNCHANGED vars
  <2>1. UNCHANGED callerVars BY <1>3 DEF ContainerStep, RunnerCrash, vars, callerVars
  <2>2. ExitStays
    BY <1>3 DEF RunInv, TypeOK, ExitOK, ExitStays, Exit, ContainerStep, RunnerCrash, vars
  <2> QED BY <1>0, <1>3, <2>1, <2>2, WorldTyped, WorldKeeps, OthersKeepCaller DEF RunInv
<1> QED BY <1>1, <1>2, <1>3 DEF Next

LEMMA RunAlways == Spec => []RunInv
  BY InitRun, NextRun, PTL DEF Spec

\* Every variable keeps its type; no step meets a directory that is not there.
THEOREM SandboxTypeCorrect == Spec => []TypeOK
<1>1. RunInv => TypeOK BY DEF RunInv
<1> QED BY <1>1, RunAlways, PTL

\* On every path through _execute_sync its finally clause leaves no container,
\* unless Docker failed at the removal or lost an answer, and no directory,
\* unless the removal of the container broke off or rmtree failed in silence.
THEOREM LeavesNothing == Spec => []NothingLeft
<1>1. RunInv => NothingLeft BY DEF RunInv
<1> QED BY <1>1, RunAlways, PTL

\* run_python reports success only of code that has exited with 0, and links
\* only to output that is complete and stored.
THEOREM TellsTheTruth == Spec => []ToldTruth
<1>1. RunInv => ToldTruth BY DEF RunInv
<1> QED BY <1>1, RunAlways, PTL

\* However persist fails, it leaves no files without rows, unless cancelled.
THEOREM StraysNot == Spec => []NoStrayBatch
<1>1. RunInv => NoStrayBatch BY DEF RunInv
<1> QED BY <1>1, RunAlways, PTL

-----------------------------------------------------------------------------
(* The pool.                                                               *)

\* Only Begin takes a thread, and only a free one.
LEMMA PoolStep == RunInv /\ PoolOK /\ [Next]_vars => PoolOK'
<1> SUFFICES ASSUME RunInv, PoolOK, [Next]_vars PROVE PoolOK'
  OBVIOUS
<1>1. IsFiniteSet(Busy) /\ IsFiniteSet(Busy')
  BY SandboxAssumption, FS_Subset DEF Busy, SandboxAssumption
<1>2. ASSUME Busy' \subseteq Busy PROVE PoolOK'
  <2>1. Cardinality(Busy') <= Cardinality(Busy) BY <1>1, <1>2, FS_Subset
  <2>2. Cardinality(Busy) \in Nat /\ Cardinality(Busy') \in Nat /\ Threads \in Nat
    BY <1>1, FS_CardinalityType, SandboxAssumption DEF SandboxAssumption
  <2> QED BY <2>1, <2>2 DEF PoolOK
<1>3. ASSUME NEW r \in Runs, Begin(r) PROVE PoolOK'
  <2>1. Busy' = Busy \cup {r} /\ r \notin Busy
    BY <1>3 DEF RunInv, TypeOK, Begin, Busy, At, Goto, InThread
  <2>2. Cardinality(Busy') = Cardinality(Busy) + 1
    BY <1>1, <2>1, FS_AddElement
  <2>3. Cardinality(Busy) \in Nat /\ Threads \in Nat
    BY <1>1, FS_CardinalityType, SandboxAssumption DEF SandboxAssumption
  <2>4. Cardinality(Busy) < Threads BY <1>3 DEF Begin
  <2> QED BY <2>2, <2>3, <2>4 DEF PoolOK
<1>4. ASSUME NEW r \in Runs, Ask(r) \/ Refuse(r) PROVE Busy' \subseteq Busy
  BY <1>4 DEF RunInv, TypeOK, Ask, Refuse, Busy, At, Goto, InThread
<1>5. ASSUME NEW r \in Runs, Thread(r), ~Begin(r) PROVE Busy' \subseteq Busy
  <2> USE <1>5 DEF Thread, MakeDir, Create, Start, WaitReturns, WaitTimesOut, Kill,
                   ReadLogs, Collect, Remove, RemoveDir, At
  <2>1. worker[r] \in InThread BY DEF InThread
  <2>2. \E pc : Goto(r, pc) BY DEF Fail
  <2>3. \A q \in Runs \ {r} : worker'[q] = worker[q]
    BY <2>2 DEF RunInv, TypeOK, Goto
  <2> QED BY <2>1, <2>3 DEF Busy
<1>6. CASE UNCHANGED worker BY <1>2, <1>6 DEF Busy
<1>7. CASE RunnerCrash
  <2>1. Busy' \subseteq Busy BY <1>7 DEF RunInv, TypeOK, RunnerCrash, Busy, InThread
  <2> QED BY <1>2, <2>1
<1>8. ASSUME NEW r \in Runs, Caller(r) \/ Cancel(r) \/ ContainerStep(r)
      PROVE  UNCHANGED worker
  BY <1>8 DEF Caller, Receive, GiveUp, Store, Commit, Clean, Cancel, ContainerStep
<1> QED BY <1>2, <1>3, <1>4, <1>5, <1>6, <1>7, <1>8 DEF Next, vars

\* A container that runs, and has not been left behind, has a thread.
LEMMA RunningHasThread ==
  ASSUME RunInv, PoolOK PROVE RunningAtMostThreads
<1> DEFINE Kept == {r \in Runs : /\ container[r] = "running"
                                /\ lapse[r] \cap {"remove", "cut", "crash"} = {}}
<1>1. Kept \subseteq Busy
  BY DEF RunInv, TypeOK, HostOK, NothingLeft, Busy, InThread
<1>2. IsFiniteSet(Busy) BY SandboxAssumption, FS_Subset DEF Busy, SandboxAssumption
<1>3. Cardinality(Kept) <= Cardinality(Busy) /\ IsFiniteSet(Kept)
  BY <1>1, <1>2, FS_Subset
<1>4. Cardinality(Kept) \in Nat /\ Cardinality(Busy) \in Nat /\ Threads \in Nat
  BY <1>2, <1>3, FS_CardinalityType, SandboxAssumption DEF SandboxAssumption
<1> QED BY <1>3, <1>4 DEF PoolOK, RunningAtMostThreads

\* Whoever gives up and asks again, no more code runs at a time than the runner
\* has threads, but what Docker failed to remove or a crash orphaned.
THEOREM PoolBoundsRunning == Spec => []RunningAtMostThreads
<1>1. Init => PoolOK
  <2>1. Init => Busy = {} BY DEF Init, Busy, InThread
  <2>2. Cardinality({}) = 0 /\ Threads \in Nat
    BY FS_EmptySet, SandboxAssumption DEF SandboxAssumption
  <2> QED BY <2>1, <2>2 DEF PoolOK
<1>2. RunInv /\ PoolOK => RunningAtMostThreads BY RunningHasThread
<1> QED BY <1>1, <1>2, RunAlways, PoolStep, PTL DEF Spec
=============================================================================
