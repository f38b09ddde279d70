-------------------------- MODULE MCPClientProofs --------------------------
(***************************************************************************)
(* Proofs about MCPClient for every number of callers, every server and    *)
(* every way they interleave with the owner task.                          *)
(***************************************************************************)
EXTENDS MCPRefinement, SequenceTheorems, TLAPS

\* What the owner does fits what it serves.
ServingOK ==
  /\ owner \in {"idle", "gone"} <=> job = "none"
  /\ owner = "call" => job \in {"call", "retry"}
  /\ owner = "ping" => job \in {"probe", "maintain"}
  /\ owner = "list" => job = "maintain"
  /\ job \in {"call", "retry"} => request \in Calls
  /\ job \in {"none", "start", "maintain"} => request = Nobody
  /\ job = "probe" => request \in Probes /\ owner = "ping"

MInv == TypeOK /\ ServingOK

\* A call in the queue has been asked for and not been sent; it is there once.
QueueOK ==
  \A i \in DOMAIN queue :
    queue[i] \in Calls =>
      /\ queue[i] # request /\ sends[queue[i]] = <<>>
      /\ fate[queue[i]] \in {"asked", "cancelled"}
      /\ \A j \in DOMAIN queue : queue[i] = queue[j] => i = j

NoResult == {"refused", "lost"}

\* The call being served brought no result so far, and each time it was sent
\* used up a retry.
SendsOK ==
  /\ job \in {"call", "retry"} =>
       /\ fate[request] \in {"asked", "cancelled"}
       /\ Len(sends[request]) + retries <= CallRetries
       /\ \A i \in DOMAIN sends[request] : sends[request][i] \in NoResult
  /\ \A c \in Calls : fate[c] = "new" => sends[c] = <<>>

CallInv == MInv /\ QueueOK /\ SendsOK

-----------------------------------------------------------------------------
(* Types.                                                                  *)

LEMMA Limits ==
  /\ ConnectAttempts \in Nat /\ ConnectAttempts > 0
  /\ CallRetries \in Nat /\ MaxTroubles \in Nat
  BY MCPAssumption

LEMMA InitTyped == Init => MInv
<1> SUFFICES ASSUME Init PROVE MInv
  OBVIOUS
<1>1. {} \in Listings
  BY DEF Listings
<1>2. <<>> \in Seq(Requests \cup {Shutdown}) /\ <<>> \in Seq(Ends)
  OBVIOUS
<1>3. fate \in [Requests -> Fates] /\ sends \in [Calls -> Seq(Ends)]
  BY <1>2 DEF Init, Fates
<1>4. tries \in 0..ConnectAttempts /\ retries \in 0..CallRetries /\ troubles \in 0..MaxTroubles
  BY MCPAssumption DEF Init
<1>5. TypeOK
  BY <1>1, <1>2, <1>3, <1>4 DEF Init, TypeOK
<1>6. ServingOK
  BY DEF Init, ServingOK
<1> QED BY <1>5, <1>6 DEF MInv

LEMMA LearnTyped ==
  ASSUME fate \in [Requests -> Fates], NEW what \in Fates, Learn(what)
  PROVE  fate' \in [Requests -> Fates]
  BY DEF Learn

LEMMA CallersTyped ==
  MInv /\ ((\E r \in Requests : Ask(r) \/ Leave(r)) \/ CloseAsk \/ CloseReturn)
    => MInv'
<1> SUFFICES ASSUME MInv,
                    (\E r \in Requests : Ask(r) \/ Leave(r)) \/ CloseAsk \/ CloseReturn
             PROVE  MInv'
  OBVIOUS
<1> USE DEF MInv, TypeOK, servingVars, listingVars, clientVars, serverVars
<1>1. CASE \E r \in Requests : Ask(r)
  BY <1>1 DEF Ask, Open, ServingOK, Fates
<1>2. CASE \E r \in Requests : Leave(r)
  BY <1>2 DEF Leave, ServingOK, Fates
<1>3. CASE CloseAsk
  BY <1>3 DEF CloseAsk, Open, ServingOK
<1>4. CASE CloseReturn
  BY <1>4 DEF CloseReturn, ServingOK
<1> QED BY <1>1, <1>2, <1>3, <1>4

LEMMA TakeTyped == MInv /\ Take => MInv'
<1> SUFFICES ASSUME MInv, Take PROVE MInv'
  OBVIOUS
<1> USE DEF MInv, TypeOK, servingVars, listingVars, clientVars, serverVars, Take
<1>1. Head(queue) \in Requests \cup {Shutdown} /\ Tail(queue) \in Seq(Requests \cup {Shutdown})
  BY HeadTailProperties
<1>2. CASE request' = Head(queue) /\ TakeCall
  <2>1. /\ tries' \in 0..ConnectAttempts /\ retries' \in 0..CallRetries
        /\ session' \in {"none", "live", "dead"} /\ request' \in Calls
        /\ owner' \in {"connect", "call"} /\ job' = "call" /\ fate' = fate
    <3>1. CASE Connected
      BY <1>2, <3>1, Limits DEF TakeCall, ServingOK
    <3>2. CASE ~Connected
      BY <1>2, <3>2, Limits DEF TakeCall, Connect
    <3> QED BY <3>1, <3>2
  <2> QED BY <1>1, <2>1 DEF ServingOK, Requests
<1>3. CASE TakeProbe
  BY <1>1, <1>3 DEF TakeProbe, Idle, ServingOK, Fates, Requests
<1>4. CASE TakeShutdown
  BY <1>1, <1>4 DEF TakeShutdown, AfterShutdown, ServingOK
<1> QED BY <1>2, <1>3, <1>4

LEMMA MaintainTyped == MInv /\ Maintain => MInv'
<1> SUFFICES ASSUME MInv, Maintain PROVE MInv'
  OBVIOUS
<1> USE DEF MInv, TypeOK, servingVars, listingVars, clientVars, serverVars
<1>1. /\ tries' \in 0..ConnectAttempts /\ owner' \in {"connect", "ping"}
      /\ session' \in {"none", "live", "dead"} /\ request' = Nobody
      /\ job' = "maintain"
  <2>1. CASE Connected
    BY <2>1 DEF Maintain, TimedOut, ServingOK
  <2>2. CASE ~Connected
    BY <2>2, Limits DEF Maintain, TimedOut, Connect, ServingOK
  <2> QED BY <2>1, <2>2
<1> QED BY <1>1 DEF Maintain, ServingOK

LEMMA ListedTyped ==
  ASSUME TypeOK, Listed PROVE tools' \in Listings /\ registry' \subseteq Tools /\ age' = "fresh"
  BY DEF TypeOK, Listed, Synced, Listings, Malformed

LEMMA ConnectTyped ==
  MInv /\ (ConnectOk \/ ConnectAgain \/ ConnectFails) => MInv'
<1> SUFFICES ASSUME MInv, ConnectOk \/ ConnectAgain \/ ConnectFails PROVE MInv'
  OBVIOUS
<1> USE DEF MInv, TypeOK, servingVars, listingVars, clientVars, serverVars
<1>1. CASE ConnectOk
  BY <1>1, ListedTyped DEF ConnectOk, Idle, ServingOK
<1>2. CASE ConnectAgain
  <2>1. tries' \in 0..ConnectAttempts
    BY <1>2, Limits DEF ConnectAgain
  <2> QED BY <1>2, <2>1 DEF ConnectAgain, ServingOK
<1>3. CASE ConnectFails
  <2>1. CASE job = "retry" /\ MayRetry
    <3>1. tries' \in 0..ConnectAttempts /\ retries' \in 0..CallRetries
      BY <1>3, <2>1, Limits DEF ConnectFails, RetryCall, Connect, MayRetry
    <3> QED BY <1>3, <2>1, <3>1 DEF ConnectFails, RetryCall, Connect, ServingOK
  <2>2. CASE ~(job = "retry" /\ MayRetry)
    <3>1. fate' \in [Requests -> Fates]
      BY <1>3, <2>2, LearnTyped DEF ConnectFails, Fail, GiveUp, Fates
    <3> QED BY <1>3, <2>2, <3>1 DEF ConnectFails, Fail, Idle, ServingOK
  <2> QED BY <2>1, <2>2
<1> QED BY <1>1, <1>2, <1>3

LEMMA CallEndsTyped == MInv /\ CallEnds => MInv'
<1> SUFFICES ASSUME MInv, CallEnds PROVE MInv'
  OBVIOUS
<1> USE DEF MInv, TypeOK, servingVars, listingVars, clientVars, serverVars
<1>1. PICK end \in Ends :
        /\ sends' = [sends EXCEPT ![request] = Append(@, end)]
        /\ IF ~Retried(end)
           THEN Learn(end) /\ Idle /\ UNCHANGED <<session, tries, retries>>
           ELSE IF MayRetry
                THEN RetryCall
                ELSE /\ Fail /\ session' = "none"
                     /\ UNCHANGED <<tries, retries>>
  BY DEF CallEnds, Ends
<1>2. request \in Calls
  BY DEF CallEnds, ServingOK
<1>3. sends' \in [Calls -> Seq(Ends)]
  BY <1>1, <1>2
<1>4. CASE ~Retried(end)
  <2>1. fate' \in [Requests -> Fates]
    <3>1. end \in Fates
      BY <1>1, <1>4 DEF Fates, Ends, Retried
    <3> QED BY <1>1, <1>4, <3>1, LearnTyped
  <2> QED BY <1>1, <1>3, <1>4, <2>1 DEF CallEnds, Idle, ServingOK
<1>5. CASE Retried(end) /\ MayRetry
  <2>1. tries' \in 0..ConnectAttempts /\ retries' \in 0..CallRetries
    BY <1>1, <1>5, Limits DEF RetryCall, Connect, MayRetry
  <2> QED BY <1>1, <1>2, <1>3, <1>5, <2>1 DEF CallEnds, RetryCall, Connect, ServingOK
<1>6. CASE Retried(end) /\ ~MayRetry
  <2>1. fate' \in [Requests -> Fates]
    BY <1>1, <1>2, <1>6, LearnTyped DEF Fail, GiveUp, Fates
  <2> QED BY <1>1, <1>3, <1>6, <2>1 DEF CallEnds, Fail, Idle, ServingOK
<1> QED BY <1>4, <1>5, <1>6

LEMMA PingListTyped == MInv /\ (PingEnds \/ ListEnds) => MInv'
<1> SUFFICES ASSUME MInv, PingEnds \/ ListEnds PROVE MInv'
  OBVIOUS
<1> USE DEF MInv, TypeOK, servingVars, listingVars, clientVars, serverVars
<1>1. CASE PingEnds
  <2>1. fate' \in [Requests -> Fates]
    BY <1>1, LearnTyped DEF PingEnds, Fates
  <2>2. CASE job = "probe" \/ ~(session = "live" /\ age = "old")
    BY <1>1, <2>1, <2>2 DEF PingEnds, KeepIfLive, Idle, ServingOK
  <2>3. CASE job # "probe" /\ session = "live" /\ age = "old"
    BY <1>1, <2>1, <2>3 DEF PingEnds, KeepIfLive, ServingOK
  <2> QED BY <2>2, <2>3
<1>2. CASE ListEnds
  BY <1>2, ListedTyped DEF ListEnds, KeepIfLive, Idle, ServingOK
<1> QED BY <1>1, <1>2

LEMMA WorldTyped == MInv /\ (Elapse \/ Trouble \/ Repair \/ UNCHANGED vars) => MInv'
<1> SUFFICES ASSUME MInv, Elapse \/ Trouble \/ Repair \/ UNCHANGED vars PROVE MInv'
  OBVIOUS
<1> USE DEF MInv, TypeOK, servingVars, listingVars, clientVars, serverVars
<1>1. CASE Elapse \/ Repair \/ UNCHANGED vars
  BY <1>1 DEF Elapse, Repair, vars, ServingOK
<1>2. CASE Trouble
  <2>1. troubles' \in 0..MaxTroubles
    BY <1>2, Limits DEF Trouble
  <2> QED BY <1>2, <2>1 DEF Trouble, ServingOK
<1> QED BY <1>1, <1>2

LEMMA NextTyped == MInv /\ [Next]_vars => MInv'
  BY CallersTyped, TakeTyped, MaintainTyped, ConnectTyped, CallEndsTyped,
     PingListTyped, WorldTyped
  DEF Next, OwnerStep

LEMMA TypedAlways == Spec => []MInv
  BY InitTyped, NextTyped, PTL DEF Spec

\* Every variable keeps its type: the owner never counts attempts or retries
\* below zero and never serves what is not a request.
THEOREM MCPTypeCorrect == Spec => []TypeOK
<1>1. MInv => TypeOK
  BY DEF MInv
<1> QED BY <1>1, TypedAlways, PTL

-----------------------------------------------------------------------------
(* No caller is forgotten.                                                 *)

LEMMA AskForgetsNone ==
  ASSUME MInv, NoneForgotten, NEW r \in Requests, Ask(r) PROVE NoneForgotten'
<1> SUFFICES ASSUME NEW q \in Requests, fate'[q] = "asked"
             PROVE  Queued(q)' \/ request' = q
  BY DEF NoneForgotten
<1>1. queue \in Seq(Requests \cup {Shutdown}) /\ queue' = Append(queue, r)
  BY DEF MInv, TypeOK, Ask
<1>2. CASE q = r
  <2>1. Len(queue) + 1 \in DOMAIN queue' /\ queue'[Len(queue) + 1] = q
    BY <1>1, <1>2
  <2> QED BY <2>1 DEF Queued
<1>3. CASE q # r
  <2>1. fate[q] = "asked" /\ request' = request
    BY <1>3 DEF MInv, TypeOK, Ask
  <2>2. CASE Queued(q)
    <3>1. PICK i \in DOMAIN queue : queue[i] = q
      BY <2>2 DEF Queued
    <3>2. i \in DOMAIN queue' /\ queue'[i] = q
      BY <1>1, <3>1
    <3> QED BY <3>2 DEF Queued
  <2> QED BY <2>1, <2>2 DEF NoneForgotten
<1> QED BY <1>2, <1>3

LEMMA CloseAskForgetsNone ==
  ASSUME MInv, NoneForgotten, CloseAsk PROVE NoneForgotten'
  BY DEF NoneForgotten, CloseAsk

\* What is taken from the head of the queue is served, answered, or no request.
LEMMA TakeForgetsNone ==
  ASSUME MInv, NoneForgotten, Take PROVE NoneForgotten'
<1> SUFFICES ASSUME NEW q \in Requests, fate'[q] = "asked"
             PROVE  Queued(q)' \/ request' = q
  BY DEF NoneForgotten
<1>1. queue \in Seq(Requests \cup {Shutdown}) /\ queue # <<>> /\ queue' = Tail(queue)
  BY DEF MInv, TypeOK, Take
<1>2. fate[q] = "asked" /\ request = Nobody /\ request # q
  <2>1. request = Nobody
    BY DEF MInv, ServingOK, Take
  <2>2. fate[q] = "asked"
    BY DEF MInv, TypeOK, Take, TakeCall, TakeProbe, TakeShutdown
  <2> QED BY <2>1, <2>2, MCPAssumption DEF Requests
<1>3. PICK i \in DOMAIN queue : queue[i] = q
  BY <1>2 DEF NoneForgotten, Queued
<1>4. CASE i = 1
  <2>1. Head(queue) = q
    BY <1>1, <1>3, <1>4
  <2>2. q # Shutdown
    BY MCPAssumption DEF Requests
  <2>3. CASE request' = Head(queue)
    BY <2>1, <2>3
  <2>4. CASE TakeProbe
    BY <1>2, <2>1, <2>4 DEF TakeProbe, MInv, TypeOK
  <2> QED BY <2>1, <2>2, <2>3, <2>4 DEF Take, TakeShutdown
<1>5. CASE i # 1
  <2>1. i - 1 \in DOMAIN queue' /\ queue'[i - 1] = q
    BY <1>1, <1>3, <1>5
  <2> QED BY <2>1 DEF Queued
<1> QED BY <1>4, <1>5

\* The other steps leave the queue alone and stop serving a request only when
\* its caller has learned something.
LEMMA ServingForgetsNone ==
  ASSUME MInv, NoneForgotten, UNCHANGED queue,
         \/ UNCHANGED <<fate, request>>
         \/ UNCHANGED fate /\ request = Nobody
         \/ \E what \in Fates \ {"asked"} : Learn(what)
         \/ \E r \in Requests : Leave(r)
  PROVE  NoneForgotten'
<1> SUFFICES ASSUME NEW q \in Requests, fate'[q] = "asked"
             PROVE  Queued(q)' \/ request' = q
  BY DEF NoneForgotten
<1>1. Nobody # q
  BY MCPAssumption DEF Requests
<1>2. Queued(q)' = Queued(q)
  BY DEF Queued
<1>3. CASE UNCHANGED <<fate, request>>
  BY <1>2, <1>3 DEF NoneForgotten
<1>4. CASE UNCHANGED fate /\ request = Nobody
  BY <1>1, <1>2, <1>4 DEF NoneForgotten
<1>5. CASE \E what \in Fates \ {"asked"} : Learn(what)
  <2>1. fate[q] = "asked" /\ q # request
    BY <1>5 DEF Learn, MInv, TypeOK
  <2> QED BY <1>2, <2>1 DEF NoneForgotten
<1>6. CASE \E r \in Requests : Leave(r)
  <2>1. fate[q] = "asked" /\ request' = request
    BY <1>6 DEF Leave, MInv, TypeOK
  <2> QED BY <1>2, <2>1 DEF NoneForgotten
<1> QED BY <1>3, <1>4, <1>5, <1>6

LEMMA OwnerForgetsNone ==
  ASSUME MInv, NoneForgotten, ConnectFails \/ CallEnds \/ PingEnds
  PROVE  NoneForgotten'
<1>1. UNCHANGED queue
  BY DEF ConnectFails, CallEnds, PingEnds, clientVars
<1>2. \/ UNCHANGED <<fate, request>>
      \/ UNCHANGED fate /\ request = Nobody
      \/ \E what \in Fates \ {"asked"} : Learn(what)
  <2>1. CASE ConnectFails
    <3>1. CASE job = "retry" /\ MayRetry
      BY <2>1, <3>1 DEF ConnectFails, RetryCall
    <3>2. CASE request \in Calls /\ Fail
      BY <3>2 DEF Fail, GiveUp, Fates
    <3>3. CASE request \notin Calls /\ Fail
      <4>1. request = Nobody
        BY <2>1, <3>3 DEF MInv, TypeOK, ServingOK, ConnectFails
      <4> QED BY <3>3, <4>1 DEF Fail
    <3> QED BY <2>1, <3>1, <3>2, <3>3 DEF ConnectFails
  <2>2. CASE CallEnds
    <3>1. request \in Calls
      BY <2>2 DEF CallEnds, MInv, ServingOK
    <3>2. PICK end \in Ends : IF ~Retried(end) THEN Learn(end)
                              ELSE IF MayRetry THEN RetryCall ELSE Fail
      BY <2>2 DEF CallEnds, Ends
    <3>3. CASE ~Retried(end)
      BY <3>2, <3>3 DEF Retried, Ends, Fates
    <3>4. CASE Retried(end)
      BY <3>1, <3>2, <3>4 DEF RetryCall, Fail, GiveUp, Fates
    <3> QED BY <3>3, <3>4
  <2>3. CASE PingEnds
    <3>1. CASE job = "probe"
      BY <2>3, <3>1 DEF PingEnds, Fates
    <3>2. CASE job # "probe"
      <4>1. request = Nobody /\ UNCHANGED fate
        BY <2>3, <3>2 DEF PingEnds, MInv, ServingOK
      <4> QED BY <4>1
    <3> QED BY <3>1, <3>2
  <2> QED BY <2>1, <2>2, <2>3
<1> QED BY <1>1, <1>2, ServingForgetsNone

LEMMA NextForgetsNone == MInv /\ NoneForgotten /\ [Next]_vars => NoneForgotten'
<1> SUFFICES ASSUME MInv, NoneForgotten, [Next]_vars PROVE NoneForgotten'
  OBVIOUS
<1>1. CASE \E r \in Requests : Leave(r)
  BY <1>1, ServingForgetsNone DEF Leave, clientVars
<1>2. CASE Maintain \/ ConnectAgain \/ CloseReturn \/ Elapse \/ Trouble \/ Repair
             \/ UNCHANGED vars
  <2>1. UNCHANGED <<queue, fate, request>>
    BY <1>2 DEF Maintain, ConnectAgain, CloseReturn, Elapse, Trouble, Repair, vars,
                clientVars
  <2> QED BY <2>1, ServingForgetsNone
<1>3. CASE ConnectOk \/ ListEnds
  <2>1. UNCHANGED <<queue, fate>> /\ (UNCHANGED request \/ request = Nobody)
    <3>1. CASE ConnectOk
      BY <1>3, <3>1 DEF ConnectOk, clientVars, MInv, TypeOK, ServingOK
    <3>2. CASE ListEnds
      BY <3>2 DEF ListEnds, clientVars, MInv, ServingOK
    <3> QED BY <1>3, <3>1, <3>2
  <2> QED BY <2>1, ServingForgetsNone
<1> QED
  BY <1>1, <1>2, <1>3, AskForgetsNone, CloseAskForgetsNone, TakeForgetsNone,
     OwnerForgetsNone
  DEF Next, OwnerStep

\* A caller that waits is in the queue or being served, whatever fails.
THEOREM CallersRemembered == Spec => []NoneForgotten
<1>1. Init => NoneForgotten
  BY DEF Init, NoneForgotten
<1> QED BY <1>1, TypedAlways, NextForgetsNone, PTL DEF Spec

-----------------------------------------------------------------------------
(* The contract of a call.                                                 *)

LEMMA InitCall == Init => CallInv
  BY InitTyped DEF Init, CallInv, QueueOK, SendsOK

\* A call is being served exactly while the owner has a job for it.
LEMMA ServedCall ==
  ASSUME MInv PROVE request \in Calls <=> job \in {"call", "retry"}
  BY MCPAssumption DEF MInv, TypeOK, ServingOK

LEMMA AskCall ==
  ASSUME CallInv, NEW r \in Requests, Ask(r) PROVE QueueOK' /\ SendsOK'
<1>1. /\ queue \in Seq(Requests \cup {Shutdown}) /\ queue' = Append(queue, r)
      /\ fate' = [fate EXCEPT ![r] = "asked"] /\ fate \in [Requests -> Fates]
      /\ UNCHANGED <<job, request, retries, sends>>
  BY DEF CallInv, MInv, TypeOK, Ask, servingVars
<1>2. \A q \in Requests : fate'[q] = IF q = r THEN "asked" ELSE fate[q]
  BY <1>1
<1>3. r \in Calls => /\ fate[r] = "new" /\ sends[r] = <<>> /\ r # request
                     /\ \A i \in DOMAIN queue : queue[i] # r
  BY MCPAssumption, ServedCall DEF Ask, CallInv, QueueOK, SendsOK
<1>4. \A i \in DOMAIN queue' :
        \/ i \in DOMAIN queue /\ queue'[i] = queue[i]
        \/ i = Len(queue) + 1 /\ queue'[i] = r
  BY <1>1
<1>5. QueueOK'
  BY <1>1, <1>2, <1>3, <1>4 DEF QueueOK, CallInv, Requests
<1>6. SendsOK'
  BY <1>1, <1>2, <1>3, ServedCall DEF SendsOK, CallInv, Requests
<1> QED BY <1>5, <1>6

LEMMA LeaveCall ==
  ASSUME CallInv, NEW r \in Requests, Leave(r) PROVE QueueOK' /\ SendsOK'
<1>1. /\ fate' = [fate EXCEPT ![r] = "cancelled"] /\ fate \in [Requests -> Fates]
      /\ fate[r] = "asked" /\ UNCHANGED <<job, request, retries, sends, queue>>
  BY DEF CallInv, MInv, TypeOK, Leave, servingVars, clientVars
<1>2. \A q \in Requests : fate'[q] = IF q = r THEN "cancelled" ELSE fate[q]
  BY <1>1
<1>3. QueueOK'
  BY <1>1, <1>2 DEF QueueOK, CallInv, Requests
<1>4. SendsOK'
  BY <1>1, <1>2, ServedCall DEF SendsOK, CallInv, Requests
<1> QED BY <1>3, <1>4

LEMMA CloseAskCall == ASSUME CallInv, CloseAsk PROVE QueueOK' /\ SendsOK'
<1>1. /\ queue \in Seq(Requests \cup {Shutdown}) /\ queue' = Append(queue, Shutdown)
      /\ UNCHANGED <<job, request, retries, sends, fate>>
  BY DEF CallInv, MInv, TypeOK, CloseAsk, servingVars
<1>2. \A i \in DOMAIN queue' :
        \/ i \in DOMAIN queue /\ queue'[i] = queue[i]
        \/ i = Len(queue) + 1 /\ queue'[i] = Shutdown
  BY <1>1
<1>3. Shutdown \notin Calls
  BY MCPAssumption
<1> QED BY <1>1, <1>2, <1>3 DEF QueueOK, SendsOK, CallInv

LEMMA TakeKeepsCall == ASSUME CallInv, Take PROVE QueueOK' /\ SendsOK'
<1>1. /\ queue \in Seq(Requests \cup {Shutdown}) /\ queue # <<>> /\ queue' = Tail(queue)
      /\ sends' = sends /\ job = "none" /\ request = Nobody
  BY DEF CallInv, MInv, TypeOK, ServingOK, Take
<1>2. \A i \in DOMAIN queue' : i + 1 \in DOMAIN queue /\ queue'[i] = queue[i + 1]
  BY <1>1
<1>3. 1 \in DOMAIN queue /\ Head(queue) = queue[1] /\ DOMAIN queue \subseteq Nat
  BY <1>1
<1>4. \A c \in Calls : fate'[c] = fate[c]
  BY <1>1, MCPAssumption
  DEF Take, TakeCall, TakeProbe, TakeShutdown, CallInv, MInv, TypeOK, Requests
<1>5. CASE request' = Head(queue) /\ TakeCall
  <2>1. Head(queue) \in Calls /\ job' \in {"call", "retry"} /\ retries' = CallRetries
    BY <1>5 DEF TakeCall, Connect
  <2>2. /\ sends[Head(queue)] = <<>> /\ fate[Head(queue)] \in {"asked", "cancelled"}
        /\ \A j \in DOMAIN queue : queue[j] = Head(queue) => j = 1
    BY <1>3, <2>1 DEF CallInv, QueueOK
  <2>3. QueueOK'
    BY <1>1, <1>2, <1>3, <1>4, <1>5, <2>2 DEF CallInv, QueueOK
  <2>4. SendsOK'
    BY <1>1, <1>4, <1>5, <2>1, <2>2, Limits DEF CallInv, SendsOK
  <2> QED BY <2>3, <2>4
<1>6. CASE TakeProbe \/ TakeShutdown
  <2>1. request' \notin Calls /\ job' \notin {"call", "retry"}
    BY <1>6, MCPAssumption DEF TakeProbe, TakeShutdown, Idle
  <2>2. QueueOK'
    BY <1>1, <1>2, <1>3, <1>4, <2>1 DEF CallInv, QueueOK
  <2>3. SendsOK'
    BY <1>1, <1>4, <2>1 DEF CallInv, SendsOK
  <2> QED BY <2>2, <2>3
<1> QED BY <1>5, <1>6 DEF Take

\* A step after which nothing is served leaves the calls in the queue alone.
LEMMA LearnCall ==
  ASSUME CallInv, UNCHANGED queue, request' = Nobody, job' = "none",
         \/ UNCHANGED fate
         \/ \E what \in Fates \ {"new"} : Learn(what),
         \A c \in Calls : sends'[c] = sends[c] \/ (c = request /\ fate'[c] # "new")
  PROVE  QueueOK' /\ SendsOK'
<1>1. \A c \in Calls : c # request => fate'[c] = fate[c]
  BY DEF Learn, CallInv, MInv, TypeOK, Requests
<1>2. \A c \in Calls : fate'[c] = "new" => fate[c] = "new"
  BY DEF Learn, CallInv, MInv, TypeOK, Requests
<1>3. Nobody \notin Calls
  BY MCPAssumption
<1>4. QueueOK'
  BY <1>1, <1>3 DEF CallInv, QueueOK
<1>5. SendsOK'
  BY <1>1, <1>2 DEF CallInv, SendsOK
<1> QED BY <1>4, <1>5

\* A retry uses up one of the retries for the one more time the call was sent.
LEMMA RetryKeepsCall ==
  ASSUME CallInv, UNCHANGED queue, RetryCall, MayRetry, job \in {"call", "retry"},
         NEW end \in NoResult,
         \/ sends' = sends
         \/ sends' = [sends EXCEPT ![request] = Append(@, end)]
  PROVE  QueueOK' /\ SendsOK'
<1>1. request \in Calls /\ request' = request /\ fate' = fate /\ job' = "retry"
  BY ServedCall DEF CallInv, RetryCall, Connect
<1>2. \A c \in Calls : c # request => sends'[c] = sends[c]
  BY <1>1 DEF CallInv, MInv, TypeOK
<1>3. sends[request] \in Seq(Ends)
  BY <1>1 DEF CallInv, MInv, TypeOK
<1>4. /\ Len(sends'[request]) <= Len(sends[request]) + 1
      /\ \A i \in DOMAIN sends'[request] : sends'[request][i] \in NoResult
  <2>1. CASE sends' = sends
    BY <1>3, <2>1 DEF CallInv, SendsOK
  <2>2. CASE sends' = [sends EXCEPT ![request] = Append(@, end)]
    <3>1. sends'[request] = Append(sends[request], end)
      BY <1>1, <2>2 DEF CallInv, MInv, TypeOK
    <3> QED BY <1>3, <3>1 DEF CallInv, SendsOK
  <2> QED BY <2>1, <2>2
<1>5. Len(sends'[request]) + retries' <= CallRetries
  <2>1. Len(sends'[request]) \in Nat
    BY <1>3, <1>1 DEF CallInv, MInv, TypeOK
  <2> QED BY <1>3, <1>4, <2>1, Limits DEF RetryCall, MayRetry, CallInv, MInv, TypeOK, SendsOK
<1>6. QueueOK'
  BY <1>1, <1>2 DEF CallInv, QueueOK
<1>7. SendsOK'
  BY <1>1, <1>2, <1>4, <1>5 DEF CallInv, SendsOK
<1> QED BY <1>6, <1>7

\* What the end of a call does, in one of three ways.
LEMMA CallEndsWays ==
  ASSUME CallInv, CallEnds
  PROVE  /\ request \in Calls /\ job \in {"call", "retry"} /\ UNCHANGED queue
         /\ \E end \in Ends :
              /\ sends' = [sends EXCEPT ![request] = Append(@, end)]
              /\ \/ end \notin NoResult /\ Learn(end) /\ Idle
                 \/ end \in NoResult /\ MayRetry /\ RetryCall
                 \/ end \in NoResult /\ Learn("unreachable") /\ Idle
<1>1. request \in Calls /\ job \in {"call", "retry"} /\ UNCHANGED queue
  BY DEF CallInv, MInv, ServingOK, CallEnds, clientVars
<1>2. PICK end \in Ends :
        /\ sends' = [sends EXCEPT ![request] = Append(@, end)]
        /\ IF ~Retried(end) THEN Learn(end) /\ Idle
           ELSE IF MayRetry THEN RetryCall ELSE Fail
  BY DEF CallEnds, Ends
<1> QED BY <1>1, <1>2 DEF Retried, NoResult, Fail, GiveUp

\* What a failed connection does, likewise.
LEMMA ConnectFailsWays ==
  ASSUME CallInv, ConnectFails
  PROVE  /\ UNCHANGED <<queue, sends>>
         /\ \/ job = "retry" /\ MayRetry /\ RetryCall
            \/ request \in Calls /\ Learn("unreachable") /\ Idle
            \/ UNCHANGED fate /\ Idle
  BY DEF ConnectFails, clientVars, Fail, GiveUp

LEMMA CallEndsKeepsCall == ASSUME CallInv, CallEnds PROVE QueueOK' /\ SendsOK'
<1>1. PICK end \in Ends :
        /\ sends' = [sends EXCEPT ![request] = Append(@, end)]
        /\ \/ end \notin NoResult /\ Learn(end) /\ Idle
           \/ end \in NoResult /\ MayRetry /\ RetryCall
           \/ end \in NoResult /\ Learn("unreachable") /\ Idle
  BY CallEndsWays
<1>2. request \in Calls /\ job \in {"call", "retry"} /\ UNCHANGED queue
  BY CallEndsWays
<1>3. CASE Idle /\ \E what \in Fates \ {"new"} : Learn(what)
  <2>1. fate[request] # "new" /\ fate'[request] # "new"
    BY <1>2, <1>3 DEF CallInv, SendsOK, Learn, MInv, TypeOK, Requests
  <2>2. \A c \in Calls : sends'[c] = sends[c] \/ (c = request /\ fate'[c] # "new")
    BY <1>1, <1>2, <2>1 DEF CallInv, MInv, TypeOK
  <2> QED BY <1>2, <1>3, <2>2, LearnCall DEF Idle
<1>4. CASE end \in NoResult /\ MayRetry /\ RetryCall
  BY <1>1, <1>2, <1>4, RetryKeepsCall
<1> QED BY <1>1, <1>3, <1>4 DEF Ends, Fates, NoResult

LEMMA NextCall == CallInv /\ [Next]_vars => CallInv'
<1> SUFFICES ASSUME CallInv, [Next]_vars PROVE QueueOK' /\ SendsOK'
  BY NextTyped DEF CallInv
<1>1. CASE UNCHANGED <<queue, request, job, retries, sends, fate>>
  BY <1>1 DEF CallInv, QueueOK, SendsOK
<1>2. CASE ConnectAgain \/ CloseReturn \/ Elapse \/ Trouble \/ Repair \/ UNCHANGED vars
  BY <1>1, <1>2
  DEF ConnectAgain, CloseReturn, Elapse, Trouble, Repair, vars, servingVars, clientVars
<1>3. CASE Maintain
  <2>1. /\ UNCHANGED <<queue, request, sends, fate>>
        /\ job \notin {"call", "retry"} /\ job' \notin {"call", "retry"}
    BY <1>3 DEF Maintain, TimedOut, Connect, clientVars, CallInv, MInv, ServingOK
  <2> QED BY <2>1 DEF CallInv, QueueOK, SendsOK
<1>4. CASE ConnectOk
  <2>1. UNCHANGED <<queue, retries, sends, fate>>
    BY <1>4 DEF ConnectOk, servingVars, clientVars
  <2>2. CASE job \in {"call", "retry"}
    BY <1>1, <1>4, <2>1, <2>2 DEF ConnectOk
  <2>3. CASE job \notin {"call", "retry"}
    <3>1. request' = Nobody /\ job' = "none"
      BY <1>4, <2>3 DEF ConnectOk, Idle
    <3> QED BY <2>1, <3>1, LearnCall
  <2> QED BY <2>2, <2>3
<1>5. CASE ConnectFails
  <2>1. CASE job = "retry" /\ MayRetry /\ RetryCall
    BY <1>5, <2>1, ConnectFailsWays, RetryKeepsCall DEF NoResult
  <2>2. CASE Idle /\ (UNCHANGED fate \/ Learn("unreachable"))
    BY <1>5, <2>2, ConnectFailsWays, LearnCall DEF Idle, Fates
  <2> QED BY <1>5, <2>1, <2>2, ConnectFailsWays
<1>6. CASE PingEnds
  <2>1. UNCHANGED <<queue, sends>>
    BY <1>6 DEF PingEnds, servingVars, clientVars
  <2>2. CASE job = "probe"
    BY <1>6, <2>1, <2>2, LearnCall DEF PingEnds, Idle, Fates
  <2>3. CASE job # "probe" /\ Idle
    BY <1>6, <2>1, <2>3, LearnCall DEF PingEnds, Idle
  <2>4. CASE job # "probe" /\ UNCHANGED <<job, request>>
    BY <1>1, <1>6, <2>1, <2>4 DEF PingEnds, servingVars
  <2> QED BY <1>6, <2>2, <2>3, <2>4 DEF PingEnds
<1>7. CASE ListEnds
  BY <1>7, LearnCall DEF ListEnds, Idle, servingVars, clientVars
<1> QED
  BY <1>2, <1>3, <1>4, <1>5, <1>6, <1>7, AskCall, LeaveCall, CloseAskCall,
     TakeKeepsCall, CallEndsKeepsCall
  DEF Next, OwnerStep

-----------------------------------------------------------------------------
CallFates == [c \in Calls |-> fate[c]]

LEMMA ContractStart == Init => Contract!ContractInit
  BY DEF Init, Contract!ContractInit, Requests

\* Learning of a call is learning in the contract.
LEMMA LearnMaps ==
  ASSUME CallInv, NEW c \in Calls, c = request, NEW what \in Fates, Learn(what)
  PROVE  Contract!Learn(c, what)
<1>1. CallFates' = [CallFates EXCEPT ![c] = IF @ = "asked" THEN what ELSE @]
  BY DEF CallFates, Learn, CallInv, MInv, TypeOK, Requests
<1> QED BY <1>1 DEF Contract!Learn, CallFates

\* What only probes learn is no step of the contract.
LEMMA ProbeMaps ==
  ASSUME \A c \in Calls : fate'[c] = fate[c], sends' = sends
  PROVE  UNCHANGED Contract!contractVars
  BY DEF Contract!contractVars

LEMMA ServedMaySend ==
  ASSUME CallInv, NEW c \in Calls, c = request PROVE Contract!MaySend(c)
<1>1. /\ fate[request] \in {"asked", "cancelled"}
      /\ Len(sends[request]) + retries <= CallRetries
      /\ \A i \in DOMAIN sends[request] : sends[request][i] \in NoResult
  BY ServedCall DEF CallInv, SendsOK
<1>2. Len(sends[request]) \in Nat /\ retries \in Nat
  BY Limits DEF CallInv, MInv, TypeOK
<1> QED
  BY <1>1, <1>2, Limits
  DEF Contract!MaySend, Contract!Fruitless, Contract!NoResult, NoResult

LEMMA CallEndsMaps == ASSUME CallInv, CallEnds PROVE Contract!ContractNext
<1>1. PICK c \in Calls : c = request
  BY CallEndsWays
<1>2. PICK end \in Ends :
        /\ sends' = [sends EXCEPT ![request] = Append(@, end)]
        /\ \/ end \notin NoResult /\ Learn(end)
           \/ end \in NoResult /\ UNCHANGED fate
           \/ end \in NoResult /\ Learn("unreachable")
  BY CallEndsWays DEF RetryCall
<1>3. CASE end \notin NoResult /\ Learn(end)
  <2>1. end \in {"ok", "toolerror"} /\ end \in Fates
    BY <1>3 DEF Ends, Fates, NoResult
  <2>2. Contract!Answer(c, end)
    BY <1>1, <1>2, <1>3, <2>1, ServedMaySend, LearnMaps DEF Contract!Answer
  <2> QED BY <1>1, <2>1, <2>2 DEF Contract!ContractNext
<1>4. CASE end \in NoResult /\ (UNCHANGED fate \/ Learn("unreachable"))
  <2>1. Contract!Lose(c, end)
    BY <1>1, <1>2, <1>4, ServedMaySend, LearnMaps DEF Contract!Lose, Fates
  <2> QED BY <1>1, <1>4, <2>1 DEF Contract!ContractNext, Contract!NoResult, NoResult
<1> QED BY <1>2, <1>3, <1>4

LEMMA ContractStep ==
  CallInv /\ [Next]_vars => [Contract!ContractNext]_(Contract!contractVars)
<1> SUFFICES ASSUME CallInv, [Next]_vars
             PROVE  [Contract!ContractNext]_(Contract!contractVars)
  OBVIOUS
<1>1. ASSUME NEW r \in Requests, Ask(r) \/ Leave(r)
      PROVE  [Contract!ContractNext]_(Contract!contractVars)
  <2>1. sends' = sends
    BY <1>1 DEF Ask, Leave, servingVars
  <2>2. CASE r \in Probes
    <3>1. \A c \in Calls : fate'[c] = fate[c]
      BY <1>1, <2>2, MCPAssumption DEF Ask, Leave, CallInv, MInv, TypeOK, Requests
    <3> QED BY <2>1, <3>1, ProbeMaps
  <2>3. CASE r \in Calls /\ Ask(r)
    <3>1. CallFates' = [CallFates EXCEPT ![r] = "asked"] /\ fate[r] = "new"
      BY <2>3, MCPAssumption DEF Ask, CallFates, CallInv, MInv, TypeOK, Requests
    <3>2. Contract!AskFor(r)
      BY <2>1, <2>3, <3>1 DEF Contract!AskFor, CallFates
    <3> QED BY <2>3, <3>2 DEF Contract!ContractNext
  <2>4. CASE r \in Calls /\ Leave(r)
    <3>1. CallFates' = [CallFates EXCEPT ![r] = "cancelled"] /\ fate[r] = "asked"
      BY <2>4 DEF Leave, CallFates, CallInv, MInv, TypeOK, Requests
    <3>2. Contract!Leave(r)
      BY <2>1, <2>4, <3>1 DEF Contract!Leave, CallFates
    <3> QED BY <2>4, <3>2 DEF Contract!ContractNext
  <2> QED BY <1>1, <2>2, <2>3, <2>4 DEF Requests
<1>2. CASE Take
  <2>1. \A c \in Calls : fate'[c] = fate[c]
    BY <1>2, MCPAssumption
    DEF Take, TakeCall, TakeProbe, TakeShutdown, CallInv, MInv, TypeOK, Requests
  <2> QED BY <1>2, <2>1, ProbeMaps DEF Take
<1>3. CASE ConnectFails
  <2>1. CASE UNCHANGED fate
    BY <1>3, <2>1, ConnectFailsWays, ProbeMaps
  <2>2. CASE request \in Calls /\ Learn("unreachable")
    <3>1. PICK c \in Calls : c = request
      BY <2>2
    <3>2. Contract!GiveUp(c)
      BY <1>3, <2>2, <3>1, ConnectFailsWays, ServedMaySend, LearnMaps
      DEF Contract!GiveUp, Contract!MaySend, Contract!Fruitless, Fates
    <3> QED BY <3>2 DEF Contract!ContractNext
  <2> QED BY <1>3, <2>1, <2>2, ConnectFailsWays DEF RetryCall
<1>4. CASE PingEnds
  <2>1. sends' = sends
    BY <1>4 DEF PingEnds, servingVars
  <2>2. request \notin Calls
    BY <1>4, ServedCall DEF PingEnds, CallInv, MInv, ServingOK
  <2>3. \A c \in Calls : fate'[c] = fate[c]
    BY <1>4, <2>2 DEF PingEnds, Learn, CallInv, MInv, TypeOK, Requests
  <2> QED BY <2>1, <2>3, ProbeMaps
<1>5. CASE CloseAsk \/ CloseReturn \/ Maintain \/ ConnectOk \/ ConnectAgain \/ ListEnds
             \/ Elapse \/ Trouble \/ Repair \/ UNCHANGED vars
  <2>1. UNCHANGED <<fate, sends>>
    BY <1>5
    DEF CloseAsk, CloseReturn, Maintain, ConnectOk, ConnectAgain, ListEnds, Elapse,
        Trouble, Repair, vars, servingVars
  <2> QED BY <2>1, ProbeMaps
<1> QED
  BY <1>1, <1>2, <1>3, <1>4, <1>5, CallEndsMaps DEF Next, OwnerStep

\* The client keeps the contract of every call: it is sent a bounded number of
\* times, again only after no result of the tool, and its caller learns the last
\* end.
THEOREM MCPImplements == Spec => KeepsCallContract
  BY InitCall, NextCall, ContractStart, ContractStep, PTL
  DEF Spec, KeepsCallContract, Contract!ContractSpec
=============================================================================
