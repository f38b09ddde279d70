---------------------------- MODULE AccountsProofs ----------------------------
(***************************************************************************)
(* Theorems about Accounts and the rate limiter in front of it, for any    *)
(* number of requests, any limits and window, and any failures.  GateOK is *)
(* about counters, buckets and keys, RegisterOK about transactions and the *)
(* default workspace, NamesOK about user names, SessionsOK about tokens.   *)
(***************************************************************************)
EXTENDS Accounts, FunctionTheorems, FiniteSetTheorems, TLAPS

Unmetered == {"idle", "select", "touch", "count"}
Undecided == Unmetered \cup {"expire", "ttl"}

\* A counter that was met in its bucket is not forgotten before the bucket is
\* over, so that whoever is counted then gets a number of its own.
GateOK ==
  /\ \A k \in Keys :
       deadline[k] = NoTtl \/ (deadline[k] \in Nat /\ Bucket(deadline[k]) > k[2])
  /\ \A r \in Requests :
       /\ bucket[r] <= Bucket(now)
       /\ r \in prompt =>
            /\ pc[r] \notin Unmetered /\ mine[r] >= 1
            /\ Bucket(now) = bucket[r] => mine[r] <= hits[KeyOf(r)]
       /\ r \in admitted =>
            pc[r] \notin Undecided /\ (r \in open \/ mine[r] <= LimitOf(r))
  /\ \A r, s \in prompt : r # s /\ KeyOf(r) = KeyOf(s) => mine[r] # mine[s]

\* Who holds the row of the default workspace, and who is given it.
RegisterOK ==
  /\ \A r \in Requests :
       /\ pc[r] \in {"claim", "commit"} <=> r \in pending
       /\ r \in stored => pc[r] = "done" /\ home[r] \in {"default", "own"}
       /\ pc[r] = "commit" =>
            \/ home[r] = "default" /\ rowLock = r /\ owner = Nobody
            \/ home[r] = "own" /\ owner # Nobody
  /\ rowLock # Nobody => pc[rowLock] = "commit" /\ home[rowLock] = "default"
  /\ owner # Nobody => owner \in stored
  /\ stored # {} => owner \in stored
  /\ \A u \in stored : (home[u] = "default") <=> (owner = u)

\* What a registration has looked at, and found different.
NamesOK ==
  /\ \A u, v \in stored \cup pending : u # v => name[u] # name[v]
  /\ \A v \in Requests :
       /\ knew[v] \subseteq stored
       /\ v \in stored \/ pc[v] \in {"insert", "claim", "commit"} =>
            \A u \in knew[v] : ~SameKey(u, v)

\* A token is that of a request that is over, so no session comes back.
SessionsOK ==
  \A r \in Requests :
    /\ answer[r] # "none" => pc[r] = "done"
    /\ pc[r] = "issue" => kind[r] = "login" /\ who[r] \in Requests
    /\ r \in live => holder[r] \in Requests /\ pc[r] = "done"
    /\ token[r] \in Requests => pc[token[r]] = "done"
    /\ kind[r] = "logout" /\ answer[r] = "ok" => token[r] \notin live
    /\ r \in stale =>
         /\ token[r] \in Requests /\ ~Valid(token[r])
         /\ pc[r] \in {"select", "done"} /\ answer[r] \in {"none", "denied", "failed"}

AccountsInv == TypeOK /\ GateOK /\ RegisterOK /\ NamesOK /\ SessionsOK

-----------------------------------------------------------------------------
(* Buckets.                                                                *)

LEMMA BucketBounds ==
  ASSUME NEW t \in Nat
  PROVE  /\ Bucket(t) \in Nat
         /\ Window * Bucket(t) <= t /\ t < Window * (Bucket(t) + 1)
  BY GateAssumption DEF Bucket

LEMMA BucketMonotone ==
  ASSUME NEW s \in Nat, NEW t \in Nat, s <= t PROVE Bucket(s) <= Bucket(t)
  BY GateAssumption DEF Bucket

\* A whole window later the bucket is the next one.
LEMMA BucketNext ==
  ASSUME NEW t \in Nat PROVE Bucket(t + Window) = Bucket(t) + 1
  BY GateAssumption DEF Bucket

LEMMA BucketSmall ==
  ASSUME NEW t \in Nat PROVE Bucket(t) <= t
  BY GateAssumption DEF Bucket

LEMMA SecondsBounds ==
  ASSUME NEW t \in Nat
  PROVE  /\ t \div Second \in Nat /\ Second * (t \div Second) \in Nat
         /\ t < Second * (t \div Second) + Second
  BY GateAssumption

\* Rounding to whole seconds takes away half a second at most.
LEMMA RoundingBounds ==
  ASSUME NEW t \in Nat
  PROVE  t <= Second * ((t + Second \div 2) \div Second) + Second \div 2
<1> DEFINE h == Second \div 2
<1>1. h \in Nat /\ 2 * h + 1 >= Second /\ Second \in Nat BY GateAssumption
<1> HIDE DEF h
<1>2. /\ Second * ((t + h) \div Second) \in Nat
      /\ t + h < Second * ((t + h) \div Second) + Second
  BY <1>1, SecondsBounds
<1>3. t <= Second * ((t + h) \div Second) + h BY <1>1, <1>2
<1> QED BY <1>3 DEF h

-----------------------------------------------------------------------------
(* Types.                                                                  *)

LEMMA InitAccounts == Init => AccountsInv
<1> SUFFICES ASSUME Init PROVE AccountsInv
  OBVIOUS
<1>1. Bucket(0) = 0 BY BucketBounds, BucketSmall
<1> USE <1>1, GateAssumption, AccountsAssumption DEF Init, GateInit
<1>2. TypeOK
  BY DEF TypeOK, GateTypeOK, OrNobody, Identities, Answers, NoTtl, Keys
<1>3. GateOK BY DEF GateOK, NoTtl
<1>4. RegisterOK BY DEF RegisterOK
<1>5. NamesOK BY DEF NamesOK
<1>6. SessionsOK BY DEF SessionsOK
<1> QED BY <1>2, <1>3, <1>4, <1>5, <1>6 DEF AccountsInv

LEMMA HomeTyped ==
  ASSUME TypeOK, NEW u \in Requests PROVE WorkspaceOf(u) \in Identities
  BY AccountsAssumption DEF TypeOK, WorkspaceOf, Identities

LEMMA NowTyped == GateTypeOK => Bucket(now) \in 0..MaxTime
<1> SUFFICES ASSUME GateTypeOK PROVE Bucket(now) \in 0..MaxTime
  OBVIOUS
<1>1. now \in Nat /\ now <= MaxTime /\ MaxTime \in Nat BY GateAssumption DEF GateTypeOK
<1>2. Bucket(now) \in Nat /\ Bucket(now) <= now BY <1>1, BucketBounds, BucketSmall
<1> QED BY <1>1, <1>2

LEMMA KeyTyped == 
  ASSUME GateTypeOK, NEW r \in Requests
  PROVE  KeyOf(r) \in Keys /\ KeyOf(r)[1] = ident[r] /\ KeyOf(r)[2] = bucket[r]
  BY DEF GateTypeOK, KeyOf, Keys

LEMMA FailureTyped ==
  ASSUME GateTypeOK, NEW what, Failure(what) PROVE failures' \in 0..MaxFailures
  BY GateAssumption DEF GateTypeOK, Failure

LEMMA ArriveTyped ==
  ASSUME AccountsInv, NEW r \in Requests, Arrive(r) PROVE TypeOK'
<1>1. Bucket(now) \in 0..MaxTime BY NowTyped DEF AccountsInv, TypeOK
<1> USE <1>1 DEF AccountsInv, TypeOK, GateTypeOK, Goto, Reply, redis, meters, users, sessions
<1>2. CASE ArrivePublic(r)
  BY <1>2 DEF ArrivePublic, Meter, Identities, OrNobody
<1>3. CASE ArriveProtected(r)
  BY <1>3 DEF ArriveProtected, Tokens, OrNobody, Answers
<1> QED BY <1>2, <1>3 DEF Arrive

LEMMA StepTyped ==
  ASSUME AccountsInv, NEW r \in Requests, Step(r) PROVE TypeOK'
<1>1. Bucket(now) \in 0..MaxTime BY NowTyped DEF AccountsInv, TypeOK
<1>2. Failure("db") => failures' \in 0..MaxFailures
  BY FailureTyped DEF AccountsInv, TypeOK
<1>3. now + SessionTtl \in Nat
  BY AccountsAssumption, GateAssumption DEF AccountsInv, TypeOK, GateTypeOK
<1> USE DEF AccountsInv, TypeOK, GateTypeOK, Goto, Reply, redis, meters, asked, users,
            sessions, Answers
<1>4. CASE Select(r) \/ Get(r) \/ Serve(r) BY <1>4 DEF Select, Get, Serve
<1>5. CASE Touch(r)
  <2>1. CASE token[r] \in live
    <3>1. holder[token[r]] \in Requests BY <2>1 DEF SessionsOK
    <3>2. WorkspaceOf(holder[token[r]]) \in Identities BY <3>1, HomeTyped
    <3> QED BY <1>1, <1>5, <2>1, <3>2 DEF Touch, Meter
  <2>2. CASE token[r] \notin live BY <1>5, <2>2 DEF Touch
  <2> QED BY <2>1, <2>2
<1>6. CASE Lookup(r) \/ Insert(r) \/ Claim(r)
  BY <1>6 DEF Lookup, Insert, Claim, OrNobody
<1>7. CASE Commit(r)
  BY <1>2, <1>3, <1>7 DEF Commit, Issue, Settle, Release, OrNobody
<1>8. CASE Find(r) BY <1>8 DEF Find, Matches, OrNobody
<1>9. CASE LoginCommit(r)
  BY <1>2, <1>3, <1>9 DEF LoginCommit, Issue, Settle, SessionsOK, OrNobody
<1>10. CASE Delete(r) BY <1>2, <1>10 DEF Delete, Settle
<1> QED BY <1>4, <1>5, <1>6, <1>7, <1>8, <1>9, <1>10 DEF Step, Register

LEMMA MeteringTyped ==
  ASSUME AccountsInv, NEW r \in Requests, Metering(r) \/ DbFails(r) PROVE TypeOK'
<1>1. KeyOf(r) \in Keys BY KeyTyped DEF AccountsInv, TypeOK
<1>2. \A what : Failure(what) => failures' \in 0..MaxFailures
  BY FailureTyped DEF AccountsInv, TypeOK
<1> USE DEF AccountsInv, TypeOK, GateTypeOK, Goto, Reply, redis, meters, asked, users,
            sessions, Answers
<1>3. CASE Metering(r) /\ Count(r) BY <1>1, <1>3 DEF Metering, Count
<1>4. CASE Metering(r) /\ Expire(r)
  <2>1. now + Window \in Int BY GateAssumption
  <2> QED BY <1>1, <1>4, <2>1 DEF Metering, Expire
<1>5. CASE Metering(r) /\ Decide(r) BY <1>5 DEF Metering, Decide
<1>6. CASE Metering(r) /\ FailOpen(r) BY <1>1, <1>2, <1>6 DEF Metering, FailOpen
<1>7. CASE DbFails(r) BY <1>2, <1>7 DEF DbFails, Release, OrNobody
<1> QED BY <1>3, <1>4, <1>5, <1>6, <1>7 DEF Metering, Gate

LEMMA ClockTyped ==
  ASSUME AccountsInv, Clock \/ UNCHANGED vars PROVE TypeOK'
<1> USE DEF AccountsInv, TypeOK, GateTypeOK, meters, asked, users, sessions
<1>1. CASE Clock BY <1>1, GateAssumption DEF Clock, Tick, NoTtl
<1>2. CASE UNCHANGED vars BY <1>2 DEF vars, gateVars
<1> QED BY <1>1, <1>2

-----------------------------------------------------------------------------
(* The rate limiter.                                                       *)

PcTyped == pc = [r \in Requests |-> pc[r]]

GateInv == GateTypeOK /\ PcTyped /\ GateOK

\* A step that moves requests, and touches neither counters nor clock, keeps
\* what was counted.
LEMMA PassesGate ==
  ASSUME GateInv, UNCHANGED <<now, redis, meters>>,
         \A s \in Requests : /\ pc[s] \notin Unmetered => pc'[s] \notin Unmetered
                             /\ pc[s] \notin Undecided => pc'[s] \notin Undecided
  PROVE  GateOK'
<1>1. \A s \in Requests : KeyOf(s)' = KeyOf(s) /\ LimitOf(s)' = LimitOf(s)
  BY DEF KeyOf, LimitOf, meters
<1>2. \A s \in prompt : s \in Requests BY DEF GateInv, GateTypeOK
<1> QED BY <1>1, <1>2 DEF GateInv, GateOK, redis, meters

\* A request that reads the clock is not counted yet.
LEMMA MeterKeeps ==
  ASSUME GateInv, NEW r \in Requests, pc[r] \in {"idle", "touch"},
         NEW i \in Identities, Meter(r, i)
  PROVE  GateOK'
<1>1. Bucket(now) \in Nat /\ Bucket(now)' = Bucket(now)
  BY GateAssumption, BucketBounds DEF GateInv, GateTypeOK, Meter, Bucket
<1>2. r \notin prompt /\ r \notin admitted
  BY DEF GateInv, GateOK, GateTypeOK, Unmetered, Undecided
<1>3. \A s \in Requests \ {r} :
        /\ KeyOf(s)' = KeyOf(s) /\ LimitOf(s)' = LimitOf(s)
        /\ bucket'[s] = bucket[s] /\ pc'[s] = pc[s]
  BY DEF GateInv, GateTypeOK, PcTyped, KeyOf, LimitOf, Meter, Goto
<1>4. bucket'[r] = Bucket(now) BY DEF GateInv, GateTypeOK, Meter
<1>5. UNCHANGED <<now, hits, deadline, mine, prompt, admitted, open>> BY DEF Meter, redis
<1>6. \A k \in Keys : deadline'[k] = NoTtl \/ (deadline'[k] \in Nat /\ Bucket(deadline'[k]) > k[2])
  BY <1>5 DEF GateInv, GateOK
<1>7. \A s \in Requests : 
        /\ bucket'[s] <= Bucket(now)'
        /\ s \in prompt' =>
            /\ pc'[s] \notin Unmetered /\ mine'[s] >= 1
            /\ Bucket(now)' = bucket'[s] => mine'[s] <= hits'[KeyOf(s)']
        /\ s \in admitted' => pc'[s] \notin Undecided /\ (s \in open' \/ mine'[s] <= LimitOf(s)')
  BY <1>1, <1>2, <1>3, <1>4, <1>5 DEF GateInv, GateOK
<1>8. \A s, t \in prompt' : s # t /\ KeyOf(s)' = KeyOf(t)' => mine'[s] # mine'[t]
  BY <1>2, <1>3, <1>5 DEF GateInv, GateOK, GateTypeOK
<1> QED BY <1>6, <1>7, <1>8 DEF GateOK

\* The number an INCR returns within the bucket is larger than all before it.
LEMMA CountKeeps ==
  ASSUME GateInv, NEW r \in Requests, Count(r) PROVE GateOK'
<1> USE DEF GateInv
<1>1. pc[r] = "count" /\ KeyOf(r) \in Keys
  BY KeyTyped DEF Count
<1>2. /\ UNCHANGED <<now, failures, deadline, ident, bucket, admitted, open, answer>>
      /\ hits' = [hits EXCEPT ![KeyOf(r)] = hits[KeyOf(r)] + 1]
      /\ mine' = [mine EXCEPT ![r] = hits[KeyOf(r)] + 1]
      /\ pc' = [pc EXCEPT ![r] = IF hits[KeyOf(r)] + 1 = 1 THEN "expire" ELSE "ttl"]
      /\ prompt' = IF bucket[r] = Bucket(now) THEN prompt \cup {r} ELSE prompt
  BY DEF Count, Goto
<1>3. r \notin prompt /\ r \notin admitted
  BY <1>1 DEF GateOK, Unmetered, Undecided
<1>4. \A s \in Requests : KeyOf(s)' = KeyOf(s) /\ LimitOf(s)' = LimitOf(s) /\ KeyOf(s) \in Keys
  BY <1>2, KeyTyped DEF KeyOf, LimitOf
<1>5. Bucket(now)' = Bucket(now) BY <1>2
<1>6. \A k \in Keys : hits[k] \in Nat /\ hits'[k] \in Nat /\ hits'[k] >= hits[k]
  BY <1>1, <1>2 DEF GateTypeOK
<1>7. mine'[r] = hits[KeyOf(r)] + 1 /\ hits'[KeyOf(r)] = hits[KeyOf(r)] + 1
      /\ pc'[r] \in {"expire", "ttl"}
  BY <1>1, <1>2 DEF GateTypeOK, PcTyped
<1>8. \A s \in Requests \ {r} : mine'[s] = mine[s] /\ pc'[s] = pc[s] /\ mine[s] \in Nat
  BY <1>2 DEF GateTypeOK, PcTyped
<1>9. \A k \in Keys : deadline'[k] = NoTtl \/ (deadline'[k] \in Nat /\ Bucket(deadline'[k]) > k[2])
  BY <1>2 DEF GateOK
<1>10. \A s \in Requests : 
        /\ bucket'[s] <= Bucket(now)'
        /\ s \in prompt' =>
            /\ pc'[s] \notin Unmetered /\ mine'[s] >= 1
            /\ Bucket(now)' = bucket'[s] => mine'[s] <= hits'[KeyOf(s)']
        /\ s \in admitted' => pc'[s] \notin Undecided /\ (s \in open' \/ mine'[s] <= LimitOf(s)')
  <2> TAKE s \in Requests
  <2>1. CASE s = r
    BY <1>1, <1>2, <1>3, <1>4, <1>5, <1>6, <1>7, <2>1 DEF GateOK, Unmetered
  <2>2. CASE s # r
    BY <1>2, <1>4, <1>5, <1>6, <1>8, <2>2 DEF GateOK
  <2> QED BY <2>1, <2>2
<1>11. \A s, t \in prompt' : s # t /\ KeyOf(s)' = KeyOf(t)' => mine'[s] # mine'[t]
  <2>1. \A s \in prompt : s # r /\ s \in Requests BY <1>3 DEF GateTypeOK
  <2>2. \A s \in prompt : KeyOf(s) = KeyOf(r) /\ bucket[r] = Bucket(now) => mine[s] <= hits[KeyOf(r)]
    <3> TAKE s \in prompt
    <3>1. KeyOf(s) = KeyOf(r) => bucket[s] = bucket[r] BY <2>1 DEF KeyOf
    <3> QED BY <2>1, <3>1 DEF GateOK
  <2>3. \A s \in prompt : KeyOf(s) = KeyOf(r) /\ bucket[r] = Bucket(now) => mine'[s] # mine'[r]
    BY <1>1, <1>6, <1>7, <1>8, <2>1, <2>2
  <2>4. \A s, t \in prompt : s # t /\ KeyOf(s)' = KeyOf(t)' => mine'[s] # mine'[t]
    BY <1>4, <1>8, <2>1 DEF GateOK
  <2> QED BY <1>2, <1>4, <2>1, <2>3, <2>4
<1> QED BY <1>9, <1>10, <1>11 DEF GateOK

\* A whole window from now is after the bucket.
LEMMA ExpireKeeps ==
  ASSUME GateInv, NEW r \in Requests, Expire(r) PROVE GateOK'
<1> USE DEF GateInv
<1>1. now \in Nat /\ now + Window \in Nat /\ Bucket(now) \in Nat
  BY GateAssumption, BucketBounds DEF GateTypeOK
<1>2. Bucket(now + Window) > bucket[r] /\ bucket[r] \in Nat
  BY <1>1, BucketNext DEF GateOK, GateTypeOK
<1>3. KeyOf(r) \in Keys /\ KeyOf(r)[2] = bucket[r] BY KeyTyped
<1>4. /\ UNCHANGED <<now, hits, ident, bucket, mine, prompt, admitted, open>>
      /\ pc' = [pc EXCEPT ![r] = "ttl"] /\ pc[r] = "expire"
      /\ deadline' = deadline \/ deadline' = [deadline EXCEPT ![KeyOf(r)] = now + Window]
  BY DEF Expire, Goto, meters
<1>5. \A k \in Keys : deadline'[k] = NoTtl \/ (deadline'[k] \in Nat /\ Bucket(deadline'[k]) > k[2])
  <2> TAKE k \in Keys
  <2>1. CASE deadline'[k] = deadline[k] BY <2>1 DEF GateOK
  <2>2. CASE k = KeyOf(r) /\ deadline'[k] = now + Window BY <1>1, <1>2, <1>3, <2>2
  <2> QED BY <1>3, <1>4, <2>1, <2>2 DEF GateTypeOK
<1>6. \A s \in Requests : KeyOf(s)' = KeyOf(s) /\ LimitOf(s)' = LimitOf(s)
  BY <1>4 DEF KeyOf, LimitOf
<1>7. \A s \in prompt \cup admitted : s \in Requests BY DEF GateTypeOK
<1>8. \A s \in Requests : pc'[s] = (IF s = r THEN "ttl" ELSE pc[s]) 
  BY <1>4 DEF PcTyped
<1>9. r \notin admitted BY <1>4 DEF GateOK, Undecided
<1> QED BY <1>4, <1>5, <1>6, <1>7, <1>8, <1>9 DEF GateOK, Unmetered

LEMMA DecideKeeps ==
  ASSUME GateInv, NEW r \in Requests, Decide(r) PROVE GateOK'
<1> USE DEF GateInv
<1>1. /\ UNCHANGED <<now, hits, deadline, ident, bucket, mine, prompt, open>>
      /\ pc[r] = "ttl"
      /\ \/ /\ admitted' = admitted \cup {r} /\ mine[r] <= LimitOf(r)
            /\ pc' = [pc EXCEPT ![r] = "handler"]
         \/ UNCHANGED admitted /\ pc' = [pc EXCEPT ![r] = "done"]
  BY DEF Decide, Goto, Reply, redis, Allowed
<1>2. \A s \in Requests : KeyOf(s)' = KeyOf(s) /\ LimitOf(s)' = LimitOf(s)
  BY <1>1 DEF KeyOf, LimitOf
<1>3. \A s \in Requests : /\ s # r => pc'[s] = pc[s]
                          /\ s \in admitted' => s \in admitted \/ (s = r /\ pc'[r] = "handler")
  BY <1>1 DEF PcTyped, GateTypeOK
<1>4. pc'[r] \in {"handler", "done"} BY <1>1 DEF PcTyped
<1>5. \A s \in prompt \cup admitted : s \in Requests BY DEF GateTypeOK
<1> QED BY <1>1, <1>2, <1>3, <1>4, <1>5 DEF GateOK, Unmetered, Undecided

\* Redis fails: at most a counter has grown.
LEMMA FailOpenKeeps ==
  ASSUME GateInv, NEW r \in Requests, FailOpen(r) PROVE GateOK'
<1> USE DEF GateInv
<1>1. /\ UNCHANGED <<now, deadline, ident, bucket, mine, prompt>>
      /\ admitted' = admitted \cup {r} /\ open' = open \cup {r}
      /\ pc' = [pc EXCEPT ![r] = "handler"]
      /\ pc[r] \in {"count", "expire", "ttl"}
  BY DEF FailOpen, Goto
<1>2. \A k \in Keys : hits[k] \in Nat /\ hits'[k] \in Nat /\ hits'[k] >= hits[k]
  <2>1. KeyOf(r) \in Keys BY KeyTyped
  <2>2. hits' = hits \/ hits' = [hits EXCEPT ![KeyOf(r)] = hits[KeyOf(r)] + 1]
    BY DEF FailOpen
  <2> QED BY <2>1, <2>2 DEF GateTypeOK
<1>3. \A s \in Requests : KeyOf(s)' = KeyOf(s) /\ LimitOf(s)' = LimitOf(s) /\ KeyOf(s) \in Keys
  BY <1>1, KeyTyped DEF KeyOf, LimitOf
<1>4. \A s \in Requests : pc'[s] = IF s = r THEN "handler" ELSE pc[s]
  BY <1>1 DEF PcTyped
<1>5. \A s \in prompt \cup admitted : s \in Requests BY DEF GateTypeOK
<1>6. \A s \in Requests : mine[s] \in Nat BY DEF GateTypeOK
<1> QED BY <1>1, <1>2, <1>3, <1>4, <1>5, <1>6 DEF GateOK, Unmetered, Undecided

\* A key that expires belongs to a bucket that is over.
LEMMA TickKeeps ==
  ASSUME GateInv, Tick PROVE GateOK'
<1> USE DEF GateInv
<1>1. /\ UNCHANGED <<pc, ident, bucket, mine, prompt, admitted, open>>
      /\ now \in Nat /\ now' = now + 1 /\ now' \in Nat
      /\ \A k \in Keys : IF deadline[k] # NoTtl /\ deadline[k] <= now'
                         THEN hits'[k] = 0 /\ deadline'[k] = NoTtl
                         ELSE hits'[k] = hits[k] /\ deadline'[k] = deadline[k]
  BY DEF Tick, meters, GateTypeOK
<1>2. Bucket(now) \in Nat /\ Bucket(now') \in Nat /\ Bucket(now) <= Bucket(now')
  BY <1>1, BucketBounds, BucketMonotone
<1>3. \A s \in Requests : KeyOf(s)' = KeyOf(s) /\ LimitOf(s)' = LimitOf(s)
                          /\ KeyOf(s) \in Keys /\ KeyOf(s)[2] = bucket[s]
  BY <1>1, KeyTyped DEF KeyOf, LimitOf
<1>4. \A k \in Keys : deadline'[k] = NoTtl \/ (deadline'[k] \in Nat /\ Bucket(deadline'[k]) > k[2])
  BY <1>1 DEF GateOK
<1>5. \A k \in Keys : k[2] = Bucket(now') => hits'[k] = hits[k]
  <2> SUFFICES ASSUME NEW k \in Keys, k[2] = Bucket(now'), deadline[k] # NoTtl, deadline[k] <= now'
               PROVE  FALSE
    BY <1>1
  <2>1. deadline[k] \in Nat /\ Bucket(deadline[k]) > Bucket(now') BY DEF GateOK
  <2>2. Bucket(deadline[k]) <= Bucket(now') BY <1>1, <2>1, BucketMonotone
  <2>3. Bucket(deadline[k]) \in Nat BY <2>1, BucketBounds
  <2> QED BY <1>2, <2>1, <2>2, <2>3
<1>6. Bucket(now)' = Bucket(now') BY DEF Bucket
<1>7. \A s \in Requests :
        /\ bucket'[s] <= Bucket(now)'
        /\ s \in prompt' =>
            /\ pc'[s] \notin Unmetered /\ mine'[s] >= 1
            /\ Bucket(now)' = bucket'[s] => mine'[s] <= hits'[KeyOf(s)']
        /\ s \in admitted' => pc'[s] \notin Undecided /\ (s \in open' \/ mine'[s] <= LimitOf(s)')
  <2> TAKE s \in Requests
  <2>1. bucket[s] <= Bucket(now) /\ bucket[s] \in Nat BY DEF GateOK, GateTypeOK
  <2>2. bucket'[s] <= Bucket(now)' BY <1>1, <1>2, <1>6, <2>1
  <2>3. Bucket(now)' = bucket'[s] => Bucket(now) = bucket[s] /\ hits'[KeyOf(s)] = hits[KeyOf(s)]
    <3> SUFFICES ASSUME Bucket(now)' = bucket'[s]
                 PROVE  Bucket(now) = bucket[s] /\ hits'[KeyOf(s)] = hits[KeyOf(s)]
      OBVIOUS
    <3>1. Bucket(now') = bucket[s] /\ Bucket(now) = bucket[s] BY <1>1, <1>2, <1>6, <2>1
    <3> QED BY <1>3, <1>5, <3>1
  <2> QED BY <1>1, <1>3, <2>2, <2>3 DEF GateOK
<1>8. \A s, t \in prompt' : s # t /\ KeyOf(s)' = KeyOf(t)' => mine'[s] # mine'[t]
  BY <1>1, <1>3 DEF GateOK, GateTypeOK
<1> QED BY <1>4, <1>7, <1>8 DEF GateOK

\* Steps behind the limiter, and refusals before it.
LEMMA HandlerKeepsGate ==
  ASSUME AccountsInv, NEW r \in Requests,
         \/ Select(r) \/ Register(r) \/ Find(r) \/ LoginCommit(r) \/ Get(r) \/ Delete(r)
         \/ Serve(r) \/ DbFails(r) \/ ArriveProtected(r)
         \/ Touch(r) /\ token[r] \notin live
  PROVE  GateOK'
<1>1. GateInv BY DEF AccountsInv, TypeOK, GateInv, PcTyped
<1> USE DEF Goto, Reply, redis, meters, Unmetered, Undecided, PcTyped
<1>2. CASE Select(r) \/ Get(r) \/ Serve(r) \/ Find(r)
  BY <1>1, <1>2, PassesGate DEF GateInv, Select, Get, Serve, Find
<1>3. CASE Register(r)
  BY <1>1, <1>3, PassesGate DEF GateInv, Register, Lookup, Insert, Claim, Commit, Settle
<1>4. CASE LoginCommit(r) \/ Delete(r)
  BY <1>1, <1>4, PassesGate DEF GateInv, LoginCommit, Delete, Settle
<1>5. CASE DbFails(r) BY <1>1, <1>5, PassesGate DEF GateInv, DbFails
<1>6. CASE ArriveProtected(r) BY <1>1, <1>6, PassesGate DEF GateInv, ArriveProtected
<1>7. CASE Touch(r) /\ token[r] \notin live BY <1>1, <1>7, PassesGate DEF GateInv, Touch
<1> QED BY <1>2, <1>3, <1>4, <1>5, <1>6, <1>7

LEMMA NextKeepsGate == AccountsInv /\ [Next]_vars => GateOK'
<1> SUFFICES ASSUME AccountsInv, [Next]_vars PROVE GateOK'
  OBVIOUS
<1>1. GateInv BY DEF AccountsInv, TypeOK, GateInv, PcTyped
<1>2. ASSUME NEW r \in Requests, ArrivePublic(r) PROVE GateOK'
  <2>1. Meter(r, Host) /\ pc[r] = "idle" /\ Host \in Identities
    BY <1>2 DEF ArrivePublic, Identities
  <2> QED BY <1>1, <2>1, MeterKeeps
<1>3. ASSUME NEW r \in Requests, Touch(r), token[r] \in live PROVE GateOK'
  <2>1. WorkspaceOf(holder[token[r]]) \in Identities
    BY <1>3, HomeTyped DEF AccountsInv, SessionsOK, TypeOK
  <2> QED BY <1>1, <1>3, <2>1, MeterKeeps DEF Touch
<1>4. ASSUME NEW r \in Requests, Metering(r) PROVE GateOK'
  BY <1>1, <1>4, CountKeeps, ExpireKeeps, DecideKeeps, FailOpenKeeps DEF Metering, Gate
<1>5. CASE Clock BY <1>1, <1>5, TickKeeps DEF Clock
<1>6. CASE UNCHANGED vars
  BY <1>1, <1>6, PassesGate DEF vars, gateVars, redis, meters
<1> QED BY <1>2, <1>3, <1>4, <1>5, <1>6, HandlerKeepsGate DEF Next, Arrive, Step

-----------------------------------------------------------------------------
(* Transactions and the default workspace.                                 *)

\* Steps that touch no transaction: they move a request, but not one that is in
\* a transaction, nor into one.
LEMMA OutsideTransaction ==
  ASSUME RegisterOK, TypeOK, UNCHANGED users,
         \A s \in Requests : /\ pc[s] \in {"claim", "commit", "done"} => pc'[s] = pc[s]
                             /\ pc'[s] \in {"claim", "commit"} => pc'[s] = pc[s]
  PROVE  RegisterOK'
<1>1. rowLock # Nobody => rowLock \in Requests BY DEF TypeOK, OrNobody
<1> QED BY <1>1 DEF RegisterOK, TypeOK, users

LEMMA TransactionKeeps ==
  ASSUME RegisterOK, TypeOK, NEW r \in Requests,
         Insert(r) \/ Claim(r) \/ Commit(r) \/ DbFails(r)
  PROVE  RegisterOK'
<1> USE AccountsAssumption DEF RegisterOK, TypeOK, OrNobody, Goto, Reply
<1>1. CASE Insert(r) BY <1>1 DEF Insert
<1>2. CASE Claim(r) BY <1>2 DEF Claim
<1>3. CASE Commit(r) BY <1>3 DEF Commit, Release, Settle
<1>4. CASE DbFails(r) BY <1>4 DEF DbFails, Release
<1> QED BY <1>1, <1>2, <1>3, <1>4

LEMMA NextKeepsRegister == AccountsInv /\ [Next]_vars => RegisterOK'
<1> SUFFICES ASSUME AccountsInv, [Next]_vars PROVE RegisterOK'
  OBVIOUS
<1> USE DEF AccountsInv
<1>1. ASSUME NEW r \in Requests,
             \/ Arrive(r) \/ Select(r) \/ Touch(r) \/ Lookup(r) \/ Find(r)
             \/ LoginCommit(r) \/ Get(r) \/ Delete(r) \/ Serve(r)
      PROVE  RegisterOK'
  <2>1. UNCHANGED users
    BY <1>1 DEF Arrive, ArrivePublic, ArriveProtected, Select, Touch, Lookup, Find,
       LoginCommit, Get, Delete, Serve, users
  <2>2. \A s \in Requests : /\ pc[s] \in {"claim", "commit", "done"} => pc'[s] = pc[s]
                            /\ pc'[s] \in {"claim", "commit"} => pc'[s] = pc[s]
    BY <1>1 DEF TypeOK, Arrive, ArrivePublic, ArriveProtected, Select, Touch, Lookup, Find,
       LoginCommit, Get, Delete, Serve, Meter, Settle, Goto, Reply
  <2> QED BY <2>1, <2>2, OutsideTransaction
<1>2. ASSUME NEW r \in Requests, Metering(r) PROVE RegisterOK'
  <2>1. UNCHANGED users BY <1>2 DEF Metering
  <2>2. \A s \in Requests : /\ pc[s] \in {"claim", "commit", "done"} => pc'[s] = pc[s]
                            /\ pc'[s] \in {"claim", "commit"} => pc'[s] = pc[s]
    BY <1>2 DEF TypeOK, Metering, Gate, Count, Expire, Decide, FailOpen, Goto, Reply
  <2> QED BY <2>1, <2>2, OutsideTransaction
<1>3. CASE Clock \/ UNCHANGED vars
  <2>1. UNCHANGED users /\ UNCHANGED pc BY <1>3 DEF Clock, Tick, vars, gateVars
  <2> QED BY <2>1, OutsideTransaction
<1> QED BY <1>1, <1>2, <1>3, TransactionKeeps DEF Next, Step, Register

-----------------------------------------------------------------------------
(* Names.                                                                  *)

\* Steps that change neither names nor accounts, and let nobody into a
\* registration.
LEMMA NamesUndisturbed ==
  ASSUME NamesOK, UNCHANGED <<name, stored, knew>>, pending' \subseteq pending,
         \A s \in Requests :
           pc'[s] \in {"insert", "claim", "commit"} => pc[s] \in {"insert", "claim", "commit"}
  PROVE  NamesOK'
<1>1. \A u, v : SameKey(u, v)' = SameKey(u, v) BY DEF SameKey
<1> QED BY <1>1 DEF NamesOK

\* A name is chosen by a request that arrives, of which nothing is known yet.
LEMMA ArriveKeepsNames ==
  ASSUME AccountsInv, NEW r \in Requests, Arrive(r) PROVE NamesOK'
<1> USE DEF AccountsInv, TypeOK, Goto, Reply
<1>1. CASE ArrivePublic(r)
  <2>1. /\ UNCHANGED <<stored, pending, knew>>
        /\ pc[r] = "idle" /\ pc' = [pc EXCEPT ![r] = "count"]
        /\ \A s \in Requests \ {r} : name'[s] = name[s]
    BY <1>1 DEF ArrivePublic, Meter, users
  <2>2. r \notin stored \cup pending BY <2>1 DEF RegisterOK
  <2>3. \A v \in Requests : r \notin knew[v] BY <2>2 DEF NamesOK
  <2>4. \A u, v \in Requests \ {r} : SameKey(u, v)' = SameKey(u, v) BY <2>1 DEF SameKey
  <2>5. \A v \in Requests : knew[v] \subseteq Requests BY DEF NamesOK
  <2>6. \A u, v \in stored' \cup pending' : u # v => name'[u] # name'[v]
    BY <2>1, <2>2 DEF NamesOK
  <2>7. \A v \in Requests : 
          v \in stored' \/ pc'[v] \in {"insert", "claim", "commit"} =>
            \A u \in knew'[v] : ~SameKey(u, v)'
    BY <2>1, <2>2, <2>3, <2>4, <2>5 DEF NamesOK
  <2> QED BY <2>1, <2>6, <2>7 DEF NamesOK
<1>2. CASE ArriveProtected(r)
  BY <1>2, NamesUndisturbed DEF ArriveProtected, users
<1> QED BY <1>1, <1>2 DEF Arrive

LEMMA RegisterKeepsNames ==
  ASSUME AccountsInv, NEW r \in Requests, Register(r) PROVE NamesOK'
<1>1. UNCHANGED name BY DEF Register, Lookup, Insert, Claim, Commit, asked
<1>2. \A u, v : SameKey(u, v)' = SameKey(u, v) BY <1>1 DEF SameKey
<1> USE <1>1, <1>2 DEF AccountsInv, TypeOK, NamesOK, Goto, Reply
<1>3. CASE Lookup(r) BY <1>3 DEF Lookup, users, RegisterOK
<1>4. CASE Insert(r) BY <1>4 DEF Insert
<1>5. CASE Claim(r) BY <1>5 DEF Claim
<1>6. CASE Commit(r) BY <1>6 DEF Commit, Settle, RegisterOK
<1> QED BY <1>3, <1>4, <1>5, <1>6 DEF Register

LEMMA NextKeepsNames == AccountsInv /\ [Next]_vars => NamesOK'
<1> SUFFICES ASSUME AccountsInv, [Next]_vars PROVE NamesOK'
  OBVIOUS
<1> USE DEF AccountsInv
<1>1. ASSUME NEW r \in Requests,
             \/ Select(r) \/ Touch(r) \/ Find(r) \/ LoginCommit(r) \/ Get(r) \/ Delete(r)
             \/ Serve(r) \/ DbFails(r)
      PROVE  NamesOK'
  <2>1. UNCHANGED <<name, stored, knew>> /\ pending' \subseteq pending
    BY <1>1 DEF Select, Touch, Find, LoginCommit, Get, Delete, Serve, DbFails, asked, users
  <2>2. \A s \in Requests :
          pc'[s] \in {"insert", "claim", "commit"} => pc[s] \in {"insert", "claim", "commit"}
    BY <1>1 DEF TypeOK, Select, Touch, Find, LoginCommit, Get, Delete, Serve, DbFails, Meter,
       Settle, Goto, Reply
  <2> QED BY <2>1, <2>2, NamesUndisturbed
<1>2. ASSUME NEW r \in Requests, Metering(r) PROVE NamesOK'
  <2>1. UNCHANGED <<name, stored, knew, pending>> BY <1>2 DEF Metering, asked, users
  <2>2. \A s \in Requests :
          pc'[s] \in {"insert", "claim", "commit"} => pc[s] \in {"insert", "claim", "commit"}
    BY <1>2 DEF TypeOK, Metering, Gate, Count, Expire, Decide, FailOpen, Goto, Reply
  <2> QED BY <2>1, <2>2, NamesUndisturbed
<1>3. CASE Clock \/ UNCHANGED vars
  <2>1. UNCHANGED <<name, stored, knew, pending, pc>>
    BY <1>3 DEF Clock, Tick, vars, gateVars, asked, users
  <2> QED BY <2>1, NamesUndisturbed
<1> QED BY <1>1, <1>2, <1>3, ArriveKeepsNames, RegisterKeepsNames DEF Next, Step

-----------------------------------------------------------------------------
(* Sessions.                                                               *)

SessionInv == TypeOK /\ SessionsOK

\* Steps that leave sessions alone and move a request that was not stale or
\* refuse it.
LEMMA SessionsUndisturbed ==
  ASSUME SessionInv, NEW r \in Requests, UNCHANGED <<asked, who, sessions, now>>,
         pc[r] # "done", \A s \in Requests \ {r} : pc'[s] = pc[s] /\ answer'[s] = answer[s],
         answer'[r] # "none" => pc'[r] = "done",
         pc'[r] # "issue", pc'[r] # "select",
         kind[r] = "logout" /\ answer'[r] = "ok" => token[r] \notin live,
         r \in stale => pc'[r] = "done" /\ answer'[r] \in {"none", "denied", "failed"}
  PROVE  SessionsOK'
<1>1. \A t : Valid(t)' = Valid(t) BY DEF Valid, sessions
<1>2. \A s \in Requests : pc[s] = "done" => s # r BY DEF SessionInv
<1> QED BY <1>1, <1>2, AccountsAssumption
        DEF SessionInv, SessionsOK, TypeOK, OrNobody, asked, sessions

LEMMA HandlerKeepsSessions ==
  ASSUME SessionInv, NEW r \in Requests,
         \/ Select(r) \/ Touch(r) \/ Lookup(r) \/ Insert(r) \/ Claim(r) \/ Get(r) \/ Serve(r)
         \/ DbFails(r) \/ Metering(r)
  PROVE  SessionsOK'
<1>1. UNCHANGED <<asked, who, sessions, now>> /\ pc[r] # "done"
  BY DEF Select, Touch, Lookup, Insert, Claim, Get, Serve, DbFails, Metering, Gate, Count,
     Expire, Decide, FailOpen, Meter
<1>2. \A s \in Requests \ {r} : pc'[s] = pc[s] /\ answer'[s] = answer[s]
  BY DEF SessionInv, TypeOK, GateTypeOK, Select, Touch, Lookup, Insert, Claim, Get, Serve,
     DbFails, Metering, Gate, Count, Expire, Decide, FailOpen, Meter, Goto, Reply
<1> USE DEF SessionInv, SessionsOK, TypeOK, GateTypeOK, Goto, Reply
<1>3. CASE Select(r) BY <1>1, <1>2, <1>3, SessionsUndisturbed DEF Select
<1>4. CASE Touch(r) BY <1>1, <1>2, <1>4, SessionsUndisturbed DEF Touch, Meter
<1>5. CASE Lookup(r) \/ Insert(r) \/ Claim(r)
  BY <1>1, <1>2, <1>5, SessionsUndisturbed DEF Lookup, Insert, Claim
<1>6. CASE Get(r) \/ Serve(r) BY <1>1, <1>2, <1>6, SessionsUndisturbed DEF Get, Serve
<1>7. CASE DbFails(r) BY <1>1, <1>2, <1>7, SessionsUndisturbed DEF DbFails
<1>8. CASE Metering(r)
  BY <1>1, <1>2, <1>8, SessionsUndisturbed
  DEF Metering, Gate, Count, Expire, Decide, FailOpen
<1> QED BY <1>3, <1>4, <1>5, <1>6, <1>7, <1>8

\* A session is added for the request that asks for it, which then is over.
LEMMA IssueKeepsSessions ==
  ASSUME SessionInv, NEW r \in Requests, NEW u \in Requests, Issue(r, u),
         pc[r] \in {"commit", "issue"}, UNCHANGED <<asked, who, now>>,
         pc' = [pc EXCEPT ![r] = "done"],
         NEW a \in {"created", "ok", "failed"}, answer' = [answer EXCEPT ![r] = a],
         a = "ok" => kind[r] = "login"
  PROVE  SessionsOK'
<1> USE DEF SessionInv, SessionsOK, TypeOK, GateTypeOK, OrNobody, asked, Issue
<1>1. \A s \in Requests : token[s] \in Requests => token[s] # r OBVIOUS
<1>2. \A s \in Requests : token[s] \in live' => token[s] \in live BY <1>1
<1>3. \A s \in Requests : s \in stale => ~Valid(token[s])'
  <2> TAKE s \in Requests
  <2>1. token[s] \in Requests /\ token[s] # r => until'[token[s]] = until[token[s]]
    OBVIOUS
  <2> QED BY <1>1, <1>2, <2>1 DEF Valid
<1>4. r \notin stale OBVIOUS
<1> QED BY <1>1, <1>2, <1>3, <1>4

LEMMA DeleteKeepsSessions ==
  ASSUME SessionInv, NEW r \in Requests, Delete(r) PROVE SessionsOK'
<1> USE DEF SessionInv, SessionsOK, TypeOK, GateTypeOK, asked, Delete, Settle, Goto, Reply
<1>1. \A s \in Requests : s \in stale => ~Valid(token[s])' BY DEF Valid
<1>2. r \notin stale /\ token[r] \notin live' OBVIOUS
<1> QED BY <1>1, <1>2

LEMMA FindKeepsSessions ==
  ASSUME SessionInv, NEW r \in Requests, Find(r) PROVE SessionsOK'
<1> USE DEF SessionInv, SessionsOK, TypeOK, GateTypeOK, asked, sessions, Goto, Reply
<1>1. \A t : Valid(t)' = Valid(t) BY DEF Valid, Find
<1>2. r \notin stale /\ pc[r] = "handler" /\ kind[r] = "login" BY DEF Find
<1>3. \A u \in Matches(r) : u \in Requests BY DEF Matches
<1> QED BY <1>1, <1>2, <1>3 DEF Find

LEMMA ArriveKeepsSessions ==
  ASSUME SessionInv, NEW r \in Requests, Arrive(r) PROVE SessionsOK'
<1> USE DEF SessionInv, SessionsOK, TypeOK, GateTypeOK, sessions, Goto, Reply
<1>1. \A t : Valid(t)' = Valid(t)
  BY DEF Valid, Arrive, ArrivePublic, ArriveProtected, Meter
<1>2. r \notin stale /\ r \notin live /\ pc[r] = "idle" /\ answer[r] = "none"
  BY DEF Arrive, ArrivePublic, ArriveProtected
<1>3. CASE ArrivePublic(r)
  BY <1>1, <1>2, <1>3 DEF ArrivePublic, Meter
<1>4. CASE ArriveProtected(r)
  <2>1. PICK k \in {"logout", "call"}, t \in Tokens \cup {Nobody} :
          /\ kind' = [kind EXCEPT ![r] = k] /\ token' = [token EXCEPT ![r] = t]
          /\ IF t = Nobody THEN Reply(r, "denied") /\ UNCHANGED stale
             ELSE /\ Goto(r, "select") /\ UNCHANGED answer
                  /\ stale' = IF Ended(t) \/ until[t] <= now THEN stale \cup {r} ELSE stale
    BY <1>4 DEF ArriveProtected
  <2>2. UNCHANGED <<now, who, sessions>> BY <1>4 DEF ArriveProtected
  <2>3. t # Nobody => t \in Requests /\ pc[t] = "done" /\ t # r
    BY <1>2 DEF Tokens
  <2>4. t # Nobody /\ (Ended(t) \/ until[t] <= now) => ~Valid(t)
    <3>1. Ended(t) => t \notin live BY DEF Ended
    <3>2. t # Nobody => until[t] \in Nat /\ now \in Int BY <2>3
    <3> QED BY <3>1, <3>2 DEF Valid
  <2>5. CASE t = Nobody
    BY <1>1, <1>2, <2>1, <2>2, <2>5, AccountsAssumption
  <2>6. CASE t # Nobody
    BY <1>1, <1>2, <2>1, <2>2, <2>3, <2>4, <2>6
  <2> QED BY <2>5, <2>6
<1> QED BY <1>3, <1>4 DEF Arrive

\* Time ends sessions, and revives none.
LEMMA ClockKeepsSessions ==
  ASSUME SessionInv, Clock \/ UNCHANGED vars PROVE SessionsOK'
<1>1. UNCHANGED <<pc, answer, asked, who, sessions>> /\ now' \in Int /\ now' >= now
  BY DEF Clock, Tick, vars, gateVars, meters, SessionInv, TypeOK, GateTypeOK
<1>2. \A t \in Requests : Valid(t)' => Valid(t)
  BY <1>1 DEF Valid, SessionInv, TypeOK, GateTypeOK, sessions
<1> QED BY <1>1, <1>2 DEF SessionInv, SessionsOK, asked, sessions

LEMMA NextKeepsSessions == AccountsInv /\ [Next]_vars => SessionsOK'
<1> SUFFICES ASSUME AccountsInv, [Next]_vars PROVE SessionsOK'
  OBVIOUS
<1>1. SessionInv BY DEF AccountsInv, SessionInv
<1>2. ASSUME NEW r \in Requests, Commit(r) PROVE SessionsOK'
  <2>1. PICK a \in {"created", "failed"} : Reply(r, a)
    BY <1>2 DEF Commit, Settle
  <2> QED BY <1>1, <1>2, <2>1, IssueKeepsSessions DEF Commit, Reply, Goto
<1>3. ASSUME NEW r \in Requests, LoginCommit(r) PROVE SessionsOK'
  <2>1. PICK a \in {"ok", "failed"} : Reply(r, a)
    BY <1>3 DEF LoginCommit, Settle
  <2>2. who[r] \in Requests /\ kind[r] = "login"
    BY <1>1, <1>3 DEF LoginCommit, SessionInv, SessionsOK
  <2> QED BY <1>1, <1>3, <2>1, <2>2, IssueKeepsSessions DEF LoginCommit, Reply, Goto
<1> QED BY <1>1, <1>2, <1>3, HandlerKeepsSessions, DeleteKeepsSessions, FindKeepsSessions,
           ArriveKeepsSessions, ClockKeepsSessions DEF Next, Step, Register

-----------------------------------------------------------------------------
(* The theorems.                                                           *)

LEMMA NextTyped == AccountsInv /\ [Next]_vars => TypeOK'
  BY ArriveTyped, StepTyped, MeteringTyped, ClockTyped DEF Next

LEMMA AccountsInvariant == Spec => []AccountsInv
<1>1. Init => AccountsInv BY InitAccounts
<1>2. AccountsInv /\ [Next]_vars => AccountsInv'
  BY NextTyped, NextKeepsGate, NextKeepsRegister, NextKeepsNames, NextKeepsSessions
  DEF AccountsInv
<1> QED BY <1>1, <1>2, PTL DEF Spec

\* Every variable keeps its type, for any number of requests and failures.
THEOREM AccountsTypeCorrect == Spec => []TypeOK
<1>1. AccountsInv => TypeOK BY DEF AccountsInv
<1> QED BY <1>1, AccountsInvariant, PTL

\* However registrations overlap and fail, the first account to be committed
\* owns the default workspace, and no two accounts share one (register).
THEOREM FirstOwns == Spec => []OneOwner
<1>1. AccountsInv => OneOwner
  BY AccountsAssumption DEF AccountsInv, RegisterOK, OneOwner, WorkspaceOf, TypeOK
<1> QED BY <1>1, AccountsInvariant, PTL

\* Two accounts have different names, and names that the lookup takes for the
\* same belong to registrations that overlapped (register).
THEOREM NamesStayApart == Spec => []NamesApart
<1>1. AccountsInv => NamesApart
  BY DEF AccountsInv, NamesOK, NamesApart, TypeOK
<1> QED BY <1>1, AccountsInvariant, PTL

\* A token that was dead when a request came with it opens nothing
\* (authenticate, logout).
THEOREM DeadStaysDead == Spec => []DeadTokens
<1>1. AccountsInv => DeadTokens
  BY DEF AccountsInv, SessionsOK, DeadTokens, TypeOK, GateTypeOK
<1> QED BY <1>1, AccountsInvariant, PTL

\* Some registration can go on as long as one waits (register).
THEOREM NobodyWaitsInACircle == Spec => []NoCircle
<1>1. AccountsInv => NoCircle
  <2> SUFFICES ASSUME AccountsInv, NEW r \in Requests, Waits(r)
               PROVE  \E s \in Requests : pc[s] \in {"claim", "commit"} /\ ~Waits(s)
    BY DEF NoCircle
  <2> USE DEF AccountsInv, RegisterOK, TypeOK, OrNobody
  <2>1. ASSUME NEW s \in Requests, pc[s] = "commit" PROVE ~Waits(s)
    BY <2>1 DEF Waits
  <2>2. CASE rowLock # Nobody BY <2>1, <2>2
  <2>3. CASE rowLock = Nobody
    <3>1. PICK u \in pending : name[u] = name[r] BY <2>3 DEF Waits
    <3>2. ~Waits(u) BY <2>1, <2>3, <3>1 DEF Waits
    <3> QED BY <3>1, <3>2
  <2> QED BY <2>2, <2>3
<1> QED BY <1>1, AccountsInvariant, PTL

\* The numbers their INCR gave them tell the requests that are rightly let
\* through in a bucket apart, and none is above the limit (RateLimiter.check,
\* RateLimitMiddleware).
THEOREM LimitHolds == Spec => []WithinLimit
<1>1. AccountsInv => WithinLimit
  <2> SUFFICES ASSUME AccountsInv, NEW i \in Identities, NEW b \in 0..MaxTime
               PROVE  Cardinality({r \in Rightly : KeyOf(r) = <<i, b>>})
                        <= (IF i = Host THEN HostLimit ELSE WorkspaceLimit)
    BY DEF WithinLimit
  <2> DEFINE let == {r \in Rightly : KeyOf(r) = <<i, b>>}
             limit == IF i = Host THEN HostLimit ELSE WorkspaceLimit
             number == [r \in let |-> mine[r]]
  <2>1. limit \in Nat BY GateAssumption
  <2>2. \A r \in let : r \in Requests /\ r \in prompt /\ mine[r] \in 1..limit
    <3> TAKE r \in let
    <3>1. r \in Requests /\ r \in prompt /\ mine[r] \in Nat /\ mine[r] >= 1
      BY DEF AccountsInv, TypeOK, GateTypeOK, GateOK, Rightly
    <3>2. mine[r] <= LimitOf(r)
      BY <3>1 DEF AccountsInv, GateOK, Rightly, Allowed
    <3>3. ident[r] = i BY DEF KeyOf
    <3> QED BY <2>1, <3>1, <3>2, <3>3 DEF LimitOf
  <2>3. number \in Injection(let, 1..limit)
    <3>1. number \in [let -> 1..limit] BY <2>2
    <3>2. \A r, s \in let : number[r] = number[s] => r = s
      BY <2>2 DEF AccountsInv, GateOK
    <3> HIDE DEF number, let, limit
    <3> QED BY <3>1, <3>2, Fun_IsInj
  <2>4. IsFiniteSet(1..limit) /\ Cardinality(1..limit) = limit
    <3> HIDE DEF limit
    <3>1. /\ IsFiniteSet(1..limit)
          /\ Cardinality(1..limit) = IF 1 > limit THEN 0 ELSE limit - 1 + 1
      BY <2>1, FS_Interval
    <3> QED BY <2>1, <3>1
  <2> HIDE DEF number, let, limit
  <2>5. Cardinality(let) <= Cardinality(1..limit) BY <2>3, <2>4, FS_Injection
  <2>6. Cardinality(let) <= limit BY <2>4, <2>5
  <2> QED BY <2>6 DEF let, limit
<1> QED BY <1>1, AccountsInvariant, PTL

\* Whoever waits as long as Retry-After says, and half a second for the rounding
\* of TTL, is counted in a later bucket (RateLimiter.check, reset_after).
THEOREM RetryAfterIsHonest == Spec => []RetryAfterHonest
<1>1. AccountsInv => RetryAfterHonest
  <2> DEFINE half == Second \div 2
  <2> SUFFICES ASSUME AccountsInv, NEW r \in Requests
               PROVE  Bucket(now + ResetAfter(KeyOf(r)) + half) > bucket[r]
    BY DEF RetryAfterHonest
  <2>1. /\ now \in Nat /\ bucket[r] \in Nat /\ bucket[r] <= Bucket(now)
        /\ KeyOf(r) \in Keys /\ KeyOf(r)[2] = bucket[r]
    BY KeyTyped DEF AccountsInv, TypeOK, GateTypeOK, GateOK
  <2>2. half \in Nat BY GateAssumption
  <2> HIDE DEF half
  <2>3. CASE ~(Ttl(KeyOf(r)) > 0)
    <3>1. ResetAfter(KeyOf(r)) = Window /\ Window \in Nat
      BY <2>3, GateAssumption DEF ResetAfter
    <3>2. now + Window \in Nat /\ now + Window + half \in Nat
      BY <2>1, <2>2, <3>1
    <3>3. Bucket(now) \in Nat /\ Bucket(now + Window) = Bucket(now) + 1
      BY <2>1, BucketBounds, BucketNext
    <3>4. Bucket(now + Window) <= Bucket(now + Window + half)
      BY <2>2, <3>2, BucketMonotone
    <3>5. Bucket(now + Window + half) \in Nat BY <3>2, BucketBounds
    <3> QED BY <2>1, <3>1, <3>3, <3>4, <3>5
  <2>4. CASE Ttl(KeyOf(r)) > 0
    <3> DEFINE left == deadline[KeyOf(r)] - now
    <3>1. deadline[KeyOf(r)] # NoTtl BY <2>4 DEF Ttl, NoTtl
    <3>2. deadline[KeyOf(r)] \in Nat /\ Bucket(deadline[KeyOf(r)]) > bucket[r]
      BY <2>1, <3>1 DEF AccountsInv, GateOK
    <3>3. /\ Ttl(KeyOf(r)) = (left + half) \div Second
          /\ ResetAfter(KeyOf(r)) = Second * Ttl(KeyOf(r))
      BY <2>4, <3>1 DEF Ttl, ResetAfter, half
    <3>4. left \in Int BY <2>1, <3>2
    <3> HIDE DEF left
    <3>5. ResetAfter(KeyOf(r)) \in Nat
      BY <2>2, <2>4, <3>3, <3>4, GateAssumption
    <3>6. left <= ResetAfter(KeyOf(r)) + half
      <4>1. CASE left \in Nat BY <3>3, <4>1, RoundingBounds DEF half
      <4>2. CASE left \notin Nat BY <2>2, <3>4, <3>5, <4>2
      <4> QED BY <4>1, <4>2
    <3>7. /\ now + ResetAfter(KeyOf(r)) + half \in Nat
          /\ deadline[KeyOf(r)] <= now + ResetAfter(KeyOf(r)) + half
      BY <2>1, <2>2, <3>2, <3>5, <3>6 DEF left
    <3>8. Bucket(deadline[KeyOf(r)]) <= Bucket(now + ResetAfter(KeyOf(r)) + half)
      BY <3>2, <3>7, BucketMonotone
    <3>9. /\ Bucket(now + ResetAfter(KeyOf(r)) + half) \in Nat
          /\ Bucket(deadline[KeyOf(r)]) \in Nat
      BY <3>2, <3>7, BucketBounds
    <3> QED BY <2>1, <3>2, <3>8, <3>9
  <2> QED BY <2>3, <2>4
<1> QED BY <1>1, AccountsInvariant, PTL
===============================================================================
