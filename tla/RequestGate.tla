---------------------------- MODULE RequestGate ----------------------------
(* The rate limiter in front of the handlers (auth/rate_limit.py) as a     *)
(* protocol of each request with Redis: read the clock, INCR the counter   *)
(* of the identity and of the clock's bucket, EXPIRE it if this was the    *)
(* first hit, read its TTL, and decide.  Between two of these calls the    *)
(* clock goes on and other requests count.  Module Accounts puts the       *)
(* authentication in front of it and the handlers behind it.               *)
EXTENDS Integers, FiniteSets

CONSTANTS Requests,        \* HTTP requests
          Host,            \* the client address they all come from
          Workspaces,      \* the other identities that are counted
          HostLimit,       \* auth_login_rate_limit_requests
          WorkspaceLimit,  \* auth_rate_limit_requests
          Second,          \* ticks of a second
          Window,          \* auth_rate_limit_window_seconds, in ticks
          MaxTime,         \* bound: ticks of the clock
          MaxOpen,         \* bound: requests under way at a time
          Faults,          \* which of "redis" and "db" fail
          MaxFailures      \* bound: how often one of them fails

ASSUME GateAssumption ==
  /\ {Second, Window} \subseteq Nat \ {0} /\ Window % Second = 0
  /\ MaxTime \in Nat
  /\ MaxOpen \in Nat /\ MaxFailures \in Nat
  /\ HostLimit \in Nat /\ WorkspaceLimit \in Nat
  /\ Host \notin Workspaces

VARIABLES now,       \* the clock
          failures,  \* how often Redis or the database has failed
          hits,      \* Redis: the counter under a key, 0 if there is none
          deadline,  \* Redis: when a key expires, NoTtl if never
          pc,        \* where a request is
          ident,     \* the identity it is counted for
          bucket,    \* the bucket of the clock it read before its INCR
          mine,      \* what its INCR returned
          prompt,    \* history: requests whose INCR returned in the bucket they read
          admitted,  \* history: requests let through
          open,      \* history: those of them for which a call to Redis failed
          answer     \* what the request was answered

redis    == <<hits, deadline>>
meters   == <<ident, bucket, mine, prompt, admitted, open>>
gateVars == <<now, failures, hits, deadline, pc, meters, answer>>

Identities == Workspaces \cup {Host}
NoTtl == -1
Bucket(t) == t \div Window
Keys == Identities \X (0..MaxTime)
KeyOf(r) == <<ident[r], bucket[r]>>

\* Only the login and registration endpoints are reached without a session,
\* so the address is counted exactly for them.
LimitOf(r) == IF ident[r] = Host THEN HostLimit ELSE WorkspaceLimit

Answers == {"none", "created", "ok", "conflict", "denied", "limited", "failed"}

GateTypeOK ==
  /\ now \in 0..MaxTime /\ failures \in 0..MaxFailures
  /\ hits \in [Keys -> Nat]
  /\ deadline \in [Keys -> Int]
  /\ ident \in [Requests -> Identities]
  /\ bucket \in [Requests -> 0..MaxTime]
  /\ mine \in [Requests -> Nat]
  /\ prompt \subseteq Requests /\ open \subseteq admitted /\ admitted \subseteq Requests
  /\ answer \in [Requests -> Answers]

GateInit ==
  /\ now = 0 /\ failures = 0
  /\ hits = [k \in Keys |-> 0]
  /\ deadline = [k \in Keys |-> NoTtl]
  /\ pc = [r \in Requests |-> "idle"]
  /\ ident = [r \in Requests |-> Host]
  /\ bucket = [r \in Requests |-> 0]
  /\ mine = [r \in Requests |-> 0]
  /\ prompt = {} /\ admitted = {} /\ open = {}
  /\ answer = [r \in Requests |-> "none"]

Goto(r, label) == pc' = [pc EXCEPT ![r] = label]

\* A request ends with an answer.
Reply(r, a) == answer' = [answer EXCEPT ![r] = a] /\ Goto(r, "done")

Room == Cardinality({r \in Requests : pc[r] \notin {"idle", "done"}}) < MaxOpen

\* A request reaches the limiter as this identity and reads the clock.
Meter(r, identity) ==
  /\ ident' = [ident EXCEPT ![r] = identity]
  /\ bucket' = [bucket EXCEPT ![r] = Bucket(now)]
  /\ Goto(r, "count")
  /\ UNCHANGED <<now, failures, redis, mine, prompt, admitted, open, answer>>

\* INCR, possibly after the bucket of the clock reading is over.
Count(r) ==
  /\ pc[r] = "count"
  /\ LET n == hits[KeyOf(r)] + 1
     IN  /\ hits' = [hits EXCEPT ![KeyOf(r)] = n]
         /\ mine' = [mine EXCEPT ![r] = n]
         /\ Goto(r, IF n = 1 THEN "expire" ELSE "ttl")
  /\ prompt' = IF bucket[r] = Bucket(now) THEN prompt \cup {r} ELSE prompt
  /\ UNCHANGED <<now, failures, deadline, ident, bucket, admitted, open, answer>>

ExpireWithin(r) ==                          \* mutant: not a whole window
  /\ pc[r] = "expire"
  /\ deadline' = IF hits[KeyOf(r)] > 0
                 THEN [deadline EXCEPT ![KeyOf(r)] = now + Window - 1]
                 ELSE deadline
  /\ Goto(r, "ttl")
  /\ UNCHANGED <<now, failures, hits, meters, answer>>

\* EXPIRE of a key that may have gone meanwhile.
Expire(r) ==
  /\ pc[r] = "expire"
  /\ deadline' = IF hits[KeyOf(r)] > 0
                 THEN [deadline EXCEPT ![KeyOf(r)] = now + Window]
                 ELSE deadline
  /\ Goto(r, "ttl")
  /\ UNCHANGED <<now, failures, hits, meters, answer>>

\* TTL: what is left of a key, rounded to the nearest second.
Ttl(k) ==
  IF deadline[k] = NoTtl THEN NoTtl
  ELSE (deadline[k] - now + Second \div 2) \div Second

\* reset_after: the TTL, the whole window if there is none or less than half a
\* second is left.
ResetAfterTtl(k) == Second * Ttl(k)         \* mutant: no fallback
ResetAfter(k) == IF Ttl(k) > 0 THEN Second * Ttl(k) ELSE Window

Allowed(r) == mine[r] <= LimitOf(r)

\* TTL, and the decision: on to the handler, or 429 with Retry-After.
Decide(r) ==
  /\ pc[r] = "ttl"
  /\ IF Allowed(r)
     THEN admitted' = admitted \cup {r} /\ Goto(r, "handler") /\ UNCHANGED answer
     ELSE Reply(r, "limited") /\ UNCHANGED admitted
  /\ UNCHANGED <<now, failures, redis, ident, bucket, mine, prompt, open>>

Failure(what) ==
  what \in Faults /\ failures < MaxFailures /\ failures' = failures + 1

\* A Redis call raises: the request passes unmetered.  The INCR may have been
\* carried out all the same.
FailOpen(r) ==
  /\ Failure("redis")
  /\ pc[r] \in {"count", "expire", "ttl"}
  /\ Goto(r, "handler")
  /\ admitted' = admitted \cup {r} /\ open' = open \cup {r}
  /\ \/ UNCHANGED hits
     \/ pc[r] = "count" /\ hits' = [hits EXCEPT ![KeyOf(r)] = @ + 1]
  /\ UNCHANGED <<now, deadline, ident, bucket, mine, prompt, answer>>

\* Time goes on; Redis forgets the keys whose time has come.
Tick ==
  /\ now < MaxTime /\ now' = now + 1
  /\ LET Gone(k) == deadline[k] # NoTtl /\ deadline[k] <= now'
     IN  /\ hits' = [k \in Keys |-> IF Gone(k) THEN 0 ELSE hits[k]]
         /\ deadline' = [k \in Keys |-> IF Gone(k) THEN NoTtl ELSE deadline[k]]
  /\ UNCHANGED <<failures, pc, meters, answer>>

Gate(r) == Count(r) \/ Expire(r) \/ Decide(r)

-----------------------------------------------------------------------------
(* What the limiter guarantees.                                            *)

\* Requests let through whose INCR returned in the bucket they had read: all of
\* them but those that were over the limit and passed because Redis failed later.
Rightly == {r \in admitted \cap prompt : r \notin open \/ Allowed(r)}

\* Of one identity at most the limit of them are let through in a bucket, however
\* INCR, EXPIRE and TTL interleave with each other and with the expiry of the
\* key, which outlives its bucket: a request that fails open after it was counted
\* takes a place as well, and only one that had none left comes on top
\* (RateLimiter.check, RateLimitMiddleware).
WithinLimit ==
  \A i \in Identities, b \in 0..MaxTime :
    Cardinality({r \in Rightly : KeyOf(r) = <<i, b>>})
      <= (IF i = Host THEN HostLimit ELSE WorkspaceLimit)

\* Whoever is refused, at whatever moment the TTL is read, and then waits as long
\* as Retry-After says and half a second, which TTL may have rounded away, is
\* counted in another bucket, also when the key has no TTL yet or has expired
\* meanwhile (RateLimiter.check).
RetryAfterHonest ==
  \A r \in Requests :
    pc[r] = "ttl" /\ ~Allowed(r) =>
      Bucket(now + ResetAfter(KeyOf(r)) + Second \div 2) > bucket[r]
=============================================================================
