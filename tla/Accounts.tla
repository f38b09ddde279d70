------------------------------ MODULE Accounts ------------------------------
(* Users, workspaces and sessions: AuthMiddleware, the rate limiter behind *)
(* it (RequestGate), and the handlers of routes/auth.py with AuthService,  *)
(* one action per database call, on PostgreSQL with READ COMMITTED.        *)
(* An account is named by the request that registers it, and so are the    *)
(* workspace made for it and the session a request is given.               *)
EXTENDS RequestGate

CONSTANTS Names,       \* user names as they are written
          Lower,       \* lower() of PostgreSQL, on names
          Casefold,    \* str.casefold() of Python, on names
          Default,     \* the workspace the first migration makes
          Nobody,      \* no account, no name, no token, a wrong password
          SessionTtl   \* auth_session_ttl_seconds, in ticks

ASSUME AccountsAssumption ==
  /\ Workspaces = Requests \cup {Default}
  /\ Default \notin Requests /\ Nobody \notin Requests
  /\ SessionTtl \in Nat

VARIABLES kind,     \* what a request asks for
          name,     \* the name it gives
          knows,    \* the account whose password it gives
          token,    \* the session whose token it carries
          who,      \* the account it has found
          stored,   \* accounts in the database
          pending,  \* accounts flushed in a transaction that is open
          home,     \* which workspace an account is given
          owner,    \* the owner of the default workspace
          rowLock,  \* the transaction that holds the row of that workspace
          live,     \* sessions in the database
          until,    \* when a session expires
          holder,   \* whose session it is
          knew,     \* history: accounts stored when a registration looked
          stale     \* history: requests whose token was dead when they came

asked    == <<kind, name, knows, token, stale>>
users    == <<stored, pending, home, owner, rowLock>>
sessions == <<live, until, holder>>
vars     == <<gateVars, asked, who, users, sessions, knew>>

Public == {"register", "login"}
Waiting == {"none"} \cup Public
OrNobody == Requests \cup {Nobody}

TypeOK ==
  /\ GateTypeOK
  /\ pc \in [Requests -> {"idle", "select", "touch", "count", "expire", "ttl",
                          "handler", "insert", "claim", "commit", "issue",
                          "delete", "done"}]
  /\ kind \in [Requests -> {"none", "register", "login", "logout", "call"}]
  /\ name \in [Requests -> Names \cup {Nobody}]
  /\ knows \in [Requests -> OrNobody] /\ token \in [Requests -> OrNobody]
  /\ who \in [Requests -> OrNobody] /\ holder \in [Requests -> OrNobody]
  /\ stored \subseteq Requests /\ pending \subseteq Requests
  /\ stored \cap pending = {}
  /\ home \in [Requests -> {"none", "default", "own"}]
  /\ owner \in OrNobody /\ rowLock \in OrNobody
  /\ live \subseteq Requests /\ until \in [Requests -> Nat]
  /\ knew \in [Requests -> SUBSET Requests] /\ stale \subseteq Requests

Init ==
  /\ GateInit
  /\ kind = [r \in Requests |-> "none"]
  /\ name = [r \in Requests |-> Nobody]
  /\ knows = [r \in Requests |-> Nobody]
  /\ token = [r \in Requests |-> Nobody]
  /\ who = [r \in Requests |-> Nobody]
  /\ stored = {} /\ pending = {}
  /\ home = [r \in Requests |-> "none"]
  /\ owner = Nobody /\ rowLock = Nobody
  /\ live = {} /\ until = [r \in Requests |-> 0]
  /\ holder = [r \in Requests |-> Nobody]
  /\ knew = [r \in Requests |-> {}]
  /\ stale = {}

WorkspaceOf(u) == IF home[u] = "default" THEN Default ELSE u

ValidForEver(t) == t \in live                \* mutant: expiry not checked

\* The session a token names, if it is in the table and has not expired.
Valid(t) == t \in live /\ until[t] > now

\* A token is given to a client with an answer (the session cookie).
Tokens == {t \in Requests : kind[t] \in Public /\ answer[t] \in {"created", "ok"}}

\* Answered logouts.
Ended(t) == \E r \in Requests : kind[r] = "logout" /\ token[r] = t /\ answer[r] = "ok"

-----------------------------------------------------------------------------
(* AuthMiddleware.                                                         *)

\* Registration and login are public.
ArrivePublic(r) ==
  /\ pc[r] = "idle" /\ Room
  /\ \E n \in Names :
       /\ name' = [name EXCEPT ![r] = n]
       /\ \/ kind' = [kind EXCEPT ![r] = "register"] /\ UNCHANGED knows
          \/ /\ kind' = [kind EXCEPT ![r] = "login"]
             /\ \E p \in stored \cup {Nobody} : knows' = [knows EXCEPT ![r] = p]
  /\ Meter(r, Host)
  /\ UNCHANGED <<token, stale, who, users, sessions, knew>>

\* Everything else needs a token; without one the answer is 401 at once, and
\* such requests are not counted.
ArriveProtected(r) ==
  /\ pc[r] = "idle" /\ Room
  /\ \E k \in {"logout", "call"}, t \in Tokens \cup {Nobody} :
       /\ kind' = [kind EXCEPT ![r] = k]
       /\ token' = [token EXCEPT ![r] = t]
       /\ IF t = Nobody THEN Reply(r, "denied") /\ UNCHANGED stale
          ELSE /\ Goto(r, "select") /\ UNCHANGED answer
               /\ stale' = IF Ended(t) \/ until[t] <= now THEN stale \cup {r} ELSE stale
  /\ UNCHANGED <<now, failures, redis, meters, name, knows, who, users, sessions, knew>>

\* AuthService.authenticate: the session, its user and the membership.
Select(r) ==
  /\ pc[r] = "select"
  /\ IF Valid(token[r]) THEN Goto(r, "touch") /\ UNCHANGED answer
     ELSE Reply(r, "denied")
  /\ UNCHANGED <<now, failures, redis, meters, asked, who, users, sessions, knew>>

\* The commit of last_seen_at, which fails on a row that is gone.
Touch(r) ==
  /\ pc[r] = "touch"
  /\ IF token[r] \in live THEN Meter(r, WorkspaceOf(holder[token[r]]))
     ELSE Reply(r, "failed") /\ UNCHANGED <<now, failures, redis, meters>>
  /\ UNCHANGED <<asked, who, users, sessions, knew>>

-----------------------------------------------------------------------------
(* AuthService.register: one transaction.                                  *)

SameKey(u, r) == Lower[name[u]] = Casefold[name[r]]

LookupAsWritten(r) ==                       \* mutant: case not folded
  /\ pc[r] = "handler" /\ kind[r] = "register"
  /\ knew' = [knew EXCEPT ![r] = stored]
  /\ IF \E u \in stored : name[u] = name[r] THEN Reply(r, "conflict")
     ELSE Goto(r, "insert") /\ UNCHANGED answer
  /\ UNCHANGED <<now, failures, redis, meters, asked, who, users, sessions>>

Lookup(r) ==
  /\ pc[r] = "handler" /\ kind[r] = "register"
  /\ knew' = [knew EXCEPT ![r] = stored]
  /\ IF \E u \in stored : SameKey(u, r) THEN Reply(r, "conflict")
     ELSE Goto(r, "insert") /\ UNCHANGED answer
  /\ UNCHANGED <<now, failures, redis, meters, asked, who, users, sessions>>

\* The flush of the user row waits for an open transaction that has inserted
\* the same name, and fails on a name that is taken: the column is unique, and
\* case-sensitive.
Insert(r) ==
  /\ pc[r] = "insert"
  /\ \A u \in pending : name[u] # name[r]
  /\ IF \E u \in stored : name[u] = name[r]
     THEN Reply(r, "failed") /\ UNCHANGED pending
     ELSE pending' = pending \cup {r} /\ Goto(r, "claim") /\ UNCHANGED answer
  /\ UNCHANGED <<now, failures, redis, meters, asked, who, stored, home, owner, rowLock,
                 sessions, knew>>

ClaimUnlocked(r) ==                         \* mutant: no FOR UPDATE
  /\ pc[r] = "claim"
  /\ home' = [home EXCEPT ![r] = IF owner # Nobody THEN "own" ELSE "default"]
  /\ Goto(r, "commit")
  /\ UNCHANGED <<now, failures, redis, meters, answer, asked, who, stored, pending,
                 owner, rowLock, sessions, knew>>

\* SELECT ... WHERE owner_id IS NULL FOR UPDATE: waits for whoever holds the
\* row, and looks at it again when it is free.
Claim(r) ==
  /\ pc[r] = "claim"
  /\ IF owner # Nobody
     THEN home' = [home EXCEPT ![r] = "own"] /\ UNCHANGED rowLock
     ELSE /\ rowLock = Nobody /\ rowLock' = r
          /\ home' = [home EXCEPT ![r] = "default"]
  /\ Goto(r, "commit")
  /\ UNCHANGED <<now, failures, redis, meters, answer, asked, who, stored, pending, owner,
                 sessions, knew>>

\* A session for account u, its token made by request r.
Issue(r, u) ==
  /\ live' = live \cup {r}
  /\ until' = [until EXCEPT ![r] = now + SessionTtl]
  /\ holder' = [holder EXCEPT ![r] = u]

\* A commit is carried out, and answered unless the database fails then, or
\* when the rows are read back.
Settle(r, a) ==
  \/ Reply(r, a) /\ UNCHANGED failures
  \/ Reply(r, "failed") /\ Failure("db")

Release(r) == rowLock' = IF rowLock = r THEN Nobody ELSE rowLock

Commit(r) ==
  /\ pc[r] = "commit"
  /\ stored' = stored \cup {r} /\ pending' = pending \ {r}
  /\ owner' = IF home[r] = "default" THEN r ELSE owner
  /\ Release(r)
  /\ Issue(r, r)
  /\ Settle(r, "created")
  /\ UNCHANGED <<now, redis, meters, asked, who, home, knew>>

-----------------------------------------------------------------------------
(* AuthService.login and logout, and any other endpoint.                   *)

Matches(r) == {u \in stored : SameKey(u, r)}

\* Some row of that lower-case name, and its password.
Find(r) ==
  /\ pc[r] = "handler" /\ kind[r] = "login"
  /\ \/ \E u \in Matches(r) :
          IF knows[r] = u
          THEN who' = [who EXCEPT ![r] = u] /\ Goto(r, "issue") /\ UNCHANGED answer
          ELSE Reply(r, "denied") /\ UNCHANGED who
     \/ Matches(r) = {} /\ Reply(r, "denied") /\ UNCHANGED who
  /\ UNCHANGED <<now, failures, redis, meters, asked, users, sessions, knew>>

LoginCommit(r) ==
  /\ pc[r] = "issue"
  /\ Issue(r, who[r]) /\ Settle(r, "ok")
  /\ UNCHANGED <<now, redis, meters, asked, who, users, knew>>

\* The session of the request, if it is still there.
Get(r) ==
  /\ pc[r] = "handler" /\ kind[r] = "logout"
  /\ IF token[r] \in live THEN Goto(r, "delete") /\ UNCHANGED answer
     ELSE Reply(r, "ok")
  /\ UNCHANGED <<now, failures, redis, meters, asked, who, users, sessions, knew>>

\* Deleting a row that another logout has deleted is only warned of.
Delete(r) ==
  /\ pc[r] = "delete"
  /\ live' = live \ {token[r]}
  /\ Settle(r, "ok")
  /\ UNCHANGED <<now, redis, meters, asked, who, users, until, holder, knew>>

Serve(r) ==
  /\ pc[r] = "handler" /\ kind[r] = "call"
  /\ Reply(r, "ok")
  /\ UNCHANGED <<now, failures, redis, meters, asked, who, users, sessions, knew>>

DbFailsNoRollback(r) ==                     \* mutant: locks are kept
  /\ Failure("db")
  /\ \/ pc[r] \in {"select", "touch", "insert", "claim", "commit", "issue", "delete"}
     \/ pc[r] = "handler" /\ kind[r] # "call"
  /\ Reply(r, "failed")
  /\ UNCHANGED <<now, redis, meters, asked, who, users, sessions, knew>>

\* The database fails: the transaction is rolled back, the answer is 500.
DbFails(r) ==
  /\ Failure("db")
  /\ \/ pc[r] \in {"select", "touch", "insert", "claim", "commit", "issue", "delete"}
     \/ pc[r] = "handler" /\ kind[r] # "call"
  /\ pending' = pending \ {r} /\ Release(r)
  /\ Reply(r, "failed")
  /\ UNCHANGED <<now, redis, meters, asked, who, stored, home, owner, sessions,
                 knew>>

Arrive(r) == ArrivePublic(r) \/ ArriveProtected(r)

Register(r) == Lookup(r) \/ Insert(r) \/ Claim(r) \/ Commit(r)

Step(r) ==
  \/ Select(r) \/ Touch(r) \/ Register(r) \/ Find(r) \/ LoginCommit(r)
  \/ Get(r) \/ Delete(r) \/ Serve(r)

Metering(r) ==
  (Gate(r) \/ FailOpen(r)) /\ UNCHANGED <<asked, who, users, sessions, knew>>

Clock == Tick /\ UNCHANGED <<asked, who, users, sessions, knew>>

Next ==
  \/ \E r \in Requests : Arrive(r) \/ Step(r) \/ Metering(r) \/ DbFails(r)
  \/ Clock

Spec == Init /\ [][Next]_vars

-----------------------------------------------------------------------------
(* What the accounts guarantee.                                            *)

\* The first account to be committed owns the default workspace, no other one
\* is given it, and no two accounts share a workspace, however registrations
\* overlap and fail (README: the first user takes over the default workspace).
OneOwner ==
  /\ \A u \in stored : (home[u] = "default") <=> (owner = u)
  /\ stored # {} => owner \in stored
  /\ \A u, v \in stored : WorkspaceOf(u) = WorkspaceOf(v) => u = v

\* No two accounts have the same name, and of two that the lookup would take
\* for the same, as names that differ in case only, neither was there when the
\* other was looked for: their registrations overlapped.
NamesApart ==
  \A u, v \in stored : u # v =>
    name[u] # name[v] /\ (SameKey(u, v) => u \notin knew[v])

\* A token that was logged out, the logout having been answered, or that had
\* expired when a request came with it, opens nothing.
DeadTokens ==
  \A r \in stale : answer[r] \in {"none", "denied", "failed"} /\ pc[r] # "handler"

\* Who waits for another transaction: for a name it has inserted, for the row
\* of the default workspace.
Waits(r) ==
  \/ pc[r] = "insert" /\ \E u \in pending : name[u] = name[r]
  \/ pc[r] = "claim" /\ owner = Nobody /\ rowLock # Nobody

\* Registrations that wait for each other's names and for the row of the
\* default workspace do not wait in a circle: as long as one waits, another is
\* under way, and what a failed transaction held is free.
NoCircle ==
  (\E r \in Requests : Waits(r)) =>
    \E s \in Requests : pc[s] \in {"claim", "commit"} /\ ~Waits(s)
=============================================================================
