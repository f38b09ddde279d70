----------------------------- MODULE MCPClient -----------------------------
(***************************************************************************)
(* The MCP client of one process: the owner task, which alone touches the  *)
(* connection and serves the queue in order, the callers who wait for it,  *)
(* and the server as the client meets it.  One step is what the owner does *)
(* between two awaits at which another task can see or change shared       *)
(* state.  A definition directly before another one with its name and a    *)
(* suffix is a faulty variant of it, used only to show that a property can *)
(* fail.                                                                   *)
(***************************************************************************)
EXTENDS Integers, Sequences

CONSTANTS
  Calls,            \* tool calls of agent runs
  Probes,           \* concurrent readiness requests; each may come again
  Tools,            \* tools a server may list
  Twice,            \* stands for a name that a server lists twice
  ConnectAttempts,  \* connect_attempts
  CallRetries,      \* call_retry_attempts
  Nobody,           \* no request is being served
  Shutdown,         \* the request close() puts into the queue
  MaxTroubles       \* bound: outages, deaths and redeployments of the server

ASSUME MCPAssumption ==
  /\ ConnectAttempts \in Nat \ {0} /\ {CallRetries, MaxTroubles} \subseteq Nat
  /\ Calls \cap Probes = {} /\ Nobody # Shutdown
  /\ {Nobody, Shutdown} \cap (Calls \cup Probes) = {}
  /\ Twice \notin Tools

VARIABLES
  owner,     \* the await the owner task is at
  job,       \* what it connects, pings or lists for
  request,   \* the request it serves
  tries,     \* connection attempts left in _connect_with_retries
  retries,   \* call retries left in _handle_call
  session,   \* _session: None, one whose server answers in time, or one that is dead
  tools,     \* _tools
  age,       \* old: tool_refresh_interval_seconds have passed since the last listing
  registry,  \* the tools with the prefix in the ToolRegistry
  queue,     \* requests that wait
  fate,      \* of each request: what its caller knows
  closing,   \* close(): not called, waiting, returned
  sends,     \* history: how each time a call was sent ended
  server,    \* up: a server can be started, and answers in time
  offer,     \* what a server would list now
  troubles   \* how often the server changed for the worse

vars == <<owner, job, request, tries, retries, session, tools, age, registry,
          queue, fate, closing, sends, server, offer, troubles>>
serverVars  == <<server, offer, troubles>>
listingVars == <<tools, age, registry>>
servingVars == <<tries, retries, sends>>
clientVars  == <<queue, closing>>

Requests == Calls \cup Probes
\* A listing the registry refuses.
Malformed == {Twice}
Listings == (SUBSET Tools) \cup {Malformed}
\* How a time a call was sent ended: refused is an answer the client takes for a
\* failed transport, an error of the protocol or a result that fails its schema.
Ends     == {"ok", "toolerror", "refused", "lost"}
Fates    == {"new", "asked", "cancelled", "ok", "toolerror", "unreachable",
             "healthy", "unhealthy"}

TypeOK ==
  /\ owner \in {"connect", "idle", "call", "ping", "list", "gone"}
  /\ job \in {"none", "start", "call", "retry", "probe", "maintain"}
  /\ request \in Requests \cup {Nobody}
  /\ tries \in 0..ConnectAttempts /\ retries \in 0..CallRetries
  /\ session \in {"none", "live", "dead"}
  /\ server \in {"up", "down"} /\ age \in {"fresh", "old"}
  /\ tools \in Listings /\ offer \in Listings
  /\ registry \subseteq Tools
  /\ queue \in Seq(Requests \cup {Shutdown})
  /\ fate \in [Requests -> Fates]
  /\ closing \in {"no", "asked", "closed"}
  /\ sends \in [Calls -> Seq(Ends)]
  /\ troubles \in 0..MaxTroubles

\* register_tools has run and start() has created the owner task.
Init ==
  /\ owner = "connect" /\ job = "start" /\ request = Nobody
  /\ tries = ConnectAttempts /\ retries = 0
  /\ session = "none" /\ tools = {} /\ age = "fresh" /\ registry = {}
  /\ queue = <<>> /\ closing = "no"
  /\ fate = [r \in Requests |-> "new"]
  /\ sends = [c \in Calls |-> <<>>]
  /\ server \in {"up", "down"} /\ offer \in Listings /\ troubles = 0

-----------------------------------------------------------------------------
(* Callers: the handlers of registered tools, and the readiness route.     *)

\* The lifespan lets requests in when start() has returned, connected or not.
Started == job # "start"
Open == Started /\ closing = "no"
Queued(r) == \E i \in DOMAIN queue : queue[i] = r

\* _submit.  A call is made through a tool of the registry.
Ask(r) ==
  /\ Open
  /\ \/ r \in Calls /\ fate[r] = "new" /\ registry # {}
     \/ r \in Probes /\ fate[r] # "asked" /\ ~Queued(r) /\ request # r
  /\ queue' = Append(queue, r)
  /\ fate' = [fate EXCEPT ![r] = "asked"]
  /\ UNCHANGED <<owner, job, request, servingVars, session, listingVars,
                 closing, serverVars>>

\* The agent run is cancelled, or the two seconds of a probe are over.  The
\* request stays in the queue.
Leave(r) ==
  /\ fate[r] = "asked"
  /\ fate' = [fate EXCEPT ![r] = "cancelled"]
  /\ UNCHANGED <<owner, job, request, servingVars, session, listingVars,
                 clientVars, serverVars>>

\* The lifespan closes the client when the HTTP server has drained and the
\* chat tasks are cancelled: nobody waits for an answer any more.
CloseAsk ==
  /\ Open /\ \A r \in Requests : fate[r] # "asked"
  /\ closing' = "asked" /\ queue' = Append(queue, Shutdown)
  /\ UNCHANGED <<owner, job, request, servingVars, session, listingVars,
                 fate, serverVars>>

CloseReturn ==
  /\ closing = "asked" /\ owner = "gone"
  /\ closing' = "closed"
  /\ UNCHANGED <<owner, job, request, servingVars, session, listingVars,
                 queue, fate, serverVars>>

-----------------------------------------------------------------------------
(* The owner task.                                                         *)

Idle == owner' = "idle" /\ job' = "none" /\ request' = Nobody

\* The answer of the request being served; its future may be cancelled.
Learn(what) ==
  fate' = [fate EXCEPT ![request] = IF @ = "asked" THEN what ELSE @]

Connected == session # "none"

\* _disconnect, and the first attempt of _connect_with_retries.
Connect(why, n) ==
  /\ session' = "none"
  /\ owner' = "connect" /\ job' = why /\ tries' = n

TakeCall ==
  /\ request' \in Calls /\ retries' = CallRetries
  /\ IF Connected
     THEN owner' = "call" /\ job' = "call" /\ UNCHANGED <<session, tries>>
     ELSE Connect("call", ConnectAttempts)
  /\ UNCHANGED fate

\* _handle_ping answers at once, and does not connect, when there is no session.
TakeProbe ==
  /\ Head(queue) \in Probes
  /\ IF Connected
     THEN /\ owner' = "ping" /\ job' = "probe" /\ request' = Head(queue)
          /\ UNCHANGED fate
     ELSE /\ Idle
          /\ fate' = [fate EXCEPT ![Head(queue)] =
                        IF @ = "asked" THEN "unhealthy" ELSE @]
  /\ UNCHANGED <<session, tries, retries>>

AfterShutdownServes == "idle"  \* faulty variant
AfterShutdown == "gone"
TakeShutdown ==
  /\ Head(queue) = Shutdown
  /\ owner' = AfterShutdown /\ job' = "none" /\ request' = Nobody
  /\ session' = "none"
  /\ UNCHANGED <<fate, tries, retries>>

Take ==
  /\ owner = "idle" /\ queue # <<>> /\ queue' = Tail(queue)
  /\ \/ request' = Head(queue) /\ TakeCall
     \/ TakeProbe
     \/ TakeShutdown
  /\ UNCHANGED <<listingVars, closing, sends, serverVars>>

\* _maintenance, when the queue has been empty for the whole interval.
TimedOutConnected == owner = "idle" /\ queue = <<>> /\ Connected
TimedOut == owner = "idle" /\ queue = <<>>
Maintain ==
  /\ TimedOut
  /\ IF Connected
     THEN /\ owner' = "ping" /\ job' = "maintain"
          /\ UNCHANGED <<session, tries>>
     ELSE Connect("maintain", 1)
  /\ UNCHANGED <<request, retries, listingVars, clientVars, fate, sends,
                 serverVars>>

\* _sync_registry: a listing the registry refuses is logged and dropped.
SyncedNever(listing) == registry
Synced(listing) == IF listing = Malformed THEN registry ELSE listing

Listed ==
  /\ tools' = offer /\ registry' = Synced(offer) /\ age' = "fresh"

\* _connect_once succeeds: the server is initialised and has listed its tools.
ConnectOk ==
  /\ owner = "connect" /\ server = "up"
  /\ session' = "live" /\ Listed
  /\ IF job \in {"call", "retry"}
     THEN owner' = "call" /\ UNCHANGED <<job, request>>
     ELSE Idle
  /\ UNCHANGED <<servingVars, clientVars, fate, serverVars>>

\* It fails: the next attempt follows, or whoever connected has to do without.
ConnectAgain ==
  /\ owner = "connect" /\ server = "down" /\ tries > 1
  /\ tries' = tries - 1
  /\ UNCHANGED <<owner, job, request, retries, sends, session, listingVars,
                 clientVars, fate, serverVars>>

MayRetry == retries > 0

RetryCall ==
  /\ Connect("retry", 1) /\ retries' = retries - 1
  /\ UNCHANGED <<request, fate>>

\* The call or the start fails with MCPConnectionError.
GiveUpSilently == UNCHANGED fate
GiveUp == Learn("unreachable")
Fail ==
  /\ IF request \in Calls THEN GiveUp ELSE UNCHANGED fate
  /\ Idle

ConnectFails ==
  /\ owner = "connect" /\ server = "down" /\ tries <= 1
  /\ IF job = "retry" /\ MayRetry
     THEN RetryCall
     ELSE Fail /\ UNCHANGED <<session, tries, retries>>
  /\ UNCHANGED <<listingVars, clientVars, sends, serverVars>>

\* _call_once.  Only a server that is there answers; a slow tool runs into the
\* timeout, and whether it ran is unknown.  Every exception of the session is a
\* failed connection: the call is sent again also when it was answered with one.
RetriedUnlessOk(end) == end # "ok"
Retried(end) == end \in {"lost", "refused"}
CallEnds ==
  /\ owner = "call"
  /\ \E end \in IF session = "live" THEN Ends ELSE {"lost"} :
       /\ sends' = [sends EXCEPT ![request] = Append(@, end)]
       /\ IF ~Retried(end)
          THEN Learn(end) /\ Idle /\ UNCHANGED <<session, tries, retries>>
          ELSE IF MayRetry
               THEN RetryCall
               ELSE /\ Fail /\ session' = "none"
                    /\ UNCHANGED <<tries, retries>>
  /\ UNCHANGED <<listingVars, clientVars, serverVars>>

\* A session whose server does not answer is closed.
KeepIfLive == session' = IF session = "live" THEN "live" ELSE "none"

\* A failed ping drops the connection; maintenance connects again only the next
\* time it runs.
PingEnds ==
  /\ owner = "ping"
  /\ KeepIfLive
  /\ IF job = "probe"
     THEN Learn(IF session = "live" THEN "healthy" ELSE "unhealthy") /\ Idle
     ELSE /\ UNCHANGED fate
          /\ IF session = "live" /\ age = "old"
             THEN owner' = "list" /\ UNCHANGED <<job, request>>
             ELSE Idle
  /\ UNCHANGED <<servingVars, listingVars, clientVars, serverVars>>

\* The periodic refresh.
ListEnds ==
  /\ owner = "list" /\ Idle
  /\ KeepIfLive
  /\ IF session = "live" THEN Listed ELSE UNCHANGED listingVars
  /\ UNCHANGED <<servingVars, clientVars, fate, serverVars>>

OwnerStep ==
  \/ Take \/ Maintain \/ ConnectOk \/ ConnectAgain \/ ConnectFails
  \/ CallEnds \/ PingEnds \/ ListEnds

-----------------------------------------------------------------------------
(* Time and the server.                                                    *)

Elapse ==
  /\ Connected /\ age = "fresh" /\ age' = "old"
  /\ UNCHANGED <<owner, job, request, servingVars, session, tools, registry,
                 clientVars, fate, serverVars>>

Trouble ==
  /\ troubles < MaxTroubles /\ troubles' = troubles + 1
  /\ \/ server = "up" /\ server' = "down" /\ UNCHANGED <<session, offer>>
     \/ session = "live" /\ session' = "dead" /\ UNCHANGED <<server, offer>>
     \/ offer' \in Listings \ {offer} /\ UNCHANGED <<server, session>>
  /\ UNCHANGED <<owner, job, request, servingVars, listingVars, clientVars, fate>>

Repair ==
  /\ server = "down" /\ server' = "up"
  /\ UNCHANGED <<owner, job, request, servingVars, session, listingVars,
                 clientVars, fate, offer, troubles>>

Next ==
  \/ OwnerStep \/ Elapse \/ Trouble \/ Repair
  \/ \E r \in Requests : Ask(r) \/ Leave(r)
  \/ CloseAsk \/ CloseReturn

Spec == Init /\ [][Next]_vars
\* The owner is an asyncio task: its requests to the server carry a timeout, and
\* that closing a connection (_disconnect) returns is assumed; time passes; an
\* outage is repaired.  Nobody has to ask, leave or close.
FairSpec == Spec /\ WF_vars(OwnerStep) /\ WF_vars(CloseReturn)
                 /\ WF_vars(Elapse) /\ WF_vars(Repair)

-----------------------------------------------------------------------------
\* No caller is forgotten: whoever waits is in the queue or being served,
\* whatever failed before (_owner_loop answers every future it takes).
NoneForgotten ==
  \A r \in Requests : fate[r] = "asked" => (Queued(r) \/ request = r)

\* Every caller gets an answer or leaves, and close() returns, behind any number
\* of slow or failing requests, also of callers that are gone (_owner_loop,
\* _handle_call).
EveryoneAnswered ==
  /\ \A r \in Requests : fate[r] = "asked" ~> fate[r] # "asked"
  /\ closing = "asked" ~> closing = "closed"

Current ==
  session = "live" /\ tools = offer /\ (tools # Malformed => registry = tools)

\* If from some time on nobody probes, the client ends up connected to the
\* server and its registry up to date (_maintenance).
RecoversWhenQuiet ==
  <>[](\A p \in Probes : fate[p] # "asked") =>
     <>[](closing # "no" \/ Current)
=============================================================================
