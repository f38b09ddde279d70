# A verification project for DataPilot

DataPilot answers questions about uploaded tables: a FastAPI backend keeps
conversations in PostgreSQL, runs an agent that asks a language model and calls
tools (DuckDB, a Python sandbox, MCP servers), publishes what happens to a Redis
stream, and a Vue client shows it over server-sent events. This directory holds
TLA+ models of that code, the TLC runs that check them on small instances and the
TLAPS proofs of their main properties. Paths below are relative to the repository
root (`src/` in `PROJECT.json`).

## The system

| part | state it keeps | operations | talks to |
|---|---|---|---|
| stream and abort endpoints (`backend/app/api/routes/conversations.py`) | local variables of each request | `stream_message`, `event_stream`, `_snapshot_stream`, `abort_message` | store, broker, task manager; the browser |
| chat worker and task manager (`chat/worker.py`, `chat/tasks.py`) | one asyncio task per assistant message; accumulated text, steps, status | `run`, `start`, `abort`, `is_running`, `shutdown` | runtime (async generator), broker, store |
| conversation store (`chat/service.py`, `db/models.py`) | conversation, message and step rows | append, complete, look up, delete | PostgreSQL |
| event broker (`chat/events.py`) | one Redis stream per message | `publish` (XADD, EXPIRE), `read` after an id | Redis |
| browser (`frontend/src/stores/chat.ts`, `api/chat.ts`) | draft message, last event id | send, retry with `Last-Event-ID`, stop | the endpoints |
| agent loop (`agent/loop.py`) | messages, usage, steps, executed signatures | `stream` | model, tool registry |
| MCP client (`mcp/client.py`) | owner task, request queue, session, tool list | call, refresh, ping, reconnect, close | MCP server process, tool registry |
| tool registry (`tools/registry.py`) | name to tool | register, `replace_prefix`, get | agent loop, MCP client |
| datasets (`datasets/*`, `tools/duckdb_engine.py`) | files, DuckDB tables, rows | ingest, preview, delete, restore | PostgreSQL, DuckDB, disk |
| artifacts (`artifacts/service.py`) | files and rows of a batch | persist, get | disk, PostgreSQL |
| sandbox (`sandbox/*`) | one container and directory per run | execute, collect, remove | Docker, HTTP |
| LLM gateway and cost (`llm/*`, `observability/*`) | usage records | chat, chat_stream, embed, record | provider, PostgreSQL |
| authentication, rate limit (`auth/*`) | users, sessions, workspaces, counters | register, login, authenticate, check | PostgreSQL, Redis |
| evaluation, load test, health, configuration | none that outlives a call | | |

What makes it hard: everything runs on one asyncio loop but interleaves at every
await; a turn is shared by up to three POSTs of one `client_request_id`, a
background task, abort calls and the deletion of its conversation; a cancellation
lands at any await; the log in Redis and the row in PostgreSQL are written
separately; the process can stop between any two steps; the browser resumes a
broken stream from the last id it saw; the agent's registry changes under a run.

What each part must do right: a turn is asked once and its log, row and resumed
streams agree (endpoints, worker, store, broker, browser); a run of the agent
stays within its limits, never repeats a call and keeps the conversation well
formed (agent loop); a call is answered once, is sent again only without a result,
and the registry comes to show the server's tools (MCP client); files, tables and rows of a dataset agree, or the
next start repairs them (datasets); everything a run creates goes away (sandbox,
artifacts); one owner of the default workspace (authentication).

`PROJECT.json` lists the components with their status and every hazard with its
line and the properties that cover it.

## Modules

| module | models |
|---|---|
| `ChatTurn` | the endpoints, the worker, the task manager, the store, the broker, the browser's retries, crash and shutdown |
| `ChatClient` | the draft the browser shows, as a fold over the frames it applied |
| `TurnContract` | what a turn promises, abstractly |
| `ChatRefinement` | `ChatTurn` as an implementation of `TurnContract` |
| `MCChatTurn` | `ChatTurn`, its draft and its contract for TLC |
| `ChatTurnProofs` | theorems about `ChatTurn` |
| `AgentLoop` | one run of `Agent.stream` with a changing registry |
| `AgentContract` | what a run may do to the outside world |
| `AgentRefinement` | `AgentLoop` as an implementation of `AgentContract` |
| `MCAgentLoop` | `AgentLoop` for TLC |
| `AgentLoopProofs` | theorems about `AgentLoop` |
| `MCPClient` | the owner task of the MCP client, its callers, the server as it meets it |
| `MCPContract` | how often a call may be executed and what its caller learns |
| `MCPRefinement` | `MCPClient` as an implementation of `MCPContract` |
| `MCMCPClient` | `MCPClient` for TLC |
| `MCPClientProofs` | theorems about `MCPClient` |
| `DatasetLifecycle` | upload, query, deletion, crash and restore of datasets |
| `MCDatasetLifecycle` | `DatasetLifecycle` for TLC |
| `DatasetLifecycleProofs` | theorems about `DatasetLifecycle` |
| `SandboxRun` | `run_python`: the caller, the runner's thread, the container, the stored artifacts |
| `MCSandboxRun` | `SandboxRun` for TLC |
| `SandboxRunProofs` | theorems about `SandboxRun` |
| `RequestGate` | the rate limiter: a request's protocol with Redis |
| `Accounts` | registration, login, logout and authentication around `RequestGate` |
| `MCAccounts` | `Accounts` for TLC |
| `AccountsProofs` | theorems about `Accounts` and `RequestGate` |
| `ModelGateway` | a model call from the caller through its retries to its usage record |
| `UsageReport` | the usage pages, read while calls go on being recorded |
| `NL2SQL` | one question of the NL2SQL service on top of the gateway |
| `MCNL2SQL` | the three above for TLC |
| `NL2SQLProofs` | theorems about `ModelGateway`, `UsageReport` and `NL2SQL` |
| `Recursion` | recursive functions and sums over finite sets: existence, uniqueness, splitting |

`RequestGate` is a part of `Accounts`, and `ModelGateway` of `UsageReport` and
`NL2SQL`: the including module extends the included one, adds its variables and
says in its `Next` what each step leaves alone.

### ChatTurn

Stores: `rows` and `row` are the message rows (`row[r]` the assistant's), `stream`
the Redis streams, `conv` the conversation. Worker: `task[r]` is where
`ChatWorker.run` is suspended, `mem[r]` its locals, `cancel[r]` a cancellation not
yet delivered, `late[r]` a shielded save whose worker was cancelled under it.
Requests: `post`, `view` (the row as the handler fetched it), `at` (its stream
cursor), `lost`; `abort` for the abort calls. Browser: `cursor`, `inbox`.
`calls`, `clobbered` and `crashes` are history.

Each await at which shared state is read or written is a step; what runs between
two awaits is one step, as asyncio guarantees. `complete_assistant_message` and
each `append_message` are one database transaction each. `Interrupt` delivers a
`CancelledError` at whatever await the worker is, with the outcome the
`try/except/finally` of `worker.py` gives it; a publish that fails or is
interrupted may have appended its entry, since XADD precedes EXPIRE. In the same way a
store that fails may have committed: the save, each row a POST writes or repairs, and
the row an abort closes. A `Crash` loses tasks and handlers and keeps rows and streams.

Abstractions: a text is the number of chunks since the last reset, steps are
counted, an error's message is one value. Reading the history changes nothing and
is part of `PostUser`. Redis trimming (2000 entries) and expiry (24 hours) are left
out. The browser retries only after an answer that failed or a lost connection, up
to `MaxAttempts` (3 in `chat.ts`); that it stops retrying after the stop button is
ignored, which only adds behaviours. A response that finds nothing after
`Last-Event-ID` and no running worker sends the whole answer as a snapshot
(`conversations.py:281`), which the browser appends to what it shows. `ResumeExact`
says of every request that the first frames applied are those of the log, from its
start and in order, and that only frames of a snapshot follow.

### AgentLoop

`pc` is where the generator is: `ask` the head of the loop, `receive` the streamed
response, `decide` the guards, `tools` the batch, `close` the completed event.
`Judge` is the chain of guards in the order of the code. `exec` holds the state of
each call of the batch; `MayStart` is the difference between `asyncio.gather`
(tasks start in order and overlap) and the sequential loop. `Refresh` is
`replace_prefix` called by the MCP client between any two steps; a call looks its
tool up when it starts. `SignatureFails` ends a run in which a signature cannot be
computed: `sqlglot` catches no error of its tokenizer (`loop.py:471`), and the response
has been counted and told by then. `sent` are the runtime events as `AgentChatRuntime`
passes them to the worker. `Cancel` closes the generator at any await.

`AgentContract` counts how often each signature was entered: a handler is entered only
for a signature with count 0, a call whose tool is unknown or refused uses up one of the
places without entering anything, and both need tokens left.

Abstractions: a call is tool, argument and spelling; parsing and printing SQL in
one layout and case is mapping every spelling to `AnyForm`. A call's id is its
position in the batch, the fallback of `_assemble_tool_calls`. Tokens are one
number. The content of results and the compaction of old messages are left out:
compaction keeps roles, order and call ids, which is all that is checked here. A
thread a cancelled call leaves behind is not followed.

### MCPClient

`owner` is the await `_owner_loop` is at (`connect`, `idle`, `call`, `ping`,
`list`), `job` what it connects, pings or lists for, `request` the queue entry it
serves; `tries` and `retries` count down the attempts of `_connect_with_retries` and
`_handle_call`. `session`, `tools` and `registry` are the session, the listing and
the registered tools; `fate[r]` is what the caller of a request knows. `Leave` is a
caller whose timeout is over or whose run is cancelled: its request stays in the
queue and is executed all the same. `Trouble` stops the server, kills a session or
changes the tools the server lists; `Repair` starts it again.

Abstractions: a session is alive or dead, and a slow tool is one whose answer is
lost. Back-off delays take no state and are left out. `refresh_tools` has no caller
in the application and is left out; the periodic refresh is `Elapse`, `PingEnds` and
`ListEnds`, with a refresh interval above 0. A call ends in one of four ways: the tool
answered, it answered with an error of its own, nothing came back (`lost`), or the
server answered with an error of the protocol or with output that fails the tool's
schema (`refused`). The lifespan closes the client after
HTTP has drained and the chat tasks are cancelled, so `CloseAsk` needs that nobody
waits.

What the model shows beside its properties: `_call_once` turns every exception of
`call_tool` into a failed transport (`client.py:413`), so a call the server has answered
with a protocol error, or whose output fails its schema, also costs the session and is
sent again, where `docs/mcp-architecture.md:98` speaks of a transport that was
interrupted. `MCPContract` therefore allows a resend after `lost` and after `refused`
(`Fruitless`), and after nothing else. A listing the registry refuses is logged and
dropped; `RecoversWhenQuiet` asks for a registry that is that of the server only when
the listing is one it can take.

### DatasetLifecycle

`row`, `disk` and `view` are the PostgreSQL row, the directory and the DuckDB view
of a dataset. `upload[d]`, `deletion[k]` and `reader[q]` say where each handler is,
`proc` where the process is in its start (`unrestored`: `restore_engine` failed and
the application serves all the same), `todo` and `bad` are the locals of
`restore_engine`. `lock` is the engine's lock while a query holds it. `removing` and
`stage` are `DatasetProcessor.remove`, which is synchronous code on the event loop:
while it waits for the lock no handler moves (`LoopFree`). `hurt` and `crashes` are
history.

Conversion, registration and schema run in threads; the effect of a thread is folded
into the step at which its handler resumes, since nobody reads it before the row is
committed. A commit may be applied although it fails, also that of `restore_engine`. A
clean-up may fail itself: `drop_table` raises and `rmtree` is skipped, or `rmtree`, which
ignores every error, leaves what it could not remove. The session is closed between
commit and removal, which gives up the loop, so a second deletion or a query can
come between. An upload is cancelled only by the end of the process, which is
`Crash`. A directory left by a crash in the middle of a handler, by a lost answer to a
commit or by a failed clean-up is a known gap of the code (no sweep exists);
`NoStrayFiles` says that there are no others. `ReadyReadable` leaves out an upload that
was answered with an error, whose files are being removed while its row may stay ready:
that window ends with the next restart (`RestoreRepairs`). The lock is not fair, so only the end of a removal is claimed
(`RemovalEnds`), not that every upload settles.

### SandboxRun

`worker[r]` is where `_execute_sync` is in its thread, one call to Docker a step;
`answer` the result it has so far, `container` and `dir` what exists on the host. The
container is a process of its own: it writes and exits when it likes, or never.
`caller[r]` is where `run_python` is: it waits for HTTP, writes the batch, commits.
`got` is the result it has; `GiveUp` is its own timeout, of which the thread does not
learn. `lapse` and `exit` are history: what has left something behind (an answer of
Docker that was refused, broken off or lost, a directory that could not be removed, a
crash of the runner), and how the code ended.

Abstractions: of an output it matters whether it is missing, begun or complete;
payloads and artifacts are accepted or refused. Execution ids, made from a clock, are
taken to be distinct. A stop of the backend is a cancellation of its callers. What
the model shows beside its properties: `_remove_quietly` catches errors of Docker
but not of the transport, so a timeout of the removal replaces the result and skips
the removal of the directory (`python_executor.py:340`); a container whose creation
was not answered, or whose removal was refused, is never looked for again; `rmtree`
ignores its errors (`:250`), and a directory the code makes in its output belongs to
uid 10001, which a runner that has dropped its capabilities (`docker-compose.yml`)
cannot empty, so `RemoveDir` may keep the directory of any run; and a deletion of a dataset does not wait for the containers that mount it.

### RequestGate and Accounts

`pc[r]` is where an HTTP request is: `select` and `touch` in
`AuthService.authenticate`, `count`, `expire` and `ttl` in the limiter, then the
handler, whose database calls are one step each. `hits` and `deadline` are Redis: a
counter and its expiry under the key of an identity and a bucket of the clock.
`pending` are users flushed in a transaction that is open, `rowLock` the transaction
that holds the row of the default workspace. `Second` is the number of ticks of a second:
the clock of the limiter is fractional and Redis rounds a TTL to the nearest second, which
is `Ttl`. The application and Redis are taken to have one clock. A step whose guard waits for an open transaction
is a statement PostgreSQL blocks. `Settle` is a commit that is carried out and may not
be answered; `DbFails` any other failure, with its rollback. `knew`, `stale`, `prompt`,
`admitted` and `open` (let through because Redis failed) are history. An account is named by the request that registers it.

Abstractions: a password is whose password it is; names are model values with two
functions, `Lower` (PostgreSQL's `lower()`) and `Casefold` (Python's), which need not
agree; the proofs leave them open, in the run they agree. One client address. Exempt paths, the limit headers of admitted responses and
the mode without authentication are left out.

What the model shows beside its properties: a name with ß is looked up as `ss` and
stored with ß, so its owner can never log in, and a second registration of it fails on
the unique index with a 500 rather than a 409. Names that differ only in case can both
be registered by overlapping requests, because `users.username` is unique
case-sensitively (`db/models.py:35`); `NamesApart` states exactly that. Login and
registration share one counter per address. A request without a token is answered 401
and never counted. Across the end of a bucket an identity gets twice the number, as a
fixed window does: `WithinLimit` is about one bucket. A request that Redis counted and
then failed to answer passes although it may be over the limit (`rate_limit.py:84`):
`WithinLimit` counts those that had a place left and excepts the others, by name. The
rounded TTL makes `Retry-After` short by up to half a second: whoever waits exactly that
long can be counted in the same bucket and refused again, so `RetryAfterHonest` adds the
half second. Without either the run finds the counterexample.
`DeadTokens` is about tokens that are dead when their request comes: one that was let in
before a logout finishes.

### ModelGateway, UsageReport and NL2SQL

`pc[c]` is where a call is: `request`, `backoff` and `lines` in
`OpenAICompatibleProvider`, `yield` while the caller of a stream holds an event, `left`
when it has dropped the stream, `select` and `insert` in `DatabaseUsageRecorder`.
`attempt` counts requests, `emitted` are the streams that have had data, after which
nothing is retried. `ledger` is the `usage_records` table; `loss` is history and names
why a call has no record. `bare` are streams that the event loop closes outside the
context that names their workspace. `UsageReport` reads the table page by page;
`Newest` leaves open which of several records of one time come first, as the query does.
`NL2SQL` follows `generate` and `_classify_empty`: `q` is where the question is, `asked`
the calls it has made, `spent`, `errors` and `tries` what its result will say. A
behaviour is either one question or (`q = "off"`) other calls and a reader of the
pages: nothing in the product asks a question, and the two share only the ledger.

Abstractions: a line of a stream is a delta, the usage or nothing; tokens are told or
not; which error a request meets is left open within the classes the code tells apart.

What the model shows beside its properties: a call without stream that is cancelled is
not recorded, while a stream is however it ends; a call that was tried several times
has one record, so what a failed attempt cost is not in the ledger; a stream whose body
ends without `[DONE]` counts as a success; the recorder gives up a record without retry
when the conversation is deleted between its two statements; pages ordered by
`created_at` alone may skip one of two records of the same time; and NL2SQL's
explanation of an empty result sends the model two user messages in a row.

## Runs

| run | instance | shows |
|---|---|---|
| `chat_faults` | 1 request, 2 POSTs, 1 abort, 2 events; broker and database fail at any call | the log is well formed; `done` means saved |
| `chat_crash` | 1 request, 2 POSTs, lost connections, 1 crash or shutdown, fairness | one model call, no gap in a resumed stream, no open turn behind a retry, refinement of `TurnContract`, the turn settles, responses end |
| `chat_abort` | 1 request, 2 POSTs, 1 abort, deletion, 2 events | log, row and replayed draft agree |
| `agent` | 2 steps, batches of up to 3 calls and one over the limit, out of 3 queries of a safe tool, one of them in 2 spellings, and a call of an unsafe MCP tool that comes and goes, parallel limit 2, 1 replan, streamed text, fairness | no call runs twice, handlers overlap only if all are safe (two do, three never), well-formed conversation, shown text is the answer, refinement of `AgentContract`, a run ends |
| `mcp_calls` | 2 calls, 1 probe that comes again, 2 connection attempts, 1 call retry, 1 trouble, fairness | nobody is forgotten, refinement of `MCPContract`, everyone is answered and `close` returns, a quiet client recovers |
| `datasets` | 2 datasets, 2 deletions, 1 query, failing commits and clean-ups, 1 crash, fairness | a ready dataset can be read, a removal does not disturb a query, nothing is left behind unknown, a restart repairs, a removal ends |
| `sandbox` | 2 runs, 1 thread, failing Docker calls and stores, cancelled callers, 1 crash of the runner, fairness | nothing is left but by a named failure, the pool bounds what runs, success is told only of code that exited with 0 and of complete and stored output, threads end |
| `accounts` | 3 requests, 2 under way, a second of 3 ticks, windows of 2 seconds, 6 ticks, host limit 2, workspace limit 1, session of 1 tick, 2 names that differ in case, 1 failure of Redis or database | one owner of the default workspace, names stay apart, dead tokens open nothing, registrations do not wait in a circle, the limit and, but for half a second, its `Retry-After` hold |
| `gateway` | 3 calls, 2 under way, 1 retry, 1 delta, 1 tick, pages of 1, 1 further try of a question | no repeated delta, a ledger that is complete and true, pages skip only ties, a result of NL2SQL accounts for its calls |
| `chat_v_*` | see below | three statements of the documentation the code does not keep |

The type invariants are defined in every module and are in no run: TLAPS proves each
of them for all constants.

Why the bounds are enough: requests do not share state except the conversation,
so one request with overlapping POSTs meets every interleaving of its handlers, and
the second POST is also the one that follows a crash or a lost connection. Two events
are the least that tell a reset, an order and a repetition apart. In the agent
loop two steps are needed to repeat a call, to ask with the results of the first, or to
replan and go on. In the
MCP client the second call is the one that waits behind a retry; one trouble breaks
a session, stops the server or changes its tools, and a failed call (`lost`, `refused`)
needs none. A batch with one call twice is a loop, so only three different safe queries let two safe handlers
overlap and a third go over the parallel limit. Two deletions meet on one dataset, and the second dataset is uploaded beside
them; a query is independent of other queries but for the lock, which one query
holds against a removal. In the sandbox
a second run is the one that waits for the thread of the first. Three requests are a
registration, one that overlaps with it and one that uses what they made, and two are a
bucket filled and exceeded; the clock passes from one bucket to the next and past a
session. Three ticks of a second are the fewest with which a TTL is rounded up and down, and
two seconds the shortest window in which rounding down ends a wait too early. Two calls of
the gateway overlap and a third comes later; a question needs two tries and an explanation. One crash may come at every step, and the run goes on after
it. Every bound is a constant named in the module that uses it.

`accounts` and `gateway` use a `VIEW` that leaves out of a request or call that has
ended what nothing reads any more (of what the invariants read of it, the view keeps
the part they tell apart, or their value; counters of past buckets and the expiry of
sessions that are over go as well), and the symmetry of requests and calls,
which are only compared; they check invariants only, for which both are sound.

Fairness. Each worker, handler and running abort is weakly fair: asyncio runs every
task that is ready, and a model call has a timeout. Nothing makes a browser retry,
a user abort or a process stop. In the agent loop the run itself is weakly fair;
that a DuckDB query ends is an assumption, for it has no timeout. The owner task of
the MCP client is weakly fair because its requests to the server carry a timeout, the closing
of a connection (`_disconnect`), which has none of its own, being assumed to return; time
passes and an outage ends; nobody has to ask, leave or close. Of the datasets a removal, a restore and a query that has started or
waits are weakly fair; uploads and deletions are not. A thread of the sandbox is weakly
fair because every call to Docker has a timeout; its caller, for which no thread waits,
and its container are not. `accounts` and `gateway` check no liveness and state no
fairness. Deadlock checking
is off in all runs, since a finished turn, a finished run, a closed client and an idle
process really stop; of the accounts, `NoCircle` says that registrations waiting for each
other's rows do not.

### Where code and documentation disagree

- `chat_v_duplicate`: two overlapping POSTs of one request both store the user's
  message; only the assistant's row is unique.
- `chat_v_abort`: an abort that finds the worker before or in its first publish
  answers true and leaves the row `streaming`; only a later retry or abort closes it.
- `chat_v_retry`: a retry that fetched the row while it was streaming overwrites
  the answer with an error when the worker finishes in between.

Without a run of its own: `queue.get()` restarts its timer with every request, and a
readiness request neither connects nor runs maintenance (`client.py:213`, `:290`), so
requests more frequent than the 15 s interval keep a disconnected client disconnected,
where `docs/mcp-architecture.md:149` says that the owner goes on trying at every interval.
`RecoversWhenQuiet` says what does hold: the client recovers once nobody probes.

Also without a run: after a crash the repair closes the row and publishes
nothing, while `event_stream` ends only at a terminal event, so a response that found
entries in the log of a dead worker waits until its browser goes away. `ResponseEnds`
names this condition.

## Proofs

Every safety property of a passing run is proved for all constants; the runs show it on
an instance and supply the counterexamples of the mutants.

`ChatTurnProofs`, for all constants that satisfy `ChatAssumption`:

- `TypeCorrect`. `TypeOK` alone is not inductive: the handler that repairs a row
  copies the one it fetched, and a response counts on from its cursor. `HeldOK` says
  that a handler past its lookup holds a row and a response past its first read
  holds a stream position.
- `SingleCall`: the runtime is entered at most once per request. The inductive
  invariant `OwnerOK` says that a call implies the row was inserted, that a task is
  started only by the handler that inserted it, and that there is at most one such
  handler; deletion is why the row itself cannot carry the argument.
- `TerminalIsLast`. A log that is in order says nothing about the next event: `LogOK`
  adds that a worker which may still publish content has published nothing final, one
  that has not begun has published nothing, and one past its first event has asked
  the model. `NextSays` reduces every step to silence or one event.
- `DoneLasts`: `SavedOK` says that a save comes at the end of a worker and stays its
  word until another handler leaves its mark in `clobbered`, that a save which
  outlived its worker carries a settled row, and that "done" is said by a worker that is
  over. `NextRows` reduces every step to an insertion, a closing, a deletion or none.
- `TurnImplements`: with the two reductions and the invariants above, a step that
  speaks is `Open`, `Close` or a stutter of `TurnContract`, one that writes a row is
  `Accept`, `Settle`, `Forget` or a stutter.
- `ReplayIsRow`. `LogReplaysRow` compares a row with a whole log folded into a draft, so
  `ReplayOK` says what the draft of the log so far is at every await: while the worker
  is in its loop it is the worker's text and steps, while an event is being published
  that event leads there, and from "done" on it is the row. `Accumulate` and
  `ApplyFrame` are two implementations of one function (`AccumulateIsApply`), and a log
  with one more entry is shown as one more frame (`ShownAppend`).
- `ResumeIsExact`. Exactness rests on a browser never having two connections for one
  request: `InTurn` says that a POST follows only those that were lost or failed,
  `AtCursor` that a connected handler reads where the browser is, `Applied` that the
  cursor counts the frames until there is a snapshot. `LogGrows` lets the worker publish
  meanwhile; a crash fails the handlers and keeps logs and cursors.
- `RetryIsRepair`, without aborts and with a broker and a store that work; crashes,
  shutdowns, deletions and lost connections are as many as one likes. `RepairOK` says
  that workers are cancelled only while no handler runs, that a worker that has saved
  has closed its row, and that a row a handler fetched as settled has not opened again.
  The hypotheses are what the code demands: a cancellation before the worker's first
  step, a failed publish of `start` and a failed save each leave an open row behind a
  connected POST.
- `VerdictIsOne`, with at most one abort of each turn, a broker and a store that work and
  no crash; deletions and lost connections may happen. `VerdictOK` follows the status
  from the loop to the row: what each await says of `mem`, that a worker being aborted
  cannot be aborted again, that a log which is closed before the save agrees with the
  status, and that a save which outlived its worker carries the worker's status. With a
  second abort, which interrupts the publish of "aborted", the log ends with "error".

`AgentLoopProofs`, for all constants that satisfy `AgentAssumption`:

- `AgentTypeCorrect`, with `ExecOK`: a batch has an entry per call.
- `CallsOnce`: `RunsRemembered` (what ran is in `seen`) and `BatchFresh` (the calls
  of a batch are distinct, remembered, and not yet run while they wait).
- `ParallelSafe`: `BatchOrdered` says that a parallel batch is safe and small, and
  that in a sequential one all earlier calls are over.
- `AsksWellFormed`: while a batch is decided or run, the conversation is a well formed
  one and the assistant message whose calls are pending (`TailOK`); appending the
  results or dropping the message for a replan makes it well formed again.
- `AgentImplements`: with `BudgetOK` and the freshness of a batch every step is a step of
  `AgentContract` or a stutter, and initial states are initial.
- `AnswerIsShown`: `ShownInv` says what the consumer shows at each step: nothing when the
  model is asked, the deltas so far while a response streams, the response afterwards,
  and nothing again once it turned out to ask for tools (`text_reset`).

`MCPClientProofs`, for all constants that satisfy `MCPAssumption`:

- `MCPTypeCorrect`, with `ServingOK`: a request is being served exactly where the
  owner works for one.
- `CallersRemembered`: `NoneForgotten`, action by action.
- `MCPImplements`: every step maps to a step of `MCPContract` or a stutter. `QueueOK`
  (a call in the queue is there once, not being served and not sent yet) and `SendsOK`
  (what the call being served was sent for brought no result of the tool, and each time
  used up a retry) are the strengthening.

`DatasetLifecycleProofs`, for all constants that satisfy `DatasetAssumption`:
`DatasetTypeCorrect`, `ReadyIsReadable`, `QueriesUndisturbed`, `NothingStray` and
`RestartRepairs` follow from one inductive invariant, `LifeInv`. Its parts say what
each handler that is under way implies about row, files and view: a running query
holds the lock and its table is there (`QueryOK`), a deletion is of a dataset whose
upload has come to its commit (`DeletionOK`), before that there is no row
(`UploadOK`), a removal works on a dataset without a row or with a failed upload, the
view before the files (`RemovalOK`), and what `restore_engine` has visited is
readable or will be marked (`RestoreOK`). Readability alone is not inductive: a
removal that drops the view must be known to have no ready row to betray.

`SandboxRunProofs`, for all constants that satisfy `SandboxAssumption`:
`SandboxTypeCorrect`, `LeavesNothing`, `TellsTheTruth` and `StraysNot` follow from
`RunInv`, whose parts say what a thread has made at each of its steps (`HostOK`),
when it may answer ok (`AnswerOK`) and what a caller has stored (`CallerOK`). They
are needed because `NothingLeft` speaks of finished threads only. `PoolBoundsRunning`
adds that at most `Threads` threads are busy, and that a container which runs and was
not left behind has one of them.

`AccountsProofs`, for all constants that satisfy `GateAssumption` and
`AccountsAssumption`. `AccountsInv` is `TypeOK` with four parts: a counter met in its
bucket is kept until the bucket is over, and its numbers differ (`GateOK`); who has
flushed a user, who holds the row of the default workspace and who is given it
(`RegisterOK`); what a registration looked at was different from its own name, and
names flushed or stored differ (`NamesOK`); and a token is that of a request that is
over, so that a session which ended does not come back (`SessionsOK`).
`AccountsTypeCorrect`, `FirstOwns`, `NamesStayApart`, `DeadStaysDead` and
`NobodyWaitsInACircle` follow. `LimitHolds` adds that the numbers of the admitted
requests of one bucket, those that failed open with a place left included, are an
injection into `1..limit`, `RetryAfterIsHonest` arithmetic
about buckets.

`NL2SQLProofs`, for all constants of `NL2SQL` that satisfy its assumptions, of which a
finite set of calls is one. `DeltasOnce` and `LedgerIsExact` follow from `GatewayInv`,
whose parts say what is true of a call at each of its steps (`CallOK`: one that has had
data is not tried again) and that records and calls that are over correspond
(`LedgerOK`). `PagesSkipOnlyTies` follows from `PageInv`: while the client reads, a record
it has not been given, with a time of its own, has at least `offset` later ones; records
that come in only add to these. `GatewayTypeCorrect` and `ResultIsRight` follow from
`QuestionInv`, which ties `tries`, `errors` and the number of calls made to where the
question is, and from `BooksOK`: what was spent is the sum of the tokens of the calls
that were answered, and a call that is over is not touched again.

`Recursion` serves three of these. Induction over data is out of the prover's reach as a
rule with a predicate for a parameter, but not as an argument by a least
counterexample: `LeastElement` takes one from the well-foundedness of the natural
numbers, `RunExists` and `RunsAgree` give existence and uniqueness of a function defined
by recursion along them, and from these follow that a fold over a sequence takes one
step per entry and that `SumFunctionOnSet` splits, is additive over images and depends
on nothing outside its set.

Only model-checked: what needs fairness (`TurnSettles`, `ResponseEnds`, `RunEnds`,
`EveryoneAnswered`, `RecoversWhenQuiet`, `RemovalEnds`, `ThreadEnds`), since liveness is
outside the prover's reach, and the three statements the code does not keep.

## Plan

Done: `ChatTurn`, `AgentLoop` and `MCPClient` with their contracts, `DatasetLifecycle`,
`SandboxRun` with the artifact store, `Accounts` with the rate limiter, `ModelGateway`
with the usage pages and NL2SQL, all with proofs.

Left, in order of what they would add:

1. Composition of agent and MCP client: `ToolOnce` counts entries of a handler, and
   the handler of an MCP tool may send its call up to 1 + `CallRetries` times
   (`MCPContract`); the composed statement bounds executions at the server.
2. Pure algorithms against reference definitions: context compaction, unique headers, percentile.

Not modelled and why: the SQL guard (a walk over a third-party parse tree), chart
validation, SSE formatting, migrations, the MCP server and the SQL executors (one query
per call, no state between calls), the evaluation and load-test drivers, rendering in
the browser and deployment: they keep no protocol state.
