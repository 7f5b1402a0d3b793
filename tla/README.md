# A verification development of patent-search-service

The service is a FastAPI process in front of an OpenSearch cluster. Most of its
lines convert data; what can go wrong in ways a test hardly reaches is in a few
components that share state between requests, threads and restarts. This
directory models those components in TLA+, checks them with TLC on small
instances, and proves their central properties with TLAPS for all values of the
constants.

Paths are relative to the repository. `PROJECT.json` lists, for every operator
that models code, the lines it models; every run with the properties it checks;
and every hazard of the code with the line where it bites.

## 1. Inventory

| Component | State | Operations | Modelled in |
|---|---|---|---|
| Runtime configuration control plane: `app/core/admin_config/{runtime,store,validation,registry,models}.py`, `app/api/admin_runtime_config.py`, `app/api/admin_config.py` | the provider's live and previous snapshot, the controller's `asyncio.Lock` and cooldown; in SQLite: drafts, version rows, operation rows and their append-only events | create a draft, apply, rollback, replay of an idempotency key, recovery, restart | `RuntimeConfig`, `ConfigLedger` |
| Request admission: `app/core/bulkhead.py`, `app/api/dependencies.py` | two `BoundedSemaphore`s, a gauge and a count of rejections each | `slot()` with a bounded wait, nested for heavy requests | `Bulkhead` |
| OpenSearch repository: `app/repositories/opensearch_repo.py`, `app/core/deadline.py` | client slots, the client, the deadline in a `ContextVar` | search, count, find_target, ..., all through `_perform` | `SearchCalls` |
| Deadline connections: `app/repositories/deadline_connection.py` | the resolver slots; per connection its socket, per phase a timer thread and an event | request, response, `_new_conn`, `_resolve_addresses`, `_abort_socket` | `DeadlineConnection` |
| Readiness probe: `app/core/probes.py` | cached result, shared refresh, one-thread executor and its slot, `_closed` | `is_ready`, `_refresh`, `close` | `ReadinessProbe` |
| Dashboard metrics reader: `app/core/admin_metrics.py` | cache and shared task per window, `_closed` | `read`, `close` | `AdminMetrics` |
| Log readers: `app/core/admin_logs.py`, `app/core/logging.py`, `app/api/admin_logs.py` | a bounded buffer with a lock and its sequence; a busy flag, the active scan and an executor of one thread | `emit`; `read` of both readers with cursors, `close`, restart | `LogPages`, `AdminLogs` |
| Query vector adapter: `app/integrations/query_vector.py` | a closed flag, an event loop in a thread of its own, a pool of connections | `generate`, `_post`, the judgement of an answer, `close` | `QueryVector` (composed in `Lifespan`) |
| Lifespan and service lifecycle: `app/main.py`, `app/core/probes.py`, `app/api/probes.py` | `app.state`, the lifecycle's state | every step of start-up and shutdown, `mark_*`, `/ready` in service | `Lifespan` |
| Request context, body limit, errors: `app/core/request_context.py`, `request_body_limit.py`, `error_handlers.py`, `exceptions.py` | per request: identifier, code, bytes so far; the gauge of requests in flight | counting a chunked body, validation codes, completion record, every end of a request | `RequestPath` |
| Query language: `app/query/*`, `app/ipc.py`, `app/mappings/*_mapping.py` | none | tokenize, parse, charge the budget, build the query of every kind of field | `SyntaxTrees`, `QueryLanguage`, `QueryDsl`, `SearchTexts` |
| Search service: `app/services/search_service.py`, `app/schemas/*`, `app/mappings/result_mapper.py` | none | the three modes of search with their pages, the rank of a target | `RequestPath`, `SearchApi` |
| MCP server: `mcp_server/*`, `app/integrations/patenthub_adapter.py` | a limiter of concurrent calls | a tool call with its worker thread, its cancellation and the checks of the answer | `McpTools` |
| Security, the other routers and mappers, service metrics | none or counters | comparisons, conversions | in part, see section 8 |
| Static pages, scripts, benchmarks, deployment | | | no, see section 8 |

### How the components interact

A business request passes the request-context and body-limit middleware; the
deadline middleware pins the live snapshot of the runtime configuration and an
absolute deadline to it. Its dependency waits in one bulkhead or two. Its
handler then runs in a worker thread and makes repository operations, each of
them a loop of attempts in a slot of the one OpenSearch client, over
connections that enforce the same deadline. An administrator request creates
drafts, or applies and rolls back configuration: it takes the controller's
lock, writes to SQLite, swaps the provider's pointer, asks the readiness probe
whether OpenSearch still answers, and commits or restores. Running requests
keep the snapshot they were given. `/ready` asks the same probe. The dashboard
reads Prometheus and the logs through readers of their own. A semantic request
asks the embedding provider for its vector first, on the adapter's event loop. The
tools of the MCP server are clients of the search API from another process. The
lifespan builds all of this, and takes it down when the last request is answered.

### What is hard, and what makes each component correct

* **Control plane.** Every `await` of an operation may be followed by a
  cancellation, every store call and the verification may fail, the process may
  stop anywhere, and a client repeats its call with the same key. Correct means:
  a version stays live only if its success is durable; no update is lost between
  a draft's creation and its application; an operation has one outcome; values
  that were validated one draft at a time stay consistent across sequences.
* **Admission.** `asyncio.wait_for` runs `Semaphore.acquire` in a second task;
  a permit can be granted to a waiter that has just timed out or been cancelled.
  Correct means: no permit is lost or doubled, heavy requests leave room for
  light ones, and whoever waits is answered.
* **Repository.** A slot is taken without waiting, so a lost slot turns into a
  refusal of an admitted request; attempts, back-offs and several operations
  share one deadline. Correct means: an admitted request finds a slot, no request
  outlives its deadline, and none is told that OpenSearch is unavailable before its
  attempts are used up.
* **Connections.** A timer thread shuts a socket that its phase may have just
  given back; `getaddrinfo` cannot be cancelled. Correct means: no timer reaches
  a socket of the pool, also when an answer is refused because it came too late,
  resolver slots are conserved, every exchange ends.
* **Probe.** The check is a blocking call that a timeout cannot stop; `close`
  comes at any time. Correct means: one refresh at a time, a bounded backlog,
  nothing ready after `close`.
* **Metrics reader.** Viewers resume in any order after a shared batch, and may
  all have gone. Correct means: one batch at a time, nothing kept after `close`,
  data no older than the cache's lifetime and never going back.
* **Log readers.** Records arrive, out of order and between two pages, and are
  evicted; a scan of the journal goes on when its caller has left, and releases the
  reader through a callback that may come late. Correct means: a walk through the
  pages misses nothing that stayed and shows nothing twice; one scan runs at a
  time; the reader gets free again.
* **Vectors and the end of the service.** A thread waits without a limit for what a
  loop in another thread does; `close` stops that loop; a timed-out request may still
  occupy its connection. Start-up and shutdown have a dozen steps, each of which may
  raise. Correct means: no request and no asker meets the shutdown, an admitted
  request finds a connection, a failed start leaves no thread, and everything ends.
* **The path of a request.** A request ends in some fifteen ways and is answered,
  recorded and counted in different places. Its text passes a tokenizer, a
  parser and a compiler that share one budget; a rank is put together from four
  operations on an index that changes meanwhile. Correct means: texts are read as
  the grammar says and matched as the tree says; scores do not depend on
  how alternatives are grouped; pages stay in the window; ranks are exact while the
  index stands still; the record of a request is what was answered.

## 2. Modules

Steps are what a coroutine or a thread does without being interrupted: between
two awaits under asyncio; between two accesses to shared state for threads. A
section under an `asyncio.Lock` that contains no await is one step.

**`RuntimeConfig`** follows one coroutine per caller through `pc`: `idle`,
`lookup`, `reserve` (waiting for the lock, or at the head of its queue),
`loadDraft`, `recordCurrent`, `recordReplacement`, `verify`, `commit`,
`restore`, `reverify`, `auditFailure`, `replied`. A success that is `replied` may still become an
error or a cancellation (`ListingFails`): the handler reads the list of operations
once more to answer it. `queue` is the controller's lock, in the FIFO order of
`asyncio.Lock`; `frame` holds the locals of the one operation that runs under
it. A store call is one step with its two or three outcomes (done, failed, done
but the caller was cancelled meanwhile: `_await_critical` shields the call and
raises the cancellation later). `Restart` loses the process's state and keeps
the tables. Three parameters stand for the registry: two hot ones tied by the
budget relation (a dependency's timeout must fit in the deadline) and one that
needs a restart. Versions are numbers in the order they are minted; the code
hashes a nonce, and only equality matters.

**`ConfigLedger`** is what the control plane promises: operations are opened and
closed, and a commit replaces the live version in one step. `RuntimeConfig`
implements it under the mapping `Ledger` at the end of `RuntimeConfig.tla`. The
mapping reads the pointer through the commit point: while an operation is
provisional (swapped and not yet committed) the abstract live version is the
one that its recovery would restore.

**`Bulkhead`** models `Semaphore` (value, FIFO of waiters, futures) as CPython
implements it, the task that `wait_for` creates, and the request's own task.
`why` records whether the timer or a cancellation ended the wait.

**`Slots`** is what a limiter promises: users take a slot, one each, while there is one, and
give it back. Four modules end with instances of it and the property that they implement
them: `Bulkhead` (the requests inside each bulkhead), `SearchCalls` (the threads past
admission; those with a slot of the client), `Lifespan` (the requests for vectors; those with a connection)
and `McpTools` (the tools with a permit). It is the interface at which they meet:
`SearchCalls` and `QueryVector` admit requests by a count, `Bulkhead` shows that the
semaphores, queues and timers of the code amount to that count.

**`SearchCalls`** is `_perform` for many threads, with discrete relative time:
`left[t]` is what is left of a request's deadline, `wait[t]` of its attempt or
back-off. Ready threads run before the next tick; a wait ends at the latest
`Slack` ticks late. That an attempt does end by then is the assumption it takes
over from the connections, where `EveryExchangeEnds` is checked. The runtime snapshot (`Configs`) is chosen at
ingress and kept. The branch of `Attempt` that finds no slot (`NoConnection`) is in the code and in
the model, and `AdmittedFindAConnection` says that it is never taken.
`UnavailableOnlyWhenTried` is what the caller is owed: the count of attempts starts anew
with each operation of a request, and nothing that other requests do shortens it.

**`DeadlineConnection`** models an exchange as a request and a response phase,
each with its timer thread. The timer's callback is two steps, `Fire` (set the
event, look at the sockets) and `Abort` (shut them), because the connecting
thread may change sockets in between. `orphans` are resolver threads whose caller
left. The deadline is a flag that is set at any moment (`Expire`).

**`ReadinessProbe`** numbers refreshes; a work item in the executor goes by the
number of the refresh that submitted it. The executor's completion of
its future and the refresh's timeout race freely.

**`AdminMetrics`** models one window. The age of a batch's data is counted in
ticks from its end, so staleness is a bounded quantity. A batch may also fail as a
whole (`FailBatch`); each of its viewers then unregisters it and passes the error on.

**`AdminLogs`** has both readers, one of which the lifespan chooses (`scope`): the ring
of `StructuredLogBuffer`, with threads that enter a record some time after they
formed it (`Skew`), and the journal reader with its scans as numbered work
items of the executor. `LogPages` holds what a page and a cursor are, for both.
`walk` is the administrator's way through the pages and belongs to no component: it
is what the properties speak of. The journal is external: entries come
in the order of its positions, and old ones are vacuumed.

**`QueryVector`** is the adapter and the threads that call it: `call` is a thread's
place in `generate`, `post` the state of its request on the loop. What the provider
answers is a record of what the code looks at (status, model, form, numbers), and
`Verdict` judges it in the code's order; instead of an answer the HTTP client may report a
timeout of its own. **`Lifespan`** EXTENDS it and
`ReadinessProbe`, and adds
`phase`, the step of start-up or shutdown, and `open`, the resources that were
built and not closed. It implements the probe's own specification (`ProbeSpec`), which is
proved, so what is proved of the probe holds in the service. Requests begin only in service; uvicorn ends the lifespan
when all are answered (`Drained`), because the unit file sets no limit for that.

**`QueryBudget`** holds the limits and the pages they leave within reach, for the two
modules that need them. **`SyntaxTrees`** has the syntax trees that parser and compiler
share, by their height: `TreesTo[h]` are the trees of at most that height over the
strings `Pieces`. **`QueryLanguage`** takes a text as a sequence of pieces (a character of structure, a
blank, a run of word characters), and translates tokenizer, parser and budget
as they are, with the parser's state as a record. Below it stands the reference, an ambiguous
grammar by its derivations, with the size, depth and clauses of one.
**`QueryDsl`** is the compiler to OpenSearch clauses for each class of fields, and
what such a clause matches and how it scores. `Han` are the words that the router takes for
Chinese, `Ideographs` those among them that the narrower pattern of the builder finds
when it widens a phrase; `Holds` is the reference, the meaning
of the tree itself. All of these are recursive functions on the trees, or on the
clauses, so that they can be proved about.

**`RequestPath`** follows a request from its arrival through body, authentication, bulkhead,
schemas, compilation, vectors, the operations on the index and the completion record,
with `Change` of the index (external) between any two steps. Texts are a constant to it, and
what the compiler makes of one is the constant `Built[text]`: a failure or a query, of
which the path of a request looks at nothing but which it is. **`McpTools`** puts tool
calls in front of it: `McpTools` EXTENDS `RequestPath`, a tool call makes one
request, and the errors it reports are compared with what the service recorded.
**`SearchApi`** joins the two halves: it EXTENDS `McpTools` and `QueryDsl`. `Parsed[text]` is
a failure or the syntax tree of a text, `QueriesAreBuilt` assumes that `Built` is what
`QueryDsl` builds of it, and its properties compare the queries of the requests that
reached the search service with their trees. **`SearchTexts`** puts the parser in front:
it EXTENDS `SearchApi` and `QueryLanguage`, assumes that `Parsed` is what the parser makes of
each text (`TextsAreParsed`), and compares that with the grammar. TLC evaluates both
assumptions for all texts of the run. The last step is a module of its own
because the parser and its grammar are mutually recursive operators, which no module with
a theorem may use.

Each component `X` has an `XMC` module that TLC runs and, where something is
proved, an `XProofs` module. Definitions preceded by a comment "Mutant:" are
plausible faults of the operator below them; nothing refers to them. They stand
beside the original so that a reader can see how little separates the two, and
each breaks one property of one run when it takes the original's place.

## 3. Runs

| Run | Instance | Checks | Distinct states |
|---|---|---|---|
| `control_plane_safety` | 2 callers, 2 keys, 1 draft, 2 patches, symmetry | `OnlyCommittedVersionsStayLive`, `RecordedBeforeLive`, `OneOutcomePerOperation`, `SuccessMeansLive`, refinement of `ConfigLedger` | 220 000 |
| `draft_baselines` | 1 caller, 2 keys, 2 drafts, 3 patches | `AppliedDraftSawWhatItReplaced`, `LiveValuesSound` | 365 000 |
| `every_call_is_answered` | 2 callers, 1 key, fairness | `CallsAreAnswered` | 9 700 |
| `bulkhead` | 2 light and 3 heavy requests, 3 global and 2 heavy permits, fairness | `PermitsAreConserved`, `HeavyLeavesRoomForLight`, `EveryRequestIsAnswered` | 69 000 |
| `search_calls` | 3 threads, 2 permits, 2 slots, 2 configurations, symmetry | `AdmittedFindAConnection`, `NoneOutlivesItsDeadline`, `UnavailableOnlyWhenTried` | 18 000 |
| `deadline_connection` | 2 exchanges, 1 resolver slot, fairness | `ResolverSlotsAreConserved`, `PooledSocketIsSafe`, `EveryExchangeEnds` | 13 000 |
| `readiness` | 2 callers, 4 refreshes, fairness | `OneRefreshAtATime`, `BacklogIsBounded`, `NotReadyOnceClosed`, `EveryCallIsAnswered` | 100 000 |
| `metrics` | 3 viewers, 4 batches, lifetime of 2 ticks, fairness | `NothingKeptAfterClose`, `FreshUnlessAbandoned`, `DataNeverGoesBack`, `EveryReadReturns` | 9 700 |
| `metrics_stale` | 1 viewer, 2 batches | `DataIsFresh`, a documented rule that the code breaks (section 7) | violated |
| `admin_logs` | both readers, 1 administrator, 2 threads, a ring of 2, 3 records, 2 entries, 2 scans, 2 processes, fairness | `WalksAreSound`, `BusyIsRight`, `GetsFree` | 565 000 |
| `lifespan` | 3 heavy requests for 1 connection, 1 asker, 2 refreshes, fairness | `NobodyIsCaughtInTheShutdown`, `AdmittedFindsAConnection`, `ResourcesFollowTheLifecycle`, `EverythingEnds` | 72 000 |
| `request_path` | some 4 500 texts, bodies, pages and ranks one by one, and pairs of tool calls | `TextsReadAsTheGrammar`, `QueriesMeanTheirTrees`, `GroupingKeepsScores`, `PagesStayInTheWindow`, `BodyLimitIsExact`, `RankIsExactWhileStill`, `ToolThreadsAreBounded`, `AnswersCanBeTraced` | 214 000 |

### Bounds, and why they are enough

* *Callers and keys.* The controller's lock admits one operation; a second caller
  is enough for every interleaving with the lookup outside the lock, the queue,
  and a replay during an operation. Two keys give two operations, so that a
  second one supersedes the first and a key is repeated after it; the number of
  keys also bounds the operations and with them the versions.
* *Drafts and patches.* `draft_baselines` has patches that are valid alone and
  not together, and one that touches a parameter that needs a restart.
* *Requests at the bulkheads.* Three heavy requests are one more than the heavy
  permits, five are two more than the global ones; `Route` through the wider
  bulkhead first, as one of the mutants has it, is found at once.
* *Refreshes and batches* (`MaxRefreshes`, `MaxBatches`) only bound how often the
  same thing happens again. Four refreshes are needed for a check that hangs, a
  queued one behind it, one refused for the slot, and one after the recovery.
  Four batches let one overtake another twice.
* *Ticks.* Lifetimes of two ticks distinguish fresh, last moment and expired;
  deadlines of two and three ticks leave room for a full attempt, a back-off
  and a shortened second attempt, and for none.
* *Resolver slots.* One slot, which an orphan may hold for ever, is the worst
  case for those who wait; two threads suffice for one waiting and one holding.

* *Records, entries and scans.* A ring of two under three records evicts while a walk
  is under way; two threads can enter out of order; pages hold one record, so
  that every walk has boundaries. A second process gives cursors a buffer that they
  do not belong to. Two scans are needed for a late release to meet a newer read.
  One client at a time walks; what two clients share is the busy flag, and the scan
  a client left behind plays the other's part.
* *Vectors.* Three heavy requests for one connection: one holds it, one is refused
  by the bulkhead, and one comes while the first is being cleaned up.
* *Texts.* All sequences of up to three pieces from thirteen kinds, of four
  pieces of structure, every class of field with every form of value, and texts around
  the limits of a small budget (`MCBudget`). For each of the five limits on a text there are texts
  just below it, at it, and texts that are over it and within the four others, so that it alone
  decides: `Blanks` for the length, `Groups` under NOT for the nesting, `PairsOfGroups` for the
  tokens, `Chains` with fields for the nodes and with NOT for the Boolean clauses. The
  limits are chosen for that; a budget whose tokens are too few would leave its nodes
  nothing to refuse, since each node takes a token. With any one of the five checks
  dropped, or one more or one less let through, TLC finds `TextsReadAsTheGrammar` violated. `MCHard`
  has the code's limits one above the deployment's. Where a text alone decides, it makes one request without
  any other; the interleavings are those of two tool calls at the limiter.
* *Trees* (`MaxHeight`). Five is the height of the highest tree of a text of the run, as TLC
  confirms through `QueriesAreBuilt`, which a lower bound makes false; each
  regrouping makes a tree at most one higher.
  `MCCorpus` has four documents that differ in language, field, code and date, so
  that each class of clause matches some of them and not others.
* *Ranks.* Three documents with keys 0 (no date), 1 and 2, ties and a target in or out of
  the hits, and two changes of the index, one to spoil an operation and one to
  restore what it saw.

Where the constants do not matter to an argument it is proved (section 5).

### Deadlock

Deadlock is not checked in `bulkhead` and `request_path`, whose requests are each made
once, so that the system stops when all have been answered (`EveryRequestIsAnswered`
says that it does not stop earlier), nor in `lifespan`, where the process ends. In the
other models an idle actor can always begin again or the environment can take a
step; where a bound is exhausted (refreshes, batches, keys, records) calls that are
refused or answered from what is known remain.

## 4. Fairness and liveness

Only the process itself is assumed to run: the event loop takes what is ready,
threads are scheduled, timers that the argument needs fire. Nothing is assumed
of OpenSearch, Prometheus or name servers.

* `RuntimeConfig`: weak fairness of each caller's `Step`. SQLite calls end by the
  busy timeout, the verification by the probe's own timeout.
* `Bulkhead`: weak fairness of the event loop and of requests inside, which the
  request deadline ends. *Not* of `Expire`: a waiter is admitted even if no timer
  ever fires, because a released permit finds the next waiter.
* `ReadinessProbe`: weak fairness of the refresh and of callers, none of
  `CheckReturns`: the check may hang for ever.
* `AdminMetrics`: weak fairness of viewers and of the end of a batch, which the
  queries' timeout bounds.
* `DeadlineConnection`: time passes, timers and threads run; a call on a socket
  that was shut fails. A socket that was made between the last look at the clock
  and the timer's look at the connection is missed by the timer; it fails by the
  timeout that `_new_conn` set on it, and without that one fairness condition TLC
  finds an exchange that never ends.

* `AdminLogs`: weak fairness of the executor's thread, of the end of a scan, which its
  own limits of entries and of time bring about, and of the callback that releases. None
  of the administrators, who may go away at any time.
* `Lifespan`: weak fairness of the steps of the shutdown (each may raise, and none
  waits for anything but the adapter's loop) and of the threads, loop and deadline of a
  request for a vector. None of `AnswerPost`: the provider may never answer. None of the
  probe: a check that hangs does not keep the service from ending.
* `RequestPath` and `McpTools` state no fairness: their properties are safety.

`SearchCalls` states its bound on time as an invariant instead
(`NoneOutlivesItsDeadline`), since its clock cannot pass a wait that is overdue.

## 5. Proofs

Constants are arbitrary: any number of callers, keys, drafts, threads, viewers;
any capacities with the relation that `validate_bulkhead_capacity` enforces; any
parameters of the snapshots. The assumptions are the named `ASSUME`s of the
modules.

| Theorem | Says |
|---|---|
| `RuntimeConfigProofs!TypeCorrectness` | types |
| `RuntimeConfigProofs!OneOutcome` | an operation's audit is `started` and at most one outcome |
| `RuntimeConfigProofs!OnlyCommittedStaysLive` | only a committed version survives its operation |
| `RuntimeConfigProofs!ValuesStaySound` | live values stay consistent over all histories |
| `RuntimeConfigProofs!AppliedDraftsSawTheirBase` | no lost update |
| `RuntimeConfigProofs!RowsComeFirst` | what is live or would be restored has its durable row |
| `RuntimeConfigProofs!SuccessIsLive` | a success is answered only while its version is live |
| `RuntimeConfigProofs!ControlPlaneIsALedger` | `RuntimeConfig` implements `ConfigLedger` |
| `BulkheadProofs!BulkheadTypes`, `PermitsStayConserved`, `HeavyLeavesRoom` | types, permits, the share of light requests |
| `DeadlineConnectionProofs!ConnectionTypes`, `SlotsStayConserved`, `PoolStaysSafe` | types, resolver slots, pooled sockets |
| `AdminLogsProofs!LogTypes`, `BusyStaysRight`, `PagesStayBehind`, `NothingIsMissing`, `WalksStaySound` | types, the busy flag, pages that only go back and leave nothing out |
| `LifespanProofs!LifespanTypes`, `ShutdownCatchesNobody`, `PoolIsLargeEnough`, `ResourcesKeepToTheLifecycle` | types, the shutdown, connections for vectors, resources |
| `LifespanProofs!ProbeTypes`, `OneRefresh`, `BoundedBacklog`, `StaysUnready` | of the probe alone: types, single flight, backlog, shutdown |
| `LifespanProofs!LifespanRunsTheProbe` | the composed service implements `ProbeSpec` |
| `AdminMetricsProofs!ReaderTypes`, `SingleFlight`, `ClosedIsEmpty`, `OnlyAbandonedDataIsStale`, `NobodyGoesBack` | types, single flight, shutdown, freshness, order |
| `McpToolsProofs!TypesHold`, `PagesHold`, `BodyLimitHolds`, `RankHolds`, `ToolThreadsHold`, `TracesHold` | types, pages, the body limit, ranks, permits of tools, records and answers |
| `McpToolsProofs!AnswersStayFinal` | a request is answered once and recorded once |
| `BulkheadProofs!BulkheadsLimit`, `SearchCallsProofs!CallsAreLimited`, `LifespanProofs!VectorsAreLimited`, `McpToolsProofs!ToolsAreLimited` | each implements `Slots` |
| `McpToolsProofs!QueriesHold`, `GroupingHolds` | the queries of the requests match what their trees say; grouping leaves scores alone |
| `McpToolsProofs!TreesCompileToTheirMeaning`, `GroupingsScoreAlike` | the same of every tree, of any shape and up to any height, asked for or not |
| `McpToolsProofs!QueriesMatchTheirTexts` | the query that is sent for a text is in the query language of the index, and matches what the text's tree says |
| `SearchCallsProofs!CallTypes`, `PoolIsNeverFull`, `DeadlinesHold`, `UnavailableWhenTried`, `TrafficStaysBounded` | types, slots, deadlines, what is tried before a refusal, traffic |

**Control plane.** None of the invariants is inductive alone. `LockInv`: whoever
works on an operation is the head of the queue, so there is at most one.
`FrameInv`: the locals of that operation agree with the provider (what it swapped
in is live, what it saved is what recovery restores). `AuditInv`: the row of the
operation is open exactly while it works, its event list has one entry then and
at most two ever. With these, `OnlyCommittedVersionsStayLive` survives each step:
the swap is provisional, the commit adds the event, recovery returns to a
committed version, and a restart goes to the baseline. `ValuesInv` says that what
is live, saved or about to be live is consistent or the deployed values;
`BaseInv` ties a draft to its base, the expected version and the minted values
from the moment it is loaded to its event in the audit.

**The ledger.** `CommitPoint`: only a commit or a restart moves the live version and
the rollback pointer as they are seen through the commit point, so a swap that is
taken back, for whatever reason, is a stutter of `ConfigLedger`. `PromiseInv`: every
committed version exists, and the version an operation is about to commit is none
of them and holds what an apply or a rollback promises, from the moment it is minted;
the target of a rollback is the pointer before the swap and the saved pointer after it.
With these and `OnlyCommittedVersionsStayLive`, a commit is `Apply` or `Rollback`,
the reservation is `Open`, a "failed" event is `Fail`, a restart is `Restart`, and
nothing else touches what the ledger sees. A success is answered in two places only
(`SuccessCases`): by the commit, when the swapped version is live, and by a replay,
which compares.

**Repository.** `SlotsInv`: `free` plus the number of callers is the pool's size,
and at most `Admission` requests are inside. A request that is about to take a
slot is inside and not calling, so the callers are fewer than `Admission`, which
is at most the pool's size. `TimeInv`: what is left of a wait is never more than
what is left of the deadline; the clock does not pass an overdue wait, and so a
deadline is passed by no more than `Slack`. `TrafficInv`: attempts made are
retries plus one while an attempt runs. `UnavailableOnlyWhenTried` needs both of the
others' kinds: by `SlotsInv` the branch without a slot is never taken, and by `TrafficInv` an
error that is not retried any more is the last attempt's.

**Probe.** `SharedInv`: an unended refresh is the one in `inflight`. For the
backlog, `OneThread` and the slot: a queued item holds the slot, so there is at
most one besides the running check.

**Metrics.** `ReaderInv`: a running batch is registered; an ended one that is
registered and not abandoned still has a viewer about to receive it; the cache's
remaining ticks and the age of its batch add up to at most the lifetime. `OrderInv`:
while the reader is open, every batch that ended is the registered one or not newer than
the cache, and a viewer that is about to resume waits for a batch that is not older than
any that ended; so no answer is older than the one before it.

**Version rows.** `RecordInv` adds to `RecordedBeforeLive` that the operation at work has
recorded what it is about to swap in and what it may put back; rows are never
removed, so nothing else can disturb it.

**Admission.** `QueueInv`: exactly those who wait have a future, each in the
queue of the bulkhead it wants, once, so that whoever a release wakes owns nothing
there yet. `DepthInv`: where a request stands on its route. `CountInv`: the value of a
semaphore and the owners of its permits add up to its capacity, where a request
owns a permit from the moment its future is granted, whether it has noticed or not. The
rest follows, since a heavy request passes the heavy bulkhead before the global one.

**Limiters.** Each refinement of `Slots` maps an enter to `Take`, an exit to `Give` and all
else to a stutter; what takes an argument is the guard of `Take`. At a bulkhead (`RoomForOne`)
whoever is about to be counted owns a permit already, and owners and free permits add up to the
capacity, so those inside, who are owners too, leave room. For the client's slots and the
tools' permits it is the count of what is free (`SlotsInv`, `PermitInv`). The pool of
connections has no counter: who is about to take one is in `generate` and has none
(`ConnectionLeft`). No run checks these four refinements; they stand on the proofs.

**Connections.** `ResolverInv`: a resolver thread that nobody awaits is an orphan, and who
awaits one or is about to start it holds a slot. `SocketInv`: the timer is off
between the phases, because a phase joins it; a shut socket implies the event that
its timer set, which the last look of the phase sees; so what is given back is open and
no timer is left for it.

**Logs.** `FlagInv`: a scan that runs is the active one and the flag is up; a release that
comes late finds another scan's number and does nothing. `PagesInv`: nothing a client
holds (its cursor, the place it asked for, the page it was found) lies above
anything it was shown. That nothing is missing needs two more. `OrderInv`: places are
unique, and a record in a higher place is older by no more than a thread may take to enter
it, so the scan cannot end, at the first record that is too old, before one that is further
inside the window than that. `MissInv`: of what was there when a walk began and still is,
each record that is so far inside was shown or lies below the cursor; a scan that is under
way asks for the walk's own query and place, and the page it found shows such a record,
leaves it to its cursor or admits that it was cut. `FirstOfBehind` and `FirstOfFull` say
what a page leaves out: records behind all it shows, and only when it is full. Records are
only added above every place that a walk began at, so a step can only make this easier.

**Lifespan.** `LifecycleInv` says for each step of start-up and shutdown what is open, what the
loop does and what the lifecycle says. `VectorInv`: no call is under way but in
service, and one that does not wait has no request on the loop. `RefreshInv`: no
refresh was cancelled before `close`. `AskersInv`: nobody asks but in service. With the
drained server between service and shutdown, nobody is there when something is taken away.

Each step of the composed service is a step of `ProbeSpec` or leaves the probe's variables alone
(`LifespanRunsTheProbe`); the types of the composition rest on it.

**Requests and tools.** The five invariants speak of answers, and what makes them true lies
earlier. `Good(r)` says for each stage what is known of one request. `HistoryInv`: what was
sent and recorded so far and under which identifier; so an answer and its record agree in the
end, whichever of the fifteen ways a request took. `SizeInv`: nothing too large came
further than its body. `Placed`: a body that was built lies in the window and, of a semantic
request, in its k hits, because the page was judged before anything else;
`NextPageIsAccepted` is then arithmetic over `div`. `Aimed` and `Counted`: a rank in progress
knows its target's key and how many are ahead, exactly, if `changes` is
what it was when the rank began; a change of the index makes that premise false for every rank
under way, since each began before it (`since <= changes`). `GaugeInv` ties the gauge to the requests
without a record, `PermitInv` the permits to the tools that hold one, cancelled or not, and
`ResultInv` the code and identifier a tool reports to the answer it read.
One operator, `Goes(c, s)`, is the step of one request; a lemma for each action shows that
the action is such a step, and a single lemma (`GoesKeeps`) that such a step keeps the invariant.
`TiesAreBeside` is the lemma about ties: by score, those that score no less are those
ahead, those beside and the target itself. The theorems are of `Spec`, which starts from any forms, any tools and
any index; TLC starts from the scenarios of `McpToolsMC`, which it checks to be such
(`ScenariosAreTyped`).

**Query language.** The argument is by induction on the height of trees, in three layers.

* *The definitions.* The compiler, the meaning of a tree, what a clause matches and
  how it scores are recursive functions, and that such a function satisfies its equation
  has to be shown. One step of each looks at the values of a tree's parts only
  (`ClauseStepIsLocal` and its like), so a function on the trees of a height extends to
  the next (`ClausesDefined`), and the equations follow kind by kind
  (`ClauseEquations`, `HoldsEquations`, `MatchesEquations`, `ScoreEquations`). The induction
  itself is `Climb`: a set of heights that holds 0 and, with a height, the next, holds them
  all; it comes from `LeastNumber`, and what is to be proved of a height is made such a set.
* *Meaning.* `ClausesAreTyped`: the compiler makes of a tree the error, or a clause that is at most one
  level higher and never has an error inside. `TreesMean` is stronger than the property: a tree under any
  field it can be read under, with or without the choice of the better language, compiles
  exactly when its values fit, and then matches exactly what it means. A field hands its
  name down to its parts, so the claim about one field would not carry the induction.
* *Scores.* `GroupingsAlike` says of every field, and of both ways to join alternatives, that
  a tree and its regroupings score each document the same. A sum does not depend on grouping and
  a best-of would; what saves it is `ExpressionsHaveNoLanguage`: the better of two languages
  is taken only of two plain alternatives, and as soon as one of
  them is itself an expression both ways compile to a sum. `LanguageInAField` shows that
  spreading a field over its alternatives leaves their languages as they were.

The tables of codes, families, dates and years, the corpus and the words of each language are
arbitrary, within `CodesAreValues`; the height is any number (`HeightIsBounded`).

Not proved, and only model-checked: the liveness properties (`CallsAreAnswered`,
`EveryRequestIsAnswered`, `EveryExchangeEnds`, `EveryCallIsAnswered`, `EveryReadReturns`, `GetsFree`,
`EverythingEnds`), since fairness is out of the prover's reach; and one safety property,
`TextsReadAsTheGrammar`, which compares a parser of five mutually recursive operators with
the derivations of an ambiguous grammar. What the theorems take from the parser is
its type: a text is refused as `syntax` or `complexity`, or has a syntax tree
(`TextsAreBuilt`, `QueriesAreBuilt`).

## 6. Results

All properties of the passing runs hold. Among those that took most steps to
see are `OnlyCommittedVersionsStayLive` (a cancellation that arrives while the
commit is being written must not undo it, and a failed commit must), and
`PooledSocketIsSafe` (joining the timer after cancelling it is what makes it
true: a cancelled `Timer` may have begun to fire).

## 7. Disagreements between the code and what is said of it

* **Abandoned batches** (`metrics_stale`). When all viewers of a batch go away,
  its finished task stays registered. A read at any later time returns it and
  caches it for another five seconds, where `admin_metrics.py:161` says that an
  expired window is read anew.

Remarks without a run:

* `docs/ops/admin_dashboard.md:119` promises that a terminal state is replayed only while
  its version is live. `_repeat_or_raise` (`runtime.py:823`) makes that comparison for
  successes; a failed operation is replayed at any time (`runtime.py:834`), and so it is in
  `RuntimeConfig`.
* `probes.py:169` says that every failure becomes `False`. `close` (`probes.py:188`) cancels a
  queued check, whose `CancelledError` is no `Exception` and reaches the caller. In
  `ReadinessProbe` alone it does; `NobodyIsCaughtInTheShutdown` shows that in the service
  no asker is left by then, as long as uvicorn waits for every answer.
* `deadline_connection.py:26` and `:137` say that nobody queues for a resolver slot;
  `acquire(timeout=remaining)` does wait, up to the deadline, and the model has it wait.
  `probes.py:232` says the same of a check behind a check; the slot keeps a second check
  from *running* beside the first, and one may be queued, which is what
  `BacklogIsBounded` says.
* `legalStatus:(a OR b)` compiles to a term with an empty value, where
  `docs/api.md:146` asks for a single value and the comment at `query/ast.py:30` says that any
  field takes an expression. `QueriesMeanTheirTrees` leaves such trees out (`CompoundStatus`).
* `docs/api.md:164` says that empty values are refused; `title:(" " OR a)`, with the
  blank phrase inside a group, is accepted, and the model accepts it. `docs/api.md:153`
  and `:158` give a coarse status code precedence that `legal_status_mapping.py` does not use.
* If the executor cannot start its thread, `run_in_executor` raises with the busy flag set
  and no callback added, and the reader stays busy for good (`admin_logs.py:237`), where the
  docstring at `:192` says that it is busy until the native call ends. `BusyMeansScanning`
  names the case (`~worker`).
* A failure while the body is read, such as a client that goes away, is answered 400, to
  nobody; a cancelled request is sent nothing and recorded as an internal error.

## 8. Not modelled

* *Conversions*: the schemas, mappers and routers of patent details, citations, legal history
  and statistics, the rest of the PatentHub adapter, serialisation. They keep no state,
  and a model would repeat them line by line. Of the query compiler: highlighting,
  sorting, and the two strategies that only benchmarks select.
* *Strings*: characters of words, normalisation of IPC codes and dates
  (`QueryDsl` is given what a value is), and so years with leading zeros, which
  `documentYear` writes unpadded.
* *Security*: comparisons of one request's credentials with start-up settings;
  `RequestPath` has the place of the judgement and its two outcomes.
* *Metrics*: counters of `prometheus_client`, behind calls that never raise. The gauges that
  relate to requests are in `Bulkhead` and `RequestPath`.
* *Time limits of reading a body*: the code has none, and neither has the model.
* *TLS*: its handshake runs a nested phase of the same kind as the request.
* *The provider, the journal and the index*: external; modelled as what the code may see of
  them. A patent identifier is taken to be unique in the index; publication numbers are not.
* *The other MCP tools and transports*: the three other tools differ in their path only.
* *Several processes*: the store serialises them and the service is deployed as
  one; the model has one process and its restarts.
* *Clocks*: wall-clock expiry of drafts, and clocks that go back.
* *Static pages, scripts, benchmarks*: browser code around single requests, smoke tests and
  measurements, run by hand. *Deployment*: configuration, but for the command line of the unit.

## 9. Plan

Done: the components of section 1 as section 2 says, and the proofs of section 5.

Next:

1. Composition: the snapshot pinned at ingress (`RuntimeConfig`) as `Configs` of
   `SearchCalls`; the bulkhead that `RequestPath` passes as an instance of `Slots`.
2. An abstract reader, one scan or none, that `AdminLogs` and `AdminMetrics` both implement.
3. The console's and the administrator's sessions, and the audit of refusals.
