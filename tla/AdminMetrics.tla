---------------------------- MODULE AdminMetrics ----------------------------
(***************************************************************************)
(* PrometheusAdminMetricsReader for one window (windows have separate      *)
(* entries in its cache and its table of shared tasks): viewers of the     *)
(* dashboard share one batch of queries at a time and a short cache.       *)
(*                                                                         *)
(* The sections under the asyncio.Lock contain no await, so each is one    *)
(* step.  A batch is a number; the age of its data is counted in ticks of  *)
(* a clock from the moment it ended, up to the cache's lifetime.           *)
(***************************************************************************)
EXTENDS Naturals, FiniteSets

CONSTANTS
    Viewers,
    CacheTicks,     \* ADMIN_METRICS_CACHE_SECONDS
    MaxBatches      \* bound: batches that are started

ASSUME BoundAssumption == CacheTicks \in Nat \ {0} /\ MaxBatches \in Nat

VARIABLES
    cache,              \* _cache[window]: a batch and the ticks it has left
    inflight,           \* _inflight[window]: a batch, 0 if none
    started,            \* batches started so far
    batch,              \* of each batch: its task
    age,                \* of each batch: the age of its data
    abandoned,          \* ended batches whose viewers had all gone
    closed,             \* _closed
    awaiting, answer    \* of each viewer: the batch it awaits, what it got

vars == <<cache, inflight, started, batch, age, abandoned, closed, awaiting, answer>>

Batches == 1..MaxBatches
NoEntry == [batch |-> 0, left |-> 0]
NoAnswer == [kind |-> "none", batch |-> 0]

TypeOK ==
    /\ cache \in [batch : 0..started, left : 0..CacheTicks]
    /\ inflight \in 0..started
    /\ started \in 0..MaxBatches
    /\ batch \in [Batches -> {"none", "running", "done", "failed", "cancelled"}]
    /\ age \in [Batches -> 0..CacheTicks]
    /\ abandoned \subseteq 1..started
    /\ closed \in BOOLEAN
    /\ awaiting \in [Viewers -> 0..started]
    /\ answer \in [kind : {"none", "metrics", "closed", "failed", "cancelled"}, batch : 0..started]

Init ==
    /\ cache = NoEntry
    /\ inflight = 0
    /\ started = 0
    /\ batch = [n \in Batches |-> "none"]
    /\ age = [n \in Batches |-> 0]
    /\ abandoned = {}
    /\ closed = FALSE
    /\ awaiting = [v \in Viewers |-> 0]
    /\ answer = NoAnswer

Tell(kind, n) == answer' = [kind |-> kind, batch |-> n]

-----------------------------------------------------------------------------
(* read, up to the await of the shared task *)

\* Mutant: an entry is used on the tick it expires.
ValidThroughLastTick(entry) == entry.batch # 0

Valid(entry) == entry.batch # 0 /\ entry.left > 0

ReadClosed(v) ==
    /\ awaiting[v] = 0
    /\ closed
    /\ Tell("closed", 0)
    /\ UNCHANGED <<cache, inflight, started, batch, age, abandoned, closed, awaiting>>

ReadCached(v) ==
    /\ awaiting[v] = 0
    /\ ~ closed
    /\ Valid(cache)
    /\ Tell("metrics", cache.batch)
    /\ UNCHANGED <<cache, inflight, started, batch, age, abandoned, closed, awaiting>>

ReadShared(v) ==
    /\ awaiting[v] = 0
    /\ ~ closed
    /\ ~ Valid(cache)
    /\ inflight # 0
    /\ awaiting' = [awaiting EXCEPT ![v] = inflight]
    /\ UNCHANGED <<cache, inflight, started, batch, age, abandoned, closed, answer>>

ReadNew(v) ==
    /\ awaiting[v] = 0
    /\ ~ closed
    /\ ~ Valid(cache)
    /\ inflight = 0
    /\ started < MaxBatches
    /\ started' = started + 1
    /\ inflight' = started'
    /\ batch' = [batch EXCEPT ![started'] = "running"]
    /\ awaiting' = [awaiting EXCEPT ![v] = started']
    /\ UNCHANGED <<cache, age, abandoned, closed, answer>>

-----------------------------------------------------------------------------
(* read, after the await *)

\* Mutant: the entry is written although close has emptied the tables.
ReceiveAndCacheAlways(v) ==
    LET n == awaiting[v] IN
    /\ n # 0
    /\ batch[n] = "done"
    /\ Tell("metrics", n)
    /\ cache' = [batch |-> n, left |-> CacheTicks]
    /\ inflight' = IF inflight = n THEN 0 ELSE inflight
    /\ awaiting' = [awaiting EXCEPT ![v] = 0]
    /\ UNCHANGED <<started, batch, age, abandoned, closed>>

\* Mutant: a viewer looks for its batch in the table of shared tasks.
ReceiveIfRegistered(v) ==
    LET n == awaiting[v] IN
    /\ n # 0
    /\ batch[n] = "done"
    /\ inflight = n
    /\ Tell("metrics", n)
    /\ cache' = [batch |-> n, left |-> CacheTicks]
    /\ inflight' = 0
    /\ awaiting' = [awaiting EXCEPT ![v] = 0]
    /\ UNCHANGED <<started, batch, age, abandoned, closed>>

\* The first viewer of a batch to resume moves it into the cache.
Receive(v) ==
    LET n == awaiting[v] IN
    /\ n # 0
    /\ batch[n] = "done"
    /\ Tell("metrics", n)
    /\ IF inflight = n
       THEN cache' = [batch |-> n, left |-> CacheTicks] /\ inflight' = 0
       ELSE UNCHANGED <<cache, inflight>>
    /\ awaiting' = [awaiting EXCEPT ![v] = 0]
    /\ UNCHANGED <<started, batch, age, abandoned, closed>>

\* A batch that raised is taken out of the table, so that the next read starts
\* another one.
ReceiveFailed(v) ==
    LET n == awaiting[v] IN
    /\ n # 0
    /\ batch[n] = "failed"
    /\ Tell("failed", 0)
    /\ inflight' = IF inflight = n THEN 0 ELSE inflight
    /\ awaiting' = [awaiting EXCEPT ![v] = 0]
    /\ UNCHANGED <<cache, started, batch, age, abandoned, closed>>

\* Only close cancels a batch; CancelledError is passed on.
ReceiveCancelled(v) ==
    /\ awaiting[v] # 0
    /\ batch[awaiting[v]] = "cancelled"
    /\ Tell("cancelled", 0)
    /\ awaiting' = [awaiting EXCEPT ![v] = 0]
    /\ UNCHANGED <<cache, inflight, started, batch, age, abandoned, closed>>

\* Mutant: the viewer that goes away unregisters the task it awaited.
CancelAndUnregister(v) ==
    /\ awaiting[v] # 0
    /\ awaiting' = [awaiting EXCEPT ![v] = 0]
    /\ inflight' = IF inflight = awaiting[v] THEN 0 ELSE inflight
    /\ UNCHANGED <<cache, started, batch, age, abandoned, closed, answer>>

\* The batch n, if nobody is left to move it from the tasks into the cache.
Orphaned(n, waits) == IF \E v \in Viewers : waits[v] = n THEN {} ELSE {n}

\* A viewer that goes away leaves the shared task registered.
CancelViewer(v) ==
    LET n == awaiting[v] IN
    /\ n # 0
    /\ awaiting' = [awaiting EXCEPT ![v] = 0]
    /\ abandoned' = IF inflight = n /\ batch[n] = "done"
                    THEN abandoned \cup Orphaned(n, awaiting') ELSE abandoned
    /\ UNCHANGED <<cache, inflight, started, batch, age, closed, answer>>

-----------------------------------------------------------------------------
Resuming(v) == awaiting[v] # 0 /\ batch[awaiting[v]] # "running"

\* _read_uncached ends: each query has a deadline and its failure is a result.
EndBatch(n) ==
    /\ batch[n] = "running"
    /\ \A v \in Viewers : ~ Resuming(v)
    /\ batch' = [batch EXCEPT ![n] = "done"]
    /\ abandoned' = abandoned \cup Orphaned(n, awaiting)
    /\ UNCHANGED <<cache, inflight, started, age, closed, awaiting, answer>>

\* It raises only where the results are put together: what a query raises is
\* gathered.
FailBatch(n) ==
    /\ batch[n] = "running"
    /\ \A v \in Viewers : ~ Resuming(v)
    /\ batch' = [batch EXCEPT ![n] = "failed"]
    /\ UNCHANGED <<cache, inflight, started, age, abandoned, closed, awaiting, answer>>

\* The clock.  The event loop runs the viewers that are ready before it sleeps.
Tick ==
    /\ \A v \in Viewers : ~ Resuming(v)
    /\ age' = [n \in Batches |-> IF batch[n] = "done" /\ age[n] < CacheTicks
                                THEN age[n] + 1 ELSE age[n]]
    /\ cache' = [batch |-> cache.batch,
                 left |-> IF cache.left > 0 THEN cache.left - 1 ELSE 0]
    /\ <<age, cache>> # <<age', cache'>>
    /\ UNCHANGED <<inflight, started, batch, abandoned, closed, awaiting, answer>>

\* close cancels the registered task, waits for it and empties the tables.
Close ==
    /\ ~ closed
    /\ closed' = TRUE
    /\ batch' = [n \in Batches |->
                    IF n = inflight /\ batch[n] = "running" THEN "cancelled" ELSE batch[n]]
    /\ inflight' = 0
    /\ cache' = NoEntry
    /\ UNCHANGED <<started, age, abandoned, awaiting, answer>>

Read(v) == ReadClosed(v) \/ ReadCached(v) \/ ReadShared(v) \/ ReadNew(v)
Resume(v) == Receive(v) \/ ReceiveFailed(v) \/ ReceiveCancelled(v)
End(n) == EndBatch(n) \/ FailBatch(n)

Next ==
    \/ \E v \in Viewers : Read(v) \/ Resume(v) \/ CancelViewer(v)
    \/ \E n \in Batches : End(n)
    \/ Tick
    \/ Close

Spec == Init /\ [][Next]_vars

\* The event loop runs what is ready; the queries have a deadline.
FairSpec ==
    /\ Spec
    /\ \A v \in Viewers : WF_vars(Resume(v))
    /\ \A n \in Batches : WF_vars(End(n))

-----------------------------------------------------------------------------
(* Correctness *)

\* Prometheus is asked by one batch at a time, however viewers come, go and
\* close the reader (read: single-flight by window).
OneBatchAtATime == Cardinality({n \in Batches : batch[n] = "running"}) <= 1

\* A closed reader holds no batch, no result and no task, also when a viewer
\* resumes after close with the result of a batch that had ended.
NothingKeptAfterClose ==
    closed => /\ cache = NoEntry
              /\ inflight = 0
              /\ \A n \in Batches : batch[n] # "running"

\* A viewer never gets older data than a viewer before it.
DataNeverGoesBack ==
    [][(answer.kind = "metrics" /\ answer'.kind = "metrics")
        => answer'.batch >= answer.batch]_vars

\* What a read that is made now returns without asking Prometheus, if anything.
Offered ==
    IF Valid(cache) THEN cache.batch
    ELSE IF inflight # 0 /\ batch[inflight] = "done" THEN inflight
    ELSE 0

\* Data that is handed out is younger than the cache's lifetime, except that
\* of a batch whose viewers had all gone before one of them could cache it.
FreshUnlessAbandoned ==
    (Offered # 0 /\ Offered \notin abandoned) => age[Offered] < CacheTicks

\* Each viewer that stays gets an answer.
EveryReadReturns == \A v \in Viewers : awaiting[v] # 0 ~> awaiting[v] = 0

\* admin_metrics.py:161 says of the cache that after it expired the window is
\* read anew; docs/ops/admin_dashboard.md:62 gives its lifetime.
DataIsFresh == Offered # 0 => age[Offered] < CacheTicks

=============================================================================
