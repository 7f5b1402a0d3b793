--------------------------- MODULE ReadinessProbe ---------------------------
(***************************************************************************)
(* ReadinessProbe: /ready requests and the verification of a runtime       *)
(* configuration ask whether OpenSearch answers.  Askers share one refresh *)
(* at a time and its cached result.  The check is a blocking call in an    *)
(* executor of one thread, which a timeout abandons and cannot stop.       *)
(*                                                                         *)
(* The sections under the asyncio.Lock contain no await, so each is one    *)
(* step and the lock itself is never waited for.  A refresh is a number;   *)
(* its work item in the executor goes by the same number.                  *)
(***************************************************************************)
EXTENDS Naturals, Sequences, FiniteSets

CONSTANTS
    Callers,
    MaxRefreshes,   \* bound: refreshes that are started
    Nil

ASSUME BoundAssumption == MaxRefreshes \in Nat /\ Nil \notin BOOLEAN

VARIABLES
    cached,         \* _cached_result while it is valid
    inflight,       \* _inflight: the running refresh, 0 if none
    started,        \* refreshes started so far
    refresh,        \* of each refresh: its task
    result,         \* of each refresh: what its task returned
    item,           \* of each refresh: its work item
    queue,          \* the executor's queue
    slotTaken,      \* _execution_slot
    closed,         \* _closed, and the executor is shut down
    status,         \* the gauge "ready" of set_probe_status
    joined, answer  \* of each caller: the refresh it awaits, what it was told

probe == <<cached, inflight, closed, status>>
tasks == <<started, refresh, result>>
executor == <<item, queue, slotTaken>>
callers == <<joined, answer>>
probeVars == <<probe, tasks, executor, callers>>

Refreshes == 1..MaxRefreshes

ProbeTypeOK ==
    /\ cached \in BOOLEAN \cup {Nil}
    /\ inflight \in 0..started
    /\ started \in 0..MaxRefreshes
    /\ refresh \in [Refreshes -> {"none", "created", "waiting", "returned", "cancelled"}]
    /\ result \in [Refreshes -> BOOLEAN]
    /\ item \in [Refreshes -> {"none", "queued", "running", "yes", "no", "cancelled"}]
    /\ queue \in Seq(Refreshes)
    /\ slotTaken \in BOOLEAN
    /\ closed \in BOOLEAN
    /\ status \in BOOLEAN
    /\ joined \in [Callers -> 0..started]
    /\ answer \in [Callers -> {"none", "ready", "notReady", "cancelled"}]

ProbeInit ==
    /\ cached = Nil
    /\ inflight = 0
    /\ started = 0
    /\ refresh = [n \in Refreshes |-> "none"]
    /\ result = [n \in Refreshes |-> FALSE]
    /\ item = [n \in Refreshes |-> "none"]
    /\ queue = <<>>
    /\ slotTaken = FALSE
    /\ closed = FALSE
    /\ status = FALSE
    /\ joined = [c \in Callers |-> 0]
    /\ answer = [c \in Callers |-> "none"]

-----------------------------------------------------------------------------
(* is_ready *)

Idle(c) == joined[c] = 0 /\ answer[c] = "none"
Tell(c, what) == answer' = [answer EXCEPT ![c] = what]
AsAnswer(ready) == IF ready THEN "ready" ELSE "notReady"

AnswerAtOnce(c, force) ==
    /\ Idle(c)
    /\ \/ ~ force /\ cached # Nil /\ Tell(c, AsAnswer(cached))
       \/ closed /\ (force \/ cached = Nil) /\ Tell(c, "notReady")
    /\ UNCHANGED <<probe, tasks, executor, joined>>

\* A refresh is created, and the caller waits for it.
Launch(c) ==
    /\ started < MaxRefreshes
    /\ started' = started + 1
    /\ inflight' = started'
    /\ refresh' = [refresh EXCEPT ![started'] = "created"]
    /\ joined' = [joined EXCEPT ![c] = started']
    /\ UNCHANGED <<cached, closed, status, result, executor, answer>>

\* Mutant: a forced refresh does not share the one that runs.
JoinUnlessForced(c, force) ==
    /\ Idle(c)
    /\ ~ closed
    /\ force \/ cached = Nil
    /\ \/ force /\ Launch(c)
       \/ ~ force /\ inflight = 0 /\ Launch(c)
       \/ /\ ~ force
          /\ inflight # 0
          /\ joined' = [joined EXCEPT ![c] = inflight]
          /\ UNCHANGED <<probe, tasks, executor, answer>>

Join(c, force) ==
    /\ Idle(c)
    /\ ~ closed
    /\ force \/ cached = Nil
    /\ \/ inflight = 0 /\ Launch(c)
       \/ /\ inflight # 0
          /\ joined' = [joined EXCEPT ![c] = inflight]
          /\ UNCHANGED <<probe, tasks, executor, answer>>

\* The shield delivers what the refresh came to.
Receive(c) ==
    /\ joined[c] # 0
    /\ \/ refresh[joined[c]] = "returned" /\ Tell(c, AsAnswer(result[joined[c]]))
       \/ refresh[joined[c]] = "cancelled" /\ Tell(c, "cancelled")
    /\ joined' = [joined EXCEPT ![c] = 0]
    /\ UNCHANGED <<probe, tasks, executor>>

\* A caller that is cancelled itself leaves the refresh alone.
CancelCaller(c) ==
    /\ joined[c] # 0
    /\ joined' = [joined EXCEPT ![c] = 0]
    /\ UNCHANGED <<probe, tasks, executor, answer>>

Forget(c) ==
    /\ answer[c] # "none"
    /\ Tell(c, "none")
    /\ UNCHANGED <<probe, tasks, executor, joined>>

-----------------------------------------------------------------------------
(* _refresh *)

\* Mutant: a refresh that outlives close still publishes its result.
SettleRegardless(n, ready) ==
    /\ refresh' = [refresh EXCEPT ![n] = "returned"]
    /\ cached' = ready
    /\ inflight' = 0
    /\ status' = ready
    /\ result' = [result EXCEPT ![n] = ready]
    /\ UNCHANGED <<started, closed, callers>>

\* The outcome is cached unless the probe was closed meanwhile.
Settle(n, ready) ==
    /\ refresh' = [refresh EXCEPT ![n] = "returned"]
    /\ cached' = IF closed THEN cached ELSE ready
    /\ inflight' = 0
    /\ status' = (ready /\ ~ closed)
    /\ result' = [result EXCEPT ![n] = ready /\ ~ closed]
    /\ UNCHANGED <<started, closed, callers>>

Submit(n) ==
    /\ refresh[n] = "created"
    /\ \/ /\ ~ closed
          /\ refresh' = [refresh EXCEPT ![n] = "waiting"]
          /\ item' = [item EXCEPT ![n] = "queued"]
          /\ queue' = Append(queue, n)
          /\ UNCHANGED <<probe, started, result, slotTaken, callers>>
       \/ /\ closed                  \* an executor that is shut down refuses
          /\ Settle(n, FALSE)
          /\ UNCHANGED executor

Complete(n) ==
    /\ refresh[n] = "waiting"
    /\ item[n] \in {"yes", "no"}
    /\ Settle(n, item[n] = "yes")
    /\ UNCHANGED executor

\* The executor was shut down before the check began: its future is cancelled,
\* and CancelledError is not among the exceptions that _refresh handles.
Drop(n) ==
    /\ refresh[n] = "waiting"
    /\ item[n] = "cancelled"
    /\ refresh' = [refresh EXCEPT ![n] = "cancelled"]
    /\ UNCHANGED <<probe, started, result, executor, callers>>

\* Mutant: the check that is running is waited for.
TimeOutUnlessRunning(n) ==
    /\ refresh[n] = "waiting"
    /\ item[n] # "running"
    /\ Settle(n, FALSE)
    /\ item' = [item EXCEPT ![n] = IF @ = "queued" THEN "cancelled" ELSE @]
    /\ UNCHANGED <<queue, slotTaken>>

\* Mutant: the timeout leaves a work item that has not begun in the queue.
TimeOutKeepingItem(n) ==
    /\ refresh[n] = "waiting"
    /\ Settle(n, FALSE)
    /\ UNCHANGED executor

\* The timeout cancels a work item that has not begun; a running check goes on
\* and its result is dropped.
TimeOut(n) ==
    /\ refresh[n] = "waiting"
    /\ Settle(n, FALSE)
    /\ item' = [item EXCEPT ![n] = IF @ = "queued" THEN "cancelled" ELSE @]
    /\ UNCHANGED <<queue, slotTaken>>

-----------------------------------------------------------------------------
(* The executor's thread, and _check_once in it *)

Running == {n \in Refreshes : item[n] = "running"}

Take ==
    /\ Running = {}
    /\ queue # <<>>
    /\ LET n == Head(queue) IN
          /\ item' = [item EXCEPT ![n] = IF @ = "cancelled" THEN @
                                        ELSE IF slotTaken THEN "no" ELSE "running"]
          /\ slotTaken' = (slotTaken \/ item[n] = "queued")
    /\ queue' = Tail(queue)
    /\ UNCHANGED <<probe, tasks, callers>>

\* The dependency answers, or the client raises.
CheckReturns(n) ==
    /\ item[n] = "running"
    /\ \E outcome \in {"yes", "no"} : item' = [item EXCEPT ![n] = outcome]
    /\ slotTaken' = FALSE
    /\ UNCHANGED <<queue, probe, tasks, callers>>

-----------------------------------------------------------------------------
CacheExpires ==
    /\ cached # Nil
    /\ cached' = Nil
    /\ UNCHANGED <<inflight, closed, status, tasks, executor, callers>>

\* close, which cancels the work items that have not begun.
Close ==
    /\ ~ closed
    /\ closed' = TRUE
    /\ cached' = Nil
    /\ status' = FALSE
    /\ queue' = <<>>
    /\ item' = [n \in Refreshes |-> IF item[n] = "queued" THEN "cancelled" ELSE item[n]]
    /\ UNCHANGED <<inflight, tasks, slotTaken, callers>>

RefreshStep(n) == Submit(n) \/ Complete(n) \/ Drop(n) \/ TimeOut(n)

ProbeNext ==
    \/ \E c \in Callers :
          \/ \E force \in BOOLEAN : AnswerAtOnce(c, force) \/ Join(c, force)
          \/ Receive(c) \/ CancelCaller(c) \/ Forget(c)
    \/ \E n \in Refreshes : RefreshStep(n) \/ CheckReturns(n)
    \/ Take
    \/ CacheExpires
    \/ Close

ProbeSpec == ProbeInit /\ [][ProbeNext]_probeVars

\* The event loop and its timers run.  The check may hang forever.
FairProbeSpec ==
    /\ ProbeSpec
    /\ \A n \in Refreshes : WF_probeVars(RefreshStep(n))
    /\ \A c \in Callers : WF_probeVars(Receive(c))

-----------------------------------------------------------------------------
(* Correctness *)

\* All askers share one refresh, also those that force one (is_ready).
OneRefreshAtATime ==
    \A m, n \in Refreshes :
        (refresh[m] \in {"created", "waiting"} /\ refresh[n] \in {"created", "waiting"}) => m = n

\* However often a check that hangs is timed out, what the probe still owes the
\* dependency is the check that runs and at most one more (class docstring:
\* timeouts and cancelled callers never pile up checks in the background).
BacklogIsBounded == Cardinality({n \in Refreshes : item[n] \in {"queued", "running"}}) <= 2

\* After close no answer is remembered and the gauge stays down, also when a
\* refresh that was running ends later (close, _refresh).
NotReadyOnceClosed == closed => cached = Nil /\ ~ status

\* Every asker gets an answer although the check may never return.
EveryCallIsAnswered == \A c \in Callers : joined[c] # 0 ~> joined[c] = 0

=============================================================================
