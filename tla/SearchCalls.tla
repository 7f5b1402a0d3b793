----------------------------- MODULE SearchCalls -----------------------------
(***************************************************************************)
(* Business requests in their worker threads, and the one OpenSearch       *)
(* client they share.  A request that the global bulkhead admitted makes   *)
(* some repository operations one after the other (find_target, a search,  *)
(* the counts of a rank, ...).  An operation is OpenSearchRepository       *)
(* ._perform: attempts at the SDK call, each in a slot of the client, with *)
(* a back-off in between, all inside the deadline of the request.          *)
(*                                                                         *)
(* Time is discrete and relative: every request knows what is left of its  *)
(* deadline and of its wait, as `deadline - clock()` does.  A thread that  *)
(* can run does so without delay; what waits (an attempt, a back-off) ends *)
(* on its own, at the latest Slack ticks after the time it was given.  For *)
(* an attempt that is what the connections of deadline_connection.py       *)
(* promise.                                                                *)
(***************************************************************************)
EXTENDS Integers, FiniteSets

CONSTANTS
    Threads,        \* worker threads, each serves one request after the other
    Admission,      \* patent_search_bulkhead_capacity
    PoolMaxsize,    \* opensearch_pool_maxsize
    Configs,        \* runtime configuration snapshots a request may be given
    Slack           \* how late a wait may end

ASSUME PoolAssumption ==
    /\ PoolMaxsize \in Nat
    /\ Admission \in 1..PoolMaxsize     \* validate_bulkhead_capacity
    /\ IsFiniteSet(Threads)

ASSUME TimeAssumption ==
    /\ Slack \in Nat
    /\ Configs # {}
    /\ Configs \subseteq [deadline : Nat \ {0}, timeout : Nat \ {0}, retries : 0..1, backoff : Nat]

VARIABLES
    free,       \* _client_slots
    config,     \* of each thread: the snapshot its request was given at ingress
    left,       \* of each thread: what is left of the deadline of its request
    pc,
    wait,       \* of each thread: what is left of its attempt or back-off
    retried,    \* of each thread: retry_count of its operation
    sent,       \* of each thread: attempts of its operation
    outcome     \* of each thread: how its latest operation ended

vars == <<free, config, left, pc, wait, retried, sent, outcome>>

Goto(t, stage) == pc' = [pc EXCEPT ![t] = stage]
Min2(a, b) == IF a <= b THEN a ELSE b

\* Where a request is past the bulkhead and has not left it.
Inside == {"service", "attempt", "calling", "backoff"}
Admitted == {t \in Threads : pc[t] \in Inside}
Calling == {t \in Threads : pc[t] = "calling"}

-----------------------------------------------------------------------------
(* What an attempt comes to *)

Transient == {"unavailable", "timeout"}         \* _is_retryable
SdkErrors == Transient \cup {"error"}
\* Raised by the validation of a response, past the except clause of the SDK's
\* errors: never retried, not even a response that says timed_out.  "error"
\* stands for failed shards and for any other exception.
Unusable == {"timeout", "error", "invalid_response"}
Failures == SdkErrors \cup Unusable
Outcomes == {"none", "success"} \cup Failures

TypeOK ==
    /\ free \in 0..PoolMaxsize
    /\ config \in [Threads -> Configs]
    /\ left \in [Threads -> Int]
    /\ pc \in [Threads -> Inside \cup {"idle"}]
    /\ wait \in [Threads -> Int]
    /\ retried \in [Threads -> 0..1]
    /\ sent \in [Threads -> Nat]
    /\ outcome \in [Threads -> Outcomes]

Init ==
    /\ free = PoolMaxsize
    /\ config \in [Threads -> Configs]
    /\ left = [t \in Threads |-> 0]
    /\ pc = [t \in Threads |-> "idle"]
    /\ wait = [t \in Threads |-> 0]
    /\ retried = [t \in Threads |-> 0]
    /\ sent = [t \in Threads |-> 0]
    /\ outcome = [t \in Threads |-> "none"]

-----------------------------------------------------------------------------
(* The request *)

\* A request passes the bulkhead.  Its deadline runs from the ingress, so the
\* wait for admission may have used up some of it.
Admit(t) ==
    /\ pc[t] = "idle"
    /\ Cardinality(Admitted) < Admission
    /\ \E c \in Configs : /\ config' = [config EXCEPT ![t] = c]
                          /\ \E rest \in 0..c.deadline : left' = [left EXCEPT ![t] = rest]
    /\ outcome' = [outcome EXCEPT ![t] = "none"]
    /\ Goto(t, "service")
    /\ UNCHANGED <<free, wait, retried, sent>>

\* The service asks the repository for something.
Ask(t) ==
    /\ pc[t] = "service"
    /\ outcome' = [outcome EXCEPT ![t] = "none"]
    /\ Goto(t, "attempt")
    /\ UNCHANGED <<free, config, left, wait, retried, sent>>

\* Mutant: the count of retries is one for the whole request.
EndOperationKeepingRetries(t, what, stage) ==
    /\ outcome' = [outcome EXCEPT ![t] = what]
    /\ retried' = [retried EXCEPT ![t] = IF stage = "idle" THEN 0 ELSE @]
    /\ sent' = [sent EXCEPT ![t] = 0]
    /\ wait' = [wait EXCEPT ![t] = 0]
    /\ Goto(t, stage)

\* The frame of _perform is gone.
EndOperation(t, what, stage) ==
    /\ outcome' = [outcome EXCEPT ![t] = what]
    /\ retried' = [retried EXCEPT ![t] = 0]
    /\ sent' = [sent EXCEPT ![t] = 0]
    /\ wait' = [wait EXCEPT ![t] = 0]
    /\ Goto(t, stage)

\* The request has its answer and leaves the bulkhead.
Serve(t) ==
    /\ pc[t] = "service"
    /\ outcome[t] = "success"
    /\ left' = [left EXCEPT ![t] = 0]
    /\ Goto(t, "idle")
    /\ UNCHANGED <<free, config, wait, retried, sent, outcome>>

-----------------------------------------------------------------------------
(* OpenSearchRepository._perform *)

\* The operation raises, and so does the request.
Raise(t, what) ==
    /\ EndOperation(t, what, "idle")
    /\ left' = [left EXCEPT ![t] = 0]

Exhausted(t) ==
    /\ pc[t] = "attempt"
    /\ left[t] <= 0
    /\ Raise(t, "timeout")
    /\ UNCHANGED <<free, config>>

\* acquire(blocking=False) fails.  That it never does is a property below.
NoConnection(t) ==
    /\ pc[t] = "attempt"
    /\ left[t] > 0
    /\ free = 0
    /\ Raise(t, "unavailable")
    /\ UNCHANGED <<free, config>>

\* Mutant: an attempt gets the transport's timeout, whatever is left.
SendWithFullTimeout(t) ==
    /\ pc[t] = "attempt"
    /\ left[t] > 0
    /\ free > 0
    /\ free' = free - 1
    /\ wait' = [wait EXCEPT ![t] = config[t].timeout]
    /\ sent' = [sent EXCEPT ![t] = @ + 1]
    /\ Goto(t, "calling")
    /\ UNCHANGED <<config, left, retried, outcome>>

Send(t) ==
    /\ pc[t] = "attempt"
    /\ left[t] > 0
    /\ free > 0
    /\ free' = free - 1
    /\ wait' = [wait EXCEPT ![t] = Min2(config[t].timeout, left[t])]
    /\ sent' = [sent EXCEPT ![t] = @ + 1]
    /\ Goto(t, "calling")
    /\ UNCHANGED <<config, left, retried, outcome>>

Attempt(t) == IF free = 0 THEN NoConnection(t) ELSE Send(t)

\* The attempt ends, in whatever way: the slot is released.
EndAttempt(t) ==
    /\ pc[t] = "calling"
    /\ free' = free + 1
    /\ UNCHANGED config

\* A success goes to the service, which asks again or is done.
Succeed(t) ==
    /\ EndAttempt(t)
    /\ left[t] > 0
    /\ EndOperation(t, "success", "service")
    /\ UNCHANGED left

AnswerTooLate(t) ==
    /\ EndAttempt(t)
    /\ left[t] <= 0
    /\ Raise(t, "timeout")

\* Mutant: the slot is released where the SDK's errors are handled, and an
\* unusable answer is none of them.
MisreadKeepingSlot(t) ==
    /\ pc[t] = "calling"
    /\ \E failure \in Unusable : Raise(t, failure)
    /\ UNCHANGED <<free, config>>

\* An answer that cannot be used, and any exception that is not the SDK's.
Misread(t) ==
    /\ EndAttempt(t)
    /\ \E failure \in Unusable : Raise(t, failure)

Retryable(t, failure) == failure \in Transient /\ retried[t] < config[t].retries
\* The code's factor 2 ^ retry_count is 1: opensearch_max_retries is at most 1.
Backoff(t) == config[t].backoff

\* An SDK error for which there is no other attempt.  Past the deadline it is a
\* timeout, whatever it was, and so it is when the back-off does not fit.
GiveUp(t) ==
    /\ EndAttempt(t)
    /\ \E failure \in SdkErrors :
          \/ left[t] <= 0 /\ Raise(t, "timeout")
          \/ left[t] > 0 /\ ~ Retryable(t, failure) /\ Raise(t, failure)
          \/ left[t] > 0 /\ Retryable(t, failure) /\ left[t] <= Backoff(t) /\ Raise(t, "timeout")

\* A transient error, one more attempt allowed, and its back-off fits.
Retry(t) ==
    /\ EndAttempt(t)
    /\ \E failure \in SdkErrors : Retryable(t, failure)
    /\ left[t] > 0
    /\ left[t] > Backoff(t)
    /\ wait' = [wait EXCEPT ![t] = Backoff(t)]
    /\ retried' = [retried EXCEPT ![t] = @ + 1]
    /\ Goto(t, "backoff")
    /\ UNCHANGED <<left, sent, outcome>>

WakeUp(t) ==
    /\ pc[t] = "backoff"
    /\ wait[t] <= 0
    /\ wait' = [wait EXCEPT ![t] = 0]
    /\ Goto(t, "attempt")
    /\ UNCHANGED <<free, config, left, retried, sent, outcome>>

-----------------------------------------------------------------------------
\* Whether a thread can wait for the next tick.  Between two operations the
\* service computes, or waits for a query vector, inside the deadline.
MayWait(t) ==
    /\ pc[t] # "attempt"
    /\ pc[t] \in {"calling", "backoff"} => wait[t] + Slack > 0
    /\ pc[t] = "service" => left[t] > 0

\* Time passes for the requests that are under way.
Tick ==
    /\ Admitted # {}
    /\ \A t \in Threads : MayWait(t)
    /\ left' = [t \in Threads |-> IF t \in Admitted THEN left[t] - 1 ELSE left[t]]
    /\ wait' = [t \in Threads |-> IF pc[t] \in {"calling", "backoff"} THEN wait[t] - 1 ELSE wait[t]]
    /\ UNCHANGED <<free, config, pc, retried, sent, outcome>>

Perform(t) ==
    \/ Exhausted(t) \/ Attempt(t) \/ Succeed(t) \/ AnswerTooLate(t)
    \/ Misread(t) \/ GiveUp(t) \/ Retry(t) \/ WakeUp(t)

Next == Tick \/ \E t \in Threads : Admit(t) \/ Ask(t) \/ Serve(t) \/ Perform(t)

Spec == Init /\ [][Next]_vars

-----------------------------------------------------------------------------
(* Correctness *)

\* A request that was admitted finds a slot of the client whenever it needs
\* one, so that it is never refused for a full pool: slots are returned on
\* every path, and a request uses one at a time (_perform and the relation of
\* the capacities in validate_bulkhead_capacity).
AdmittedFindAConnection == \A t \in Threads : pc[t] = "attempt" => free > 0

\* Whatever OpenSearch does, no request holds its thread and its permit past
\* its deadline, but for a wait that ends late: the timeouts, the back-offs and
\* the retries of all its operations together fit (_perform).
NoneOutlivesItsDeadline == \A t \in Admitted : left[t] + Slack >= 0

\* An admitted request is told that OpenSearch is unavailable only after all the
\* attempts its snapshot allows, in each of its operations: no other request can
\* take the slot an attempt needs, and what earlier operations of the request
\* retried does not count (_perform).
UnavailableOnlyWhenTried ==
    [][\A t \in Threads :
          outcome[t] # "unavailable" /\ outcome'[t] = "unavailable"
          => sent[t] = 1 + config[t].retries]_vars

\* A failing dependency is not asked more often than the snapshot of the
\* request allows (opensearch.max_retries).
TrafficIsBounded == \A t \in Threads : sent[t] <= 1 + config[t].retries

\* Seen from the threads that are past it, the bulkhead is the limiter that
\* module Bulkhead implements; the threads that call are users of another one,
\* the slots of the client.
AdmissionSlots == INSTANCE Slots WITH
    Users <- Threads, Capacity <- Admission, holders <- Admitted
ClientSlots == INSTANCE Slots WITH
    Users <- Threads, Capacity <- PoolMaxsize, holders <- Calling

CallsHoldSlots == AdmissionSlots!Spec /\ ClientSlots!Spec

=============================================================================
