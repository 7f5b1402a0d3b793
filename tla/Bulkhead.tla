------------------------------ MODULE Bulkhead ------------------------------
(***************************************************************************)
(* Admission of business requests: two ApplicationBulkheads, each a        *)
(* bounded semaphore with a bounded wait.  Light requests (detail,         *)
(* citations, legal history) pass the global one; heavy requests (search,  *)
(* target rank) pass the heavy one first and then the global one.          *)
(*                                                                         *)
(* ApplicationBulkhead.slot waits with asyncio.wait_for, which runs        *)
(* Semaphore.acquire in a task of its own.  The pieces of that task and of *)
(* the request's task between two awaits are the actions here, because the *)
(* hazards lie between them: a permit is granted to a waiter that has just *)
(* timed out or been cancelled, or a cancellation arrives when the permit  *)
(* has been taken.  The event loop runs what is ready in order, so the     *)
(* callback that was scheduled first is a guard of the one behind it.      *)
(***************************************************************************)
EXTENDS Naturals, Sequences, FiniteSets

CONSTANTS
    Light, Heavy,       \* requests; each is made once
    GlobalCapacity,     \* patent_search_bulkhead_capacity
    HeavyCapacity       \* patent_search_heavy_bulkhead_capacity

ASSUME CapacityAssumption ==
    /\ GlobalCapacity \in Nat
    /\ HeavyCapacity \in 1..GlobalCapacity - 1    \* validate_bulkhead_capacity
    /\ Light \cap Heavy = {}

Requests == Light \cup Heavy
Bulkheads == {"global", "heavy"}
Capacity == [b \in Bulkheads |-> IF b = "global" THEN GlobalCapacity ELSE HeavyCapacity]

\* Mutant: the wider bulkhead is entered first.
RouteThroughGlobalFirst(r) == IF r \in Heavy THEN <<"global", "heavy">> ELSE <<"global">>

\* The bulkheads a request enters, in order.
Route(r) == IF r \in Heavy THEN <<"heavy", "global">> ELSE <<"global">>

VARIABLES
    value,      \* Semaphore._value
    waiters,    \* Semaphore._waiters
    fut,        \* of each request: the future it waits on
    pc, depth,  \* of each request: how far it is, how many bulkheads it is in
    why,        \* of each request: what ends its wait
    inFlight,   \* ApplicationBulkhead._in_flight
    rejected    \* ApplicationBulkhead._rejected_count

vars == <<value, waiters, fut, pc, depth, why, inFlight, rejected>>

Door(r) == Route(r)[depth[r] + 1]
Entered(r) == {Route(r)[i] : i \in 1..depth[r]}
Goto(r, stage) == pc' = [pc EXCEPT ![r] = stage]

-----------------------------------------------------------------------------
(* asyncio.Semaphore *)

\* A newcomer queues even when there is a permit, as long as a waiter that was
\* granted one has not run yet.
Locked(b) ==
    \/ value[b] = 0
    \/ \E i \in 1..Len(waiters[b]) : fut[waiters[b][i]] # "cancelled"

\* The queue once r, which is in it, has left.
Without(b, r) ==
    [i \in 1..(Len(waiters[b]) - 1) |->
        IF \E j \in 1..i : waiters[b][j] = r THEN waiters[b][i + 1] ELSE waiters[b][i]]

\* The first waiter that still wants a permit; a set, for there may be none.
First(b) ==
    {waiters[b][i] : i \in {j \in 1..Len(waiters[b]) :
        /\ fut[waiters[b][j]] = "pending"
        /\ \A k \in 1..(j - 1) : fut[waiters[b][k]] # "pending"}}

\* Of the permits in B, each goes to the first waiter that still wants it.
Wake(B) == UNION {First(b) : b \in B}
Release(B) ==
    /\ value' = [b \in Bulkheads |->
                    IF b \in B /\ First(b) = {} THEN value[b] + 1 ELSE value[b]]
    /\ fut' = [q \in Requests |-> IF q \in Wake(B) THEN "granted" ELSE fut[q]]

-----------------------------------------------------------------------------
TypeOK ==
    /\ value \in [Bulkheads -> 0..GlobalCapacity]
    /\ waiters \in [Bulkheads -> Seq(Requests)]
    /\ fut \in [Requests -> {"none", "pending", "granted", "cancelled"}]
    /\ pc \in [Requests -> {"trying", "waiting", "acquired", "givingUp", "leaving",
                            "left", "inside", "served", "busy", "cancelled"}]
    /\ depth \in [Requests -> 0..2]
    /\ why \in [Requests -> {"none", "timeout", "cancelled"}]
    /\ inFlight \in [Bulkheads -> Nat]
    /\ rejected \in [Bulkheads -> Nat]

Init ==
    /\ value = Capacity
    /\ waiters = [b \in Bulkheads |-> <<>>]
    /\ fut = [r \in Requests |-> "none"]
    /\ pc = [r \in Requests |-> "trying"]
    /\ depth = [r \in Requests |-> 0]
    /\ why = [r \in Requests |-> "none"]
    /\ inFlight = [b \in Bulkheads |-> 0]
    /\ rejected = [b \in Bulkheads |-> 0]

\* The task of acquire starts: it takes a permit or queues.
Try(r) ==
    /\ pc[r] = "trying"
    /\ IF Locked(Door(r))
       THEN /\ waiters' = [waiters EXCEPT ![Door(r)] = Append(@, r)]
            /\ fut' = [fut EXCEPT ![r] = "pending"]
            /\ Goto(r, "waiting")
            /\ UNCHANGED value
       ELSE /\ value' = [value EXCEPT ![Door(r)] = @ - 1]
            /\ Goto(r, "acquired")
            /\ UNCHANGED <<waiters, fut>>
    /\ UNCHANGED <<depth, why, inFlight, rejected>>

\* It wakes up with its permit, and passes on one that is left over.
Resume(r) ==
    LET b == Door(r)
        next == IF value[b] > 0 THEN Wake({b}) ELSE {}
    IN /\ pc[r] = "waiting"
       /\ fut[r] = "granted"
       /\ waiters' = [waiters EXCEPT ![b] = Without(b, r)]
       /\ fut' = [q \in Requests |->
                     IF q = r THEN "none" ELSE IF q \in next THEN "granted" ELSE fut[q]]
       /\ value' = [value EXCEPT ![b] = IF next # {} THEN @ - 1 ELSE @]
       /\ Goto(r, "acquired")
       /\ UNCHANGED <<depth, why, inFlight, rejected>>

\* The timer of wait_for fires.  If the permit had been granted before, the
\* task of acquire would run first and the timer would be of no effect.
Expire(r) ==
    /\ pc[r] = "waiting"
    /\ fut[r] = "pending"
    /\ Goto(r, "givingUp")
    /\ why' = [why EXCEPT ![r] = "timeout"]
    /\ UNCHANGED <<value, waiters, fut, depth, inFlight, rejected>>

\* The request is cancelled in the wait.  Once the permit is taken, wait_for
\* returns it and drops the cancellation.
Cancel(r) ==
    /\ \/ pc[r] = "waiting" /\ fut[r] = "pending" /\ Goto(r, "givingUp")
       \/ pc[r] \in {"givingUp", "leaving", "left"} /\ UNCHANGED pc
    /\ why[r] # "cancelled"
    /\ why' = [why EXCEPT ![r] = "cancelled"]
    /\ UNCHANGED <<value, waiters, fut, depth, inFlight, rejected>>

\* wait_for cancels the task of acquire, which may hold a granted permit by now.
GiveUp(r) ==
    /\ pc[r] = "givingUp"
    /\ fut' = [fut EXCEPT ![r] = IF @ = "pending" THEN "cancelled" ELSE @]
    /\ Goto(r, "leaving")
    /\ UNCHANGED <<value, waiters, depth, why, inFlight, rejected>>

\* The cancelled task of acquire hands a granted permit back.
Leave(r) ==
    LET b == Door(r)
        next == IF fut[r] = "granted" THEN Wake({b}) ELSE {}
    IN /\ pc[r] = "leaving"
       /\ waiters' = [waiters EXCEPT ![b] = Without(b, r)]
       /\ fut' = [q \in Requests |->
                     IF q = r THEN "none" ELSE IF q \in next THEN "granted" ELSE fut[q]]
       /\ value' = [value EXCEPT ![b] =
                       IF fut[r] = "granted" /\ next = {} THEN @ + 1 ELSE @]
       /\ Goto(r, "left")
       /\ UNCHANGED <<depth, why, inFlight, rejected>>

-----------------------------------------------------------------------------
(* ApplicationBulkhead.slot, and the request inside it *)

\* The permit is taken: count the request, go on to the next bulkhead or to
\* the service.
Admit(r) ==
    /\ pc[r] = "acquired"
    /\ inFlight' = [inFlight EXCEPT ![Door(r)] = @ + 1]
    /\ depth' = [depth EXCEPT ![r] = @ + 1]
    /\ Goto(r, IF depth[r] + 1 = Len(Route(r)) THEN "inside" ELSE "trying")
    /\ UNCHANGED <<value, waiters, fut, why, rejected>>

\* Leave every slot that was entered, the inner one first.
ExitSlots(r) ==
    /\ Release(Entered(r))
    /\ inFlight' = [b \in Bulkheads |->
                       IF b \in Entered(r) THEN inFlight[b] - 1 ELSE inFlight[b]]
    /\ depth' = [depth EXCEPT ![r] = 0]
    /\ UNCHANGED waiters

\* Mutant: the refusal by the inner bulkhead skips the exit of the outer one.
RefuseKeepingSlots(r) ==
    /\ pc[r] = "left"
    /\ IF why[r] = "timeout"
       THEN /\ rejected' = [rejected EXCEPT ![Door(r)] = @ + 1]
            /\ Goto(r, "busy")
       ELSE Goto(r, "cancelled") /\ UNCHANGED rejected
    /\ depth' = [depth EXCEPT ![r] = 0]
    /\ UNCHANGED <<why, value, waiters, fut, inFlight>>

\* SERVICE_BUSY or the cancellation propagates through the outer slot.
Refuse(r) ==
    /\ pc[r] = "left"
    /\ IF why[r] = "timeout"
       THEN /\ rejected' = [rejected EXCEPT ![Door(r)] = @ + 1]
            /\ Goto(r, "busy")
       ELSE Goto(r, "cancelled") /\ UNCHANGED rejected
    /\ ExitSlots(r)
    /\ UNCHANGED why

\* Mutant: the slots are left on success only.
FinishOnSuccessOnly(r) ==
    /\ pc[r] = "inside"
    /\ Goto(r, "served")
    /\ \/ ExitSlots(r)
       \/ UNCHANGED <<value, waiters, fut, depth, inFlight>>
    /\ UNCHANGED <<why, rejected>>

\* The service returns, fails or is cancelled: all leave the slots.
Finish(r) ==
    /\ pc[r] = "inside"
    /\ Goto(r, "served")
    /\ ExitSlots(r)
    /\ UNCHANGED <<why, rejected>>

\* What the event loop and the service do without any timer.
Progress(r) ==
    \/ Try(r) \/ Resume(r) \/ GiveUp(r) \/ Leave(r)
    \/ Admit(r) \/ Refuse(r) \/ Finish(r)

Next == \E r \in Requests : Progress(r) \/ Expire(r) \/ Cancel(r)

Spec == Init /\ [][Next]_vars

\* The event loop runs what is ready, and the service is bounded by its request
\* deadline.  The timers need not fire.
FairSpec == Spec /\ \A r \in Requests : WF_vars(Progress(r))

-----------------------------------------------------------------------------
(* Correctness *)

\* A request owns a permit from the moment it is granted or taken.
Owns(r, b) ==
    \/ b \in Entered(r)
    \/ pc[r] = "acquired" /\ Door(r) = b
    \/ fut[r] = "granted" /\ Door(r) = b
Owners(b) == {r \in Requests : Owns(r, b)}
InsideOf(b) == {r \in Requests : b \in Entered(r)}

\* Each answer 50301 is counted once, by the bulkhead that refused.
RejectionsAreCountedOnce ==
    rejected["global"] + rejected["heavy"] = Cardinality({r \in Requests : pc[r] = "busy"})

\* No permit is lost or returned twice, whatever times out or is cancelled at
\* whichever step of the wait (a second return would make
\* BoundedSemaphore.release raise), the gauge of requests in flight counts the
\* requests that are inside, and refusals are counted once.
PermitsAreConserved ==
    /\ \A b \in Bulkheads :
          /\ value[b] + Cardinality(Owners(b)) = Capacity[b]
          /\ inFlight[b] = Cardinality(InsideOf(b))
    /\ RejectionsAreCountedOnce

\* However many heavy requests arrive, they never own more global permits than
\* the heavy bulkhead has, so that the rest stay for light requests
\* (acquire_heavy_search_request_slot, validate_bulkhead_capacity).
HeavyLeavesRoomForLight ==
    Cardinality({r \in Heavy : Owns(r, "global")}) <= HeavyCapacity

\* Every request is answered, and none has to wait for its timer to fire: a
\* permit that is free always finds the next waiter.
EveryRequestIsAnswered == \A r \in Requests : <>(pc[r] \in {"served", "busy", "cancelled"})

\* Seen from the requests that are inside, each bulkhead is a plain limiter:
\* the queue, the grants and the cancellations only decide who is next.
GlobalSlots == INSTANCE Slots WITH
    Users <- Requests, Capacity <- GlobalCapacity, holders <- InsideOf("global")
HeavySlots == INSTANCE Slots WITH
    Users <- Requests, Capacity <- HeavyCapacity, holders <- InsideOf("heavy")

BulkheadsAreSlots == GlobalSlots!Spec /\ HeavySlots!Spec

=============================================================================
