-------------------------- MODULE SearchCallsProofs --------------------------
(***************************************************************************)
(* What admission, retries and deadlines together promise for any number   *)
(* of threads, any capacities that respect their relation, and any         *)
(* snapshots.  The invariant has three independent parts:                  *)
(*   - the slots that are taken are those of the threads that call, and    *)
(*     the bulkhead is not over its capacity;                              *)
(*   - a wait never exceeds what is left of the deadline;                  *)
(*   - the attempts of an operation follow its count of retries.           *)
(***************************************************************************)
EXTENDS SearchCalls, FiniteSetTheorems, TLAPS

SlotsInv ==
    /\ free = PoolMaxsize - Cardinality(Calling)
    /\ Cardinality(Admitted) <= Admission

TimeInv ==
    \A t \in Threads :
        /\ pc[t] \in Inside => left[t] + Slack >= 0
        /\ pc[t] \in {"calling", "backoff"} => wait[t] <= left[t] /\ wait[t] + Slack >= 0

TrafficInv ==
    \A t \in Threads :
        /\ retried[t] <= config[t].retries
        /\ sent[t] = IF pc[t] = "calling" THEN retried[t] + 1 ELSE retried[t]
        /\ pc[t] \in {"idle", "service"} => retried[t] = 0

-----------------------------------------------------------------------------
(* Types *)

LEMMA ConfigFields ==
  ASSUME NEW c \in Configs
  PROVE  /\ c.deadline \in Nat \ {0} /\ c.timeout \in Nat \ {0}
         /\ c.retries \in 0..1 /\ c.backoff \in Nat
BY TimeAssumption

LEMMA RaiseType ==
  ASSUME TypeOK, NEW t \in Threads, NEW what \in Outcomes, Raise(t, what)
  PROVE  /\ left' \in [Threads -> Int] /\ pc' \in [Threads -> Inside \cup {"idle"}]
         /\ wait' \in [Threads -> Int] /\ retried' \in [Threads -> 0..1]
         /\ sent' \in [Threads -> Nat] /\ outcome' \in [Threads -> Outcomes]
BY DEF TypeOK, Raise, EndOperation, Goto

LEMMA Min2Type == \A a, b \in Int : Min2(a, b) \in Int /\ Min2(a, b) <= a /\ Min2(a, b) <= b
BY DEF Min2

\* Slots are counted by the threads that call, so a release stays in range.
LEMMA CallingFinite ==
  /\ IsFiniteSet(Calling) /\ IsFiniteSet(Admitted)
  /\ Cardinality(Calling) \in Nat /\ Cardinality(Admitted) \in Nat
<1>1. IsFiniteSet(Calling) /\ IsFiniteSet(Admitted)
  BY PoolAssumption, FS_Subset DEF Calling, Admitted
<1> QED
  BY <1>1, FS_CardinalityType

LEMMA CallingFiniteNext ==
  /\ IsFiniteSet(Calling') /\ IsFiniteSet(Admitted')
  /\ Cardinality(Calling') \in Nat /\ Cardinality(Admitted') \in Nat
<1>1. IsFiniteSet(Calling') /\ IsFiniteSet(Admitted')
  BY PoolAssumption, FS_Subset DEF Calling, Admitted
<1> QED
  BY <1>1, FS_CardinalityType

\* Everything but the range of `free`, which needs the count of slots.
TypeBut ==
    /\ free \in Int
    /\ config \in [Threads -> Configs]
    /\ left \in [Threads -> Int]
    /\ pc \in [Threads -> Inside \cup {"idle"}]
    /\ wait \in [Threads -> Int]
    /\ retried \in [Threads -> 0..1]
    /\ sent \in [Threads -> Nat]
    /\ outcome \in [Threads -> Outcomes]

LEMMA TypeStep == TypeOK /\ TrafficInv /\ [Next]_vars => TypeBut'
<1> SUFFICES ASSUME TypeOK, TrafficInv, [Next]_vars PROVE TypeBut'
  OBVIOUS
<1> USE PoolAssumption, TimeAssumption DEF TypeBut
<1> DEFINE Rest == /\ left' \in [Threads -> Int] /\ pc' \in [Threads -> Inside \cup {"idle"}]
                   /\ wait' \in [Threads -> Int] /\ retried' \in [Threads -> 0..1]
                   /\ sent' \in [Threads -> Nat] /\ outcome' \in [Threads -> Outcomes]
<1>0. \A what \in Failures \cup {"success", "none"} : what \in Outcomes
  BY DEF Outcomes
<1>1. ASSUME NEW t \in Threads, Admit(t) PROVE TypeBut'
  <2>1. PICK c \in Configs : /\ config' = [config EXCEPT ![t] = c]
                             /\ \E rest \in 0..c.deadline : left' = [left EXCEPT ![t] = rest]
    BY <1>1 DEF Admit
  <2>2. 0..c.deadline \subseteq Int
    BY ConfigFields
  <2> QED
    BY <1>1, <2>1, <2>2 DEF Admit, TypeOK, Goto, Inside, Outcomes
<1>2. ASSUME NEW t \in Threads, Ask(t) \/ Serve(t) PROVE TypeBut'
  BY <1>2 DEF Ask, Serve, TypeOK, Goto, Inside, Outcomes
<1>3. ASSUME NEW t \in Threads, Exhausted(t) \/ NoConnection(t) PROVE TypeBut'
  <2>1. "timeout" \in Outcomes /\ "unavailable" \in Outcomes
    BY DEF Outcomes, Failures, SdkErrors, Transient
  <2>2. Rest
    BY <1>3, <2>1, RaiseType DEF Exhausted, NoConnection
  <2> QED
    BY <1>3, <2>2 DEF Exhausted, NoConnection, TypeOK
<1>4. ASSUME NEW t \in Threads, Send(t) PROVE TypeBut'
  <2>1. config[t].timeout \in Int /\ left[t] \in Int
    BY ConfigFields DEF TypeOK
  <2>2. Min2(config[t].timeout, left[t]) \in Int
    BY <2>1, Min2Type
  <2> QED
    BY <1>4, <2>2 DEF Send, TypeOK, Goto, Inside
<1>5. ASSUME NEW t \in Threads, Succeed(t) PROVE TypeBut'
  BY <1>5 DEF Succeed, EndAttempt, EndOperation, TypeOK, Goto, Inside, Outcomes
<1>6. ASSUME NEW t \in Threads, AnswerTooLate(t) \/ Misread(t) \/ GiveUp(t) PROVE TypeBut'
  <2>1. PICK what \in Failures : Raise(t, what)
    BY <1>6 DEF AnswerTooLate, Misread, GiveUp, Failures, SdkErrors, Transient, Unusable
  <2>2. Rest
    BY <1>0, <2>1, RaiseType
  <2>3. EndAttempt(t)
    BY <1>6 DEF AnswerTooLate, Misread, GiveUp
  <2> QED
    BY <2>2, <2>3 DEF EndAttempt, TypeOK
<1>7. ASSUME NEW t \in Threads, Retry(t) PROVE TypeBut'
  <2>1. Backoff(t) \in Int /\ config[t].retries \in 0..1
    BY ConfigFields DEF Backoff, TypeOK
  <2>2. retried[t] < config[t].retries
    BY <1>7 DEF Retry, Retryable
  <2>3. retried[t] + 1 \in 0..1
    BY <2>1, <2>2 DEF TypeOK
  <2> QED
    BY <1>7, <2>1, <2>3 DEF Retry, EndAttempt, TypeOK, Goto, Inside
<1>8. ASSUME NEW t \in Threads, WakeUp(t) PROVE TypeBut'
  BY <1>8 DEF WakeUp, TypeOK, Goto, Inside
<1>9. CASE Tick
  BY <1>9 DEF Tick, TypeOK
<1>10. CASE UNCHANGED vars
  BY <1>10 DEF vars, TypeOK
<1> QED
  BY <1>1, <1>2, <1>3, <1>4, <1>5, <1>6, <1>7, <1>8, <1>9, <1>10 DEF Next, Perform, Attempt

-----------------------------------------------------------------------------
(* The slots and the bulkhead *)

\* A thread that is not calling has an admitted place that takes no slot.
LEMMA SpareSlot ==
  ASSUME TypeOK, SlotsInv, NEW t \in Threads, pc[t] \in Inside, pc[t] # "calling"
  PROVE  free > 0
<1>1. Calling \cup {t} \subseteq Admitted
  BY DEF Calling, Admitted, Inside
<1>2. Cardinality(Calling \cup {t}) = Cardinality(Calling) + 1
  BY CallingFinite, FS_AddElement DEF Calling
<1>3. Cardinality(Calling \cup {t}) <= Cardinality(Admitted)
  BY <1>1, CallingFinite, FS_Subset
<1> QED
  BY <1>2, <1>3, CallingFinite, PoolAssumption DEF SlotsInv

\* A thread that stays inside the bulkhead moves at most one slot.
LEMMA SameCallers ==
  ASSUME TypeOK, SlotsInv, free' = free, Calling' = Calling, Admitted' \subseteq Admitted
  PROVE  SlotsInv'
<1>1. Cardinality(Admitted') <= Cardinality(Admitted)
  BY CallingFinite, FS_Subset
<1> QED
  BY <1>1, CallingFinite, CallingFiniteNext, PoolAssumption DEF SlotsInv

LEMMA OneCallerMore ==
  ASSUME TypeOK, SlotsInv, NEW t, t \notin Calling, free' = free - 1,
         Calling' = Calling \cup {t}, Admitted' = Admitted
  PROVE  SlotsInv'
<1>1. Cardinality(Calling') = Cardinality(Calling) + 1
  BY CallingFinite, FS_AddElement
<1> QED
  BY <1>1, CallingFinite, PoolAssumption DEF SlotsInv, TypeOK

LEMMA OneCallerLess ==
  ASSUME TypeOK, SlotsInv, NEW t, t \in Calling, free' = free + 1,
         Calling' = Calling \ {t}, Admitted' \subseteq Admitted
  PROVE  SlotsInv'
<1>1. Cardinality(Calling') = Cardinality(Calling) - 1
  BY CallingFinite, FS_RemoveElement
<1>2. Cardinality(Admitted') <= Cardinality(Admitted)
  BY CallingFinite, FS_Subset
<1> QED
  BY <1>1, <1>2, CallingFinite, CallingFiniteNext, PoolAssumption DEF SlotsInv, TypeOK

LEMMA SlotsStep == TypeOK /\ SlotsInv /\ [Next]_vars => SlotsInv'
<1> SUFFICES ASSUME TypeOK, SlotsInv, [Next]_vars PROVE SlotsInv'
  OBVIOUS
<1> USE DEF Inside, Goto
<1>1. ASSUME NEW t \in Threads, Admit(t) PROVE SlotsInv'
  <2>1. Calling' = Calling
    BY <1>1 DEF Admit, Calling, TypeOK
  <2>2. Admitted' = Admitted \cup {t}
    BY <1>1 DEF Admit, Admitted, TypeOK
  <2>3. Cardinality(Admitted') <= Cardinality(Admitted) + 1
    <3>1. t \notin Admitted
      BY <1>1 DEF Admit, Admitted
    <3>2. Cardinality(Admitted \cup {t}) = Cardinality(Admitted) + 1
      BY <3>1, CallingFinite, FS_AddElement
    <3> QED
      BY <2>2, <3>2, CallingFinite
  <2>4. Cardinality(Admitted') <= Admission
    BY <1>1, <2>3, CallingFinite, CallingFiniteNext, PoolAssumption DEF Admit
  <2> QED
    BY <1>1, <2>1, <2>4 DEF Admit, SlotsInv
<1>2. ASSUME NEW t \in Threads, Ask(t) \/ Serve(t) \/ Exhausted(t) \/ NoConnection(t) \/ WakeUp(t)
      PROVE  SlotsInv'
  <2>1. Calling' = Calling /\ Admitted' \subseteq Admitted
    BY <1>2 DEF Ask, Serve, Exhausted, NoConnection, WakeUp, Raise, EndOperation,
                Calling, Admitted, TypeOK
  <2>2. free' = free
    BY <1>2 DEF Ask, Serve, Exhausted, NoConnection, WakeUp
  <2> QED
    BY <2>1, <2>2, SameCallers
<1>3. ASSUME NEW t \in Threads, Send(t) PROVE SlotsInv'
  <2>1. Calling' = Calling \cup {t} /\ Admitted' = Admitted /\ t \notin Calling
    BY <1>3 DEF Send, Calling, Admitted, TypeOK
  <2> QED
    BY <1>3, <2>1, OneCallerMore DEF Send
<1>4. ASSUME NEW t \in Threads,
             Succeed(t) \/ AnswerTooLate(t) \/ Misread(t) \/ GiveUp(t) \/ Retry(t)
      PROVE  SlotsInv'
  <2>1. EndAttempt(t)
    BY <1>4 DEF Succeed, AnswerTooLate, Misread, GiveUp, Retry
  <2>2. \E stage \in {"service", "idle", "backoff"} : pc' = [pc EXCEPT ![t] = stage]
    BY <1>4 DEF Succeed, AnswerTooLate, Misread, GiveUp, Retry, Raise, EndOperation
  <2>3. Calling' = Calling \ {t} /\ Admitted' \subseteq Admitted /\ t \in Calling
    BY <2>1, <2>2 DEF EndAttempt, Calling, Admitted, TypeOK
  <2> QED
    BY <2>1, <2>3, OneCallerLess DEF EndAttempt
<1>5. CASE Tick \/ UNCHANGED vars
  <2>1. Calling' = Calling /\ Admitted' = Admitted /\ free' = free
    BY <1>5 DEF Tick, vars, Calling, Admitted
  <2> QED
    BY <2>1, SameCallers
<1> QED
  BY <1>1, <1>2, <1>3, <1>4, <1>5 DEF Next, Perform, Attempt

-----------------------------------------------------------------------------
(* Time and traffic *)

LEMMA TimeStep == TypeOK /\ TimeInv /\ [Next]_vars => TimeInv'
<1> SUFFICES ASSUME TypeOK, TimeInv, [Next]_vars PROVE TimeInv'
  OBVIOUS
<1> USE TimeAssumption DEF TypeOK, TimeInv, Inside, Goto
<1>1. ASSUME NEW t \in Threads, Admit(t) PROVE TimeInv'
  <2>1. PICK c \in Configs : \E rest \in 0..c.deadline : left' = [left EXCEPT ![t] = rest]
    BY <1>1 DEF Admit
  <2>2. left'[t] >= 0 /\ left'[t] \in Int
    BY <2>1, ConfigFields
  <2> QED
    BY <1>1, <2>1, <2>2 DEF Admit
<1>2. ASSUME NEW t \in Threads, Ask(t) \/ Serve(t) \/ WakeUp(t) PROVE TimeInv'
  BY <1>2 DEF Ask, Serve, WakeUp
<1>3. ASSUME NEW t \in Threads, Exhausted(t) \/ NoConnection(t) \/ AnswerTooLate(t)
                                  \/ Misread(t) \/ GiveUp(t)
      PROVE  TimeInv'
  <2>1. \E what \in Outcomes : Raise(t, what)
    BY <1>3 DEF Exhausted, NoConnection, AnswerTooLate, Misread, GiveUp,
                Outcomes, Failures, SdkErrors, Transient, Unusable
  <2> QED
    BY <2>1 DEF Raise, EndOperation
<1>4. ASSUME NEW t \in Threads, Send(t) PROVE TimeInv'
  <2>1. config[t].timeout \in Nat \ {0}
    BY ConfigFields
  <2>2. wait'[t] <= left[t] /\ wait'[t] > 0 /\ wait'[t] \in Int
    BY <1>4, <2>1 DEF Send, Min2
  <2> QED
    BY <1>4, <2>2 DEF Send
<1>5. ASSUME NEW t \in Threads, Succeed(t) PROVE TimeInv'
  BY <1>5 DEF Succeed, EndOperation
<1>6. ASSUME NEW t \in Threads, Retry(t) PROVE TimeInv'
  <2>1. config[t].backoff \in Nat
    BY ConfigFields
  <2> QED
    BY <1>6, <2>1 DEF Retry, Backoff
<1>7. CASE Tick
  BY <1>7 DEF Tick, MayWait, Admitted
<1>8. CASE UNCHANGED vars
  BY <1>8 DEF vars
<1> QED
  BY <1>1, <1>2, <1>3, <1>4, <1>5, <1>6, <1>7, <1>8 DEF Next, Perform, Attempt

LEMMA TrafficStep == TypeOK /\ TrafficInv /\ [Next]_vars => TrafficInv'
<1> SUFFICES ASSUME TypeOK, TrafficInv, [Next]_vars PROVE TrafficInv'
  OBVIOUS
<1> USE DEF TypeOK, TrafficInv, Inside, Goto
<1>1. ASSUME NEW t \in Threads, Admit(t) PROVE TrafficInv'
  <2>1. PICK c \in Configs : config' = [config EXCEPT ![t] = c]
    BY <1>1 DEF Admit
  <2>2. c.retries >= 0
    BY ConfigFields
  <2> QED
    BY <1>1, <2>1, <2>2 DEF Admit
<1>2. ASSUME NEW t \in Threads, Ask(t) \/ Serve(t) \/ WakeUp(t) \/ Send(t) PROVE TrafficInv'
  BY <1>2 DEF Ask, Serve, WakeUp, Send
<1>3. ASSUME NEW t \in Threads, NEW what, NEW stage \in {"service", "idle"},
             EndOperation(t, what, stage), config' = config
      PROVE  TrafficInv'
  <2>1. config[t].retries >= 0
    BY ConfigFields
  <2> QED
    BY <1>3, <2>1 DEF EndOperation
<1>4. ASSUME NEW t \in Threads, Exhausted(t) \/ NoConnection(t) \/ AnswerTooLate(t)
                                  \/ Misread(t) \/ GiveUp(t) \/ Succeed(t)
      PROVE  TrafficInv'
  <2>1. \E what, stage : stage \in {"service", "idle"} /\ EndOperation(t, what, stage)
    BY <1>4 DEF Exhausted, NoConnection, AnswerTooLate, Misread, GiveUp, Succeed, Raise
  <2>2. config' = config
    BY <1>4 DEF Exhausted, NoConnection, AnswerTooLate, Misread, GiveUp, Succeed, EndAttempt
  <2> QED
    BY <1>3, <2>1, <2>2
<1>5. ASSUME NEW t \in Threads, Retry(t) PROVE TrafficInv'
  <2>1. config[t].retries \in 0..1
    BY ConfigFields
  <2> QED
    BY <1>5, <2>1 DEF Retry, Retryable, EndAttempt
<1>6. CASE Tick \/ UNCHANGED vars
  BY <1>6 DEF Tick, vars
<1> QED
  BY <1>1, <1>2, <1>4, <1>5, <1>6 DEF Next, Perform, Attempt

-----------------------------------------------------------------------------
IInv == TypeOK /\ SlotsInv /\ TimeInv /\ TrafficInv

\* The counts of the slots bound `free`.
LEMMA FreeInRange ==
  ASSUME TypeBut', SlotsInv'
  PROVE  free' \in 0..PoolMaxsize
<1>1. Calling' \subseteq Admitted'
  BY DEF Calling, Admitted, Inside
<1>2. Cardinality(Calling') <= Cardinality(Admitted')
  BY <1>1, CallingFiniteNext, FS_Subset
<1> QED
  BY <1>2, CallingFiniteNext, PoolAssumption DEF SlotsInv

LEMMA Invariant == Spec => []IInv
<1>1. Init => IInv
  <2> SUFFICES ASSUME Init PROVE IInv
    OBVIOUS
  <2>1. TypeOK
    BY PoolAssumption DEF Init, TypeOK, Inside, Outcomes
  <2>2. Calling = {} /\ Admitted = {}
    BY DEF Init, Calling, Admitted, Inside
  <2>3. SlotsInv
    BY <2>2, FS_EmptySet, PoolAssumption DEF Init, SlotsInv
  <2>4. TimeInv
    BY DEF Init, TimeInv, Inside
  <2>5. TrafficInv
    BY ConfigFields DEF Init, TrafficInv
  <2> QED
    BY <2>1, <2>3, <2>4, <2>5 DEF IInv
<1>2. IInv /\ [Next]_vars => IInv'
  <2> SUFFICES ASSUME IInv, [Next]_vars PROVE IInv'
    OBVIOUS
  <2>1. TypeBut' /\ SlotsInv' /\ TimeInv' /\ TrafficInv'
    BY TypeStep, SlotsStep, TimeStep, TrafficStep DEF IInv
  <2>2. TypeOK'
    BY <2>1, FreeInRange DEF TypeBut, TypeOK
  <2> QED
    BY <2>1, <2>2 DEF IInv
<1> QED
  BY <1>1, <1>2, PTL DEF Spec

\* Every variable keeps its type; in particular the semaphore of the client
\* never goes below zero or above its capacity.
THEOREM CallTypes == Spec => []TypeOK
BY Invariant, PTL DEF IInv

\* With a pool as large as the bulkhead no admitted request is refused for a
\* full pool, whatever the calls of the others come to.
THEOREM PoolIsNeverFull == Spec => []AdmittedFindAConnection
<1>1. IInv => AdmittedFindAConnection
  BY SpareSlot DEF IInv, AdmittedFindAConnection, Inside
<1> QED
  BY <1>1, Invariant, PTL

\* The attempts, the back-offs and the retries of all operations of a request
\* fit into its deadline.
THEOREM DeadlinesHold == Spec => []NoneOutlivesItsDeadline
<1>1. IInv => NoneOutlivesItsDeadline
  BY DEF IInv, TimeInv, NoneOutlivesItsDeadline, Admitted
<1> QED
  BY <1>1, Invariant, PTL

\* An operation sends at most one attempt more than the retries its request
\* was allowed at ingress.
THEOREM TrafficStaysBounded == Spec => []TrafficIsBounded
<1>1. IInv => TrafficIsBounded
  <2> SUFFICES ASSUME IInv, NEW t \in Threads PROVE sent[t] <= 1 + config[t].retries
    BY DEF TrafficIsBounded
  <2>1. config[t].retries \in 0..1
    BY ConfigFields DEF IInv, TypeOK
  <2> QED
    BY <2>1 DEF IInv, TypeOK, TrafficInv
<1> QED
  BY <1>1, Invariant, PTL

\* An operation fails as unavailable only by the last attempt its request was
\* allowed: the slots leave no thread without one, and the count of attempts
\* starts anew with every operation.
THEOREM UnavailableWhenTried == Spec => UnavailableOnlyWhenTried
<1>1. IInv /\ [Next]_vars =>
        [\A t \in Threads :
            outcome[t] # "unavailable" /\ outcome'[t] = "unavailable"
            => sent[t] = 1 + config[t].retries]_vars
  <2> SUFFICES ASSUME IInv, [Next]_vars, NEW t \in Threads,
                      outcome[t] # "unavailable", outcome'[t] = "unavailable"
               PROVE  sent[t] = 1 + config[t].retries
    OBVIOUS
  <2> USE DEF IInv, TypeOK
  \* Only the thread whose operation fails so records it.
  <2>1. ASSUME NEW u \in Threads, NEW what, NEW stage, EndOperation(u, what, stage)
        PROVE  u = t /\ what = "unavailable"
    BY <2>1 DEF EndOperation
  <2>2. ASSUME NEW u \in Threads, Perform(u) PROVE sent[t] = 1 + config[t].retries
    <3>1. CASE Exhausted(u) \/ AnswerTooLate(u) \/ Succeed(u) \/ Misread(u)
      BY <2>1, <3>1 DEF Exhausted, AnswerTooLate, Succeed, Misread, Raise, Unusable
    <3>2. CASE Attempt(u)
      <4>1. ~ NoConnection(u)
        BY SpareSlot DEF NoConnection, Inside
      <4> QED
        BY <3>2, <4>1 DEF Attempt, Send
    <3>3. CASE GiveUp(u)
      <4>1. pc[u] = "calling"
        BY <3>3 DEF GiveUp, EndAttempt
      <4>2. PICK failure \in SdkErrors :
                 \/ ~ Retryable(u, failure) /\ Raise(u, failure)
                 \/ Raise(u, "timeout")
        BY <3>3 DEF GiveUp
      <4>3. u = t /\ failure = "unavailable" /\ ~ Retryable(u, failure)
        BY <2>1, <4>2 DEF Raise
      <4>4. retried[t] >= config[t].retries /\ config[t].retries \in 0..1
        BY <4>3, ConfigFields DEF Retryable, Transient
      <4> QED
        BY <4>1, <4>3, <4>4 DEF TrafficInv
    <3>4. CASE Retry(u) \/ WakeUp(u)
      BY <3>4 DEF Retry, WakeUp
    <3> QED
      BY <2>2, <3>1, <3>2, <3>3, <3>4 DEF Perform
  <2>3. CASE \E u \in Threads : Admit(u) \/ Ask(u) \/ Serve(u)
    BY <2>3 DEF Admit, Ask, Serve
  <2>4. CASE Tick \/ UNCHANGED vars
    BY <2>4 DEF Tick, vars
  <2> QED
    BY <2>2, <2>3, <2>4 DEF Next
<1> QED
  BY <1>1, Invariant, PTL DEF Spec, UnavailableOnlyWhenTried

-----------------------------------------------------------------------------
(* Slots *)

LEMMA SlotMoves ==
  /\ \A t \in Threads :
        /\ t \notin Admitted /\ Cardinality(Admitted) < Admission
        /\ Admitted' = Admitted \cup {t}
        => AdmissionSlots!Next
  /\ \A t \in Threads :
        t \in Admitted /\ Admitted' = Admitted \ {t} => AdmissionSlots!Next
  /\ \A t \in Threads :
        /\ t \notin Calling /\ Cardinality(Calling) < PoolMaxsize
        /\ Calling' = Calling \cup {t}
        => ClientSlots!Next
  /\ \A t \in Threads :
        t \in Calling /\ Calling' = Calling \ {t} => ClientSlots!Next
<1>1. ASSUME NEW t \in Threads, t \notin Admitted, Cardinality(Admitted) < Admission,
             Admitted' = Admitted \cup {t}
      PROVE  AdmissionSlots!Next
  BY <1>1 DEF AdmissionSlots!Next, AdmissionSlots!Take, AdmissionSlots!Cardinality, Cardinality
<1>2. ASSUME NEW t \in Threads, t \in Admitted, Admitted' = Admitted \ {t}
      PROVE  AdmissionSlots!Next
  BY <1>2 DEF AdmissionSlots!Next, AdmissionSlots!Give
<1>3. ASSUME NEW t \in Threads, t \notin Calling, Cardinality(Calling) < PoolMaxsize,
             Calling' = Calling \cup {t}
      PROVE  ClientSlots!Next
  BY <1>3 DEF ClientSlots!Next, ClientSlots!Take, ClientSlots!Cardinality, Cardinality
<1>4. ASSUME NEW t \in Threads, t \in Calling, Calling' = Calling \ {t}
      PROVE  ClientSlots!Next
  BY <1>4 DEF ClientSlots!Next, ClientSlots!Give
<1> QED
  BY <1>1, <1>2, <1>3, <1>4

\* Only Admit and the end of a request move the holders of the bulkhead.
LEMMA AdmissionStep ==
  ASSUME TypeOK, [Next]_vars
  PROVE  [AdmissionSlots!Next]_Admitted
<1> USE DEF Inside, Goto
<1>1. ASSUME NEW t \in Threads, Admit(t) PROVE AdmissionSlots!Next
  <2>1. /\ t \notin Admitted /\ Cardinality(Admitted) < Admission
        /\ Admitted' = Admitted \cup {t}
    BY <1>1 DEF Admit, Admitted, TypeOK
  <2> QED
    BY <2>1, SlotMoves
<1>2. ASSUME NEW t \in Threads, pc[t] \in Inside,
             \E stage \in Inside \cup {"idle"} : pc' = [pc EXCEPT ![t] = stage]
      PROVE  [AdmissionSlots!Next]_Admitted
  <2>1. PICK stage \in Inside \cup {"idle"} : pc' = [pc EXCEPT ![t] = stage]
    BY <1>2
  <2>2. CASE stage = "idle"
    <3>1. t \in Admitted /\ Admitted' = Admitted \ {t}
      BY <1>2, <2>1, <2>2 DEF Admitted, TypeOK
    <3> QED
      BY <3>1, SlotMoves
  <2>3. CASE stage # "idle"
    <3>1. Admitted' = Admitted
      BY <1>2, <2>1, <2>3 DEF Admitted, TypeOK
    <3> QED
      BY <3>1
  <2> QED
    BY <2>2, <2>3
<1>3. ASSUME NEW t \in Threads, Ask(t) \/ Serve(t) \/ Perform(t)
      PROVE  [AdmissionSlots!Next]_Admitted
  <2>1. pc[t] \in Inside /\ \E stage \in Inside \cup {"idle"} : pc' = [pc EXCEPT ![t] = stage]
    BY <1>3
       DEF Ask, Serve, Perform, Exhausted, Attempt, NoConnection, Send, Succeed, AnswerTooLate,
           Misread, GiveUp, Retry, WakeUp, Raise, EndOperation, EndAttempt
  <2> QED
    BY <1>2, <2>1
<1>4. CASE Tick \/ UNCHANGED vars
  <2>1. Admitted' = Admitted
    BY <1>4 DEF Tick, vars, Admitted
  <2> QED
    BY <2>1
<1> QED
  BY <1>1, <1>3, <1>4 DEF Next

\* Only Send and the end of an attempt move those of the client's slots.
LEMMA ClientStep ==
  ASSUME TypeOK, SlotsInv, [Next]_vars
  PROVE  [ClientSlots!Next]_Calling
<1> USE DEF Inside, Goto
<1>1. ASSUME NEW t \in Threads, Send(t) PROVE ClientSlots!Next
  <2>1. t \notin Calling /\ Calling' = Calling \cup {t}
    BY <1>1 DEF Send, Calling, TypeOK
  <2>2. free = PoolMaxsize - Cardinality(Calling) /\ free > 0
    BY <1>1 DEF Send, SlotsInv
  <2>3. Cardinality(Calling) < PoolMaxsize
    BY <2>2, CallingFinite, PoolAssumption
  <2> QED
    BY <2>1, <2>3, SlotMoves
<1>2. ASSUME NEW t \in Threads,
             Succeed(t) \/ AnswerTooLate(t) \/ Misread(t) \/ GiveUp(t) \/ Retry(t)
      PROVE  ClientSlots!Next
  <2>1. EndAttempt(t)
    BY <1>2 DEF Succeed, AnswerTooLate, Misread, GiveUp, Retry
  <2>2. \E stage \in {"service", "idle", "backoff"} : pc' = [pc EXCEPT ![t] = stage]
    BY <1>2 DEF Succeed, AnswerTooLate, Misread, GiveUp, Retry, Raise, EndOperation
  <2>3. t \in Calling /\ Calling' = Calling \ {t}
    BY <2>1, <2>2 DEF EndAttempt, Calling, TypeOK
  <2> QED
    BY <2>3, SlotMoves
<1>3. ASSUME NEW t \in Threads,
             \/ Admit(t) \/ Ask(t) \/ Serve(t) \/ Exhausted(t) \/ NoConnection(t) \/ WakeUp(t)
      PROVE  Calling' = Calling
  BY <1>3 DEF Admit, Ask, Serve, Exhausted, NoConnection, WakeUp, Raise, EndOperation,
              Calling, TypeOK
<1>4. CASE Tick \/ UNCHANGED vars
  BY <1>4 DEF Tick, vars, Calling
<1> QED
  BY <1>1, <1>2, <1>3, <1>4 DEF Next, Perform, Attempt

\* Calls respect two limiters, the bulkhead's and the client's: the first is what module
\* Bulkhead implements, and nobody waits at the second (_perform, validate_bulkhead_capacity).
THEOREM CallsAreLimited == Spec => CallsHoldSlots
<1>1. Init => AdmissionSlots!Init /\ ClientSlots!Init
  BY DEF Init, Admitted, Calling, Inside, AdmissionSlots!Init, ClientSlots!Init
<1>2. IInv /\ [Next]_vars => [AdmissionSlots!Next]_Admitted /\ [ClientSlots!Next]_Calling
  BY AdmissionStep, ClientStep DEF IInv
<1> QED
  BY <1>1, <1>2, Invariant, PTL
     DEF Spec, CallsHoldSlots, AdmissionSlots!Spec, ClientSlots!Spec
=============================================================================
