----------------------- MODULE DeadlineConnectionProofs -----------------------
(***************************************************************************)
(* What TLAPS proves of DeadlineConnection, for any number of threads and  *)
(* of resolver slots: slots are neither lost nor doubled, and the pool is  *)
(* given sound sockets only.                                               *)
(*                                                                         *)
(* A slot changes hands as a thread passes from "slot" to "start" and a    *)
(* worker from running to ended or left behind; so the invariant says who  *)
(* has a worker (a thread in "resolving") and counts the holders.  For the *)
(* sockets it says that a timer is off between the phases, and that a shut *)
(* socket implies the event its timer set, which Check looks at.           *)
(***************************************************************************)
EXTENDS DeadlineConnection, FiniteSetTheorems, TLAPS

Stages == {"idle", "begin", "slot", "start", "resolving", "addresses", "dial",
           "connecting", "talking", "returned", "raised", "check", "final"}

Types ==
    /\ slots \in Nat
    /\ orphans \in Nat
    /\ worker \in [Threads -> {"none", "running", "resolved", "failed"}]
    /\ sock \in [Threads -> {"none", "open", "shut"}]
    /\ phase \in [Threads -> {"none", "request", "response"}]
    /\ at \in [Threads -> Stages]
    /\ timer \in [Threads -> {"off", "armed", "firing", "fired"}]
    /\ result \in [Threads -> {"none", "ok", "error", "timeout"}]

Flags ==
    /\ late \in [Threads -> BOOLEAN]
    /\ target \in [Threads -> BOOLEAN]
    /\ expired \in [Threads -> BOOLEAN]

WorkersAreAwaited == \A t \in Threads : worker[t] # "none" => at[t] = "resolving"

ResolverInv == WorkersAreAwaited /\ ResolverSlotsAreConserved

SocketInv == \A t \in Threads :
    /\ at[t] \in {"idle", "begin", "check", "final"} => timer[t] = "off"
    /\ at[t] \in {"idle", "begin", "final"} => sock[t] # "shut"
    /\ timer[t] \in {"firing", "fired"} \/ sock[t] = "shut" => expired[t]
    /\ at[t] = "idle" /\ sock[t] = "open" => result[t] = "ok"

Inv == Types /\ Flags /\ ResolverInv /\ SocketInv

-----------------------------------------------------------------------------
(* Types *)

LEMMA FailTypes ==
  ASSUME Types, Flags, NEW t \in Threads, Fail(t)
  PROVE  /\ at' = [at EXCEPT ![t] = "raised"] /\ UNCHANGED <<phase, late, timer>>
         /\ result' \in [Threads -> {"none", "ok", "error", "timeout"}]
         /\ sock' \in [Threads -> {"none", "open", "shut"}]
         /\ expired' \in [Threads -> BOOLEAN]
         /\ \A u \in Threads : u # t =>
               /\ result'[u] = result[u] /\ sock'[u] = sock[u] /\ expired'[u] = expired[u]
         /\ result'[t] # "ok"
         /\ sock'[t] = "shut" => expired'[t] \/ sock[t] = "shut"
         /\ expired[t] => expired'[t]
<1>0. at' = [at EXCEPT ![t] = "raised"] /\ UNCHANGED <<phase, late, timer>>
  BY DEF Fail, Goto
<1>1. CASE expired[t] \/ late[t]
  <2>1. /\ result' = [result EXCEPT ![t] = "timeout"]
        /\ expired' = [expired EXCEPT ![t] = TRUE]
        /\ sock' = [sock EXCEPT ![t] = IF @ = "none" THEN @ ELSE "shut"]
    BY <1>1 DEF Fail
  <2> QED
    BY <1>0, <2>1 DEF Types, Flags
<1>2. CASE ~ (expired[t] \/ late[t])
  <2>1. result' = [result EXCEPT ![t] = "error"] /\ UNCHANGED <<expired, sock>>
    BY <1>2 DEF Fail
  <2> QED
    BY <1>0, <2>1 DEF Types, Flags
<1> QED
  BY <1>1, <1>2

LEMMA TypesStep ==
  ASSUME Types, Flags, [Next]_vars
  PROVE  Types' /\ Flags'
<1> USE DEF Types, Flags, Stages, resolver, timers, Goto, Abandon
<1>1. CASE OrphanEnds
  BY <1>1 DEF OrphanEnds
<1>2. ASSUME NEW t \in Threads, Start(t) \/ Drop(t)
      PROVE  Types' /\ Flags'
  BY <1>2 DEF Start, Drop
<1>3. ASSUME NEW t \in Threads, Expire(t) PROVE Types' /\ Flags'
  BY <1>3 DEF Expire
<1>4. ASSUME NEW t \in Threads, Fire(t) PROVE Types' /\ Flags'
  <2>1. target' = [target EXCEPT ![t] = sock[t] # "none"]
    BY <1>4 DEF Fire
  <2>2. target' \in [Threads -> BOOLEAN]
    BY <2>1
  <2> QED
    BY <1>4, <2>2 DEF Fire
<1>5. ASSUME NEW t \in Threads, Abort(t) PROVE Types' /\ Flags'
  BY <1>5 DEF Abort
<1>6. ASSUME NEW t \in Threads, TooLate(t) \/ Check(t) \/ Deliver(t)
      PROVE  Types' /\ Flags'
  <2>1. CASE TooLate(t)
    BY <2>1 DEF TooLate
  <2>2. CASE Check(t)
    BY <2>2 DEF Check
  <2>3. CASE Deliver(t)
    BY <2>3 DEF Deliver
  <2> QED
    BY <1>6, <2>1, <2>2, <2>3
<1>14. ASSUME NEW t \in Threads, Begin(t) PROVE Types' /\ Flags'
  <2>1. at'[t] \in {"slot", "talking"} /\ at' = [at EXCEPT ![t] = at'[t]]
    BY <1>14 DEF Begin
  <2>2. at' \in [Threads -> Stages]
    BY <2>1
  <2> QED
    BY <1>14, <2>2 DEF Begin
<1>7. ASSUME NEW t \in Threads, EndTimer(t) PROVE Types' /\ Flags'
  BY <1>7 DEF EndTimer
<1>8. ASSUME NEW t \in Threads, TakeSlot(t) PROVE Types' /\ Flags'
  BY <1>8 DEF TakeSlot
<1>9. ASSUME NEW t \in Threads, Fail(t), UNCHANGED target,
             slots' \in Nat, orphans' \in Nat,
             worker' \in [Threads -> {"none", "running", "resolved", "failed"}]
      PROVE  Types' /\ Flags'
  BY <1>9, FailTypes
<1>10. ASSUME NEW t \in Threads,
              \/ MissSlot(t) \/ StartFails(t) \/ Unresolved(t) \/ LeaveWorker(t)
              \/ NoTimeForAddress(t) \/ TalkFails(t)
       PROVE  Types' /\ Flags'
  BY <1>9, <1>10 DEF MissSlot, StartFails, Unresolved, LeaveWorker, NoTimeForAddress, TalkFails
<1>11. ASSUME NEW t \in Threads,
              \/ StartWorker(t) \/ Resolved(t) \/ NextAddress(t) \/ Dial(t)
              \/ Connected(t) \/ Talk(t)
       PROVE  Types' /\ Flags'
  BY <1>11 DEF StartWorker, Resolved, NextAddress, Dial, Connected, Talk
<1>15. ASSUME NEW t \in Threads, TryNext(t) PROVE Types' /\ Flags'
  BY <1>15 DEF TryNext
<1>16. ASSUME NEW t \in Threads, WorkerEnds(t) PROVE Types' /\ Flags'
  <2>1. PICK what \in {"resolved", "failed"} : worker' = [worker EXCEPT ![t] = what]
    BY <1>16 DEF WorkerEnds
  <2> QED
    BY <1>16, <2>1 DEF WorkerEnds
<1>12. ASSUME NEW t \in Threads, ConnectFails(t) PROVE Types' /\ Flags'
  <2>1. expired' = [expired EXCEPT ![t] = @ \/ late[t]]
    BY <1>12 DEF ConnectFails
  <2>2. expired' \in [Threads -> BOOLEAN]
    BY <2>1
  <2> QED
    BY <1>12, <2>2 DEF ConnectFails
<1>13. CASE UNCHANGED vars
  BY <1>13 DEF vars
<1> QED
  BY <1>1, <1>2, <1>3, <1>4, <1>5, <1>6, <1>7, <1>8, <1>10, <1>11, <1>12, <1>13,
     <1>14, <1>15, <1>16
     DEF Next, Own, Network

-----------------------------------------------------------------------------
(* Resolver slots *)

Holds(t) == at[t] = "start" \/ worker[t] = "running"

LEMMA HoldersFinite == IsFiniteSet(SlotHolders) /\ Cardinality(SlotHolders) \in Nat
<1>1. IsFiniteSet(SlotHolders)
  BY ResolverAssumption, FS_Subset DEF SlotHolders
<1> QED
  BY <1>1, FS_CardinalityType

\* A thread comes to hold a slot, or to hold none any more.
LEMMA HolderMore ==
  ASSUME NEW t \in Threads, ~ Holds(t), Holds(t)',
         \A u \in Threads : u # t => (Holds(u)' <=> Holds(u))
  PROVE  Cardinality(SlotHolders') = Cardinality(SlotHolders) + 1
<1>1. SlotHolders' = SlotHolders \cup {t} /\ t \notin SlotHolders
  BY DEF SlotHolders, Holds
<1> QED
  BY <1>1, HoldersFinite, FS_AddElement

LEMMA HolderLess ==
  ASSUME NEW t \in Threads, Holds(t), ~ Holds(t)',
         \A u \in Threads : u # t => (Holds(u)' <=> Holds(u))
  PROVE  Cardinality(SlotHolders') = Cardinality(SlotHolders) - 1
<1>1. SlotHolders' = SlotHolders \ {t} /\ t \in SlotHolders
  BY DEF SlotHolders, Holds
<1> QED
  BY <1>1, HoldersFinite, FS_RemoveElement

LEMMA HoldersSame ==
  ASSUME \A u \in Threads : Holds(u)' <=> Holds(u)
  PROVE  SlotHolders' = SlotHolders
BY DEF SlotHolders, Holds

\* What moves one thread between stages that are not about the resolver.
LEMMA ElsewhereStep ==
  ASSUME Types, ResolverInv, UNCHANGED resolver, NEW t \in Threads, worker[t] = "none",
         at[t] # "start", at'[t] # "start", \A u \in Threads : u # t => at'[u] = at[u]
  PROVE  ResolverInv'
<1>1. \A u \in Threads : Holds(u)' <=> Holds(u)
  BY DEF Holds, resolver
<1>2. SlotHolders' = SlotHolders
  BY <1>1, HoldersSame
<1>3. WorkersAreAwaited'
  BY DEF WorkersAreAwaited, ResolverInv, resolver
<1> QED
  BY <1>2, <1>3 DEF ResolverInv, ResolverSlotsAreConserved, resolver

LEMMA ResolverStep ==
  ASSUME Types, Flags, ResolverInv, [Next]_vars
  PROVE  ResolverInv'
<1> USE ResolverAssumption DEF ResolverInv
<1> DEFINE count == Cardinality(SlotHolders)
<1>0. count \in Nat /\ slots + orphans + count = ResolverSlots /\ slots \in Nat /\ orphans \in Nat
  BY HoldersFinite DEF ResolverSlotsAreConserved, Types
<1>1. CASE OrphanEnds
  <2>1. orphans' = orphans - 1 /\ slots' = slots + 1 /\ UNCHANGED <<at, worker>>
    BY <1>1 DEF OrphanEnds
  <2>2. SlotHolders' = SlotHolders
    BY <2>1 DEF SlotHolders
  <2> QED
    BY <1>0, <2>1, <2>2 DEF ResolverSlotsAreConserved, WorkersAreAwaited
<1>2. ASSUME UNCHANGED <<resolver, at>> PROVE ResolverInv'
  BY <1>2 DEF ResolverSlotsAreConserved, WorkersAreAwaited, SlotHolders, resolver
<1>3. ASSUME NEW t \in Threads, Expire(t) \/ Drop(t) \/ Fire(t) \/ Abort(t) PROVE ResolverInv'
  BY <1>2, <1>3 DEF Expire, Drop, Fire, Abort
<1>4. ASSUME NEW t \in Threads,
             \/ Start(t) \/ TooLate(t) \/ Begin(t) \/ EndTimer(t) \/ Check(t) \/ Deliver(t)
             \/ MissSlot(t) \/ NoTimeForAddress(t) \/ TalkFails(t) \/ ConnectFails(t)
             \/ NextAddress(t) \/ Dial(t) \/ Connected(t) \/ TryNext(t) \/ Talk(t)
      PROVE  ResolverInv'
  <2>1. /\ UNCHANGED resolver
        /\ at[t] \notin {"start", "resolving"}
    BY <1>4 DEF Start, TooLate, Begin, EndTimer, Check, Deliver, MissSlot, NoTimeForAddress,
                TalkFails, ConnectFails, NextAddress, Dial, Connected, TryNext, Talk
  <2>2. at'[t] # "start" /\ \A u \in Threads : u # t => at'[u] = at[u]
    BY <1>4 DEF Start, TooLate, Begin, EndTimer, Check, Deliver, MissSlot, NoTimeForAddress,
                TalkFails, ConnectFails, NextAddress, Dial, Connected, TryNext, Talk, Abandon,
                Fail, Goto, Types
  <2>3. worker[t] = "none"
    BY <2>1 DEF WorkersAreAwaited
  <2> QED
    BY <2>1, <2>2, <2>3, ElsewhereStep
<1>5. ASSUME NEW t \in Threads, TakeSlot(t) PROVE ResolverInv'
  <2>1. /\ slots' = slots - 1 /\ UNCHANGED <<orphans, worker>>
        /\ at[t] = "slot" /\ at' = [at EXCEPT ![t] = "start"]
    BY <1>5 DEF TakeSlot, Goto
  <2>2. worker[t] = "none"
    BY <2>1 DEF WorkersAreAwaited
  <2>3. Cardinality(SlotHolders') = count + 1
    BY <2>1, <2>2, HolderMore DEF Holds, Types
  <2>4. WorkersAreAwaited'
    BY <2>1, <2>2 DEF WorkersAreAwaited, Types
  <2> QED
    BY <1>0, <2>1, <2>3, <2>4 DEF ResolverSlotsAreConserved
<1>6. ASSUME NEW t \in Threads, StartWorker(t) PROVE ResolverInv'
  <2>1. /\ UNCHANGED <<slots, orphans>> /\ worker' = [worker EXCEPT ![t] = "running"]
        /\ at[t] = "start" /\ at' = [at EXCEPT ![t] = "resolving"]
    BY <1>6 DEF StartWorker, Goto
  <2>2. SlotHolders' = SlotHolders
    BY <2>1, HoldersSame DEF Holds, Types
  <2>3. WorkersAreAwaited'
    BY <2>1 DEF WorkersAreAwaited, Types
  <2> QED
    BY <2>1, <2>2, <2>3 DEF ResolverSlotsAreConserved
<1>7. ASSUME NEW t \in Threads, StartFails(t) PROVE ResolverInv'
  <2>1. /\ slots' = slots + 1 /\ UNCHANGED <<orphans, worker>>
        /\ at[t] = "start" /\ at' = [at EXCEPT ![t] = "raised"]
    BY <1>7 DEF StartFails, Fail, Goto
  <2>2. worker[t] = "none"
    BY <2>1 DEF WorkersAreAwaited
  <2>3. Cardinality(SlotHolders') = count - 1
    BY <2>1, <2>2, HolderLess DEF Holds, Types
  <2>4. WorkersAreAwaited'
    BY <2>1, <2>2 DEF WorkersAreAwaited, Types
  <2> QED
    BY <1>0, <2>1, <2>3, <2>4 DEF ResolverSlotsAreConserved
<1>8. ASSUME NEW t \in Threads, WorkerEnds(t) PROVE ResolverInv'
  <2>1. PICK what \in {"resolved", "failed"} : worker' = [worker EXCEPT ![t] = what]
    BY <1>8 DEF WorkerEnds
  <2>2. slots' = slots + 1 /\ UNCHANGED <<orphans, at>> /\ worker[t] = "running"
    BY <1>8 DEF WorkerEnds
  <2>3. at[t] = "resolving"
    BY <2>2 DEF WorkersAreAwaited
  <2>4. Cardinality(SlotHolders') = count - 1
    BY <2>1, <2>2, <2>3, HolderLess DEF Holds, Types
  <2>5. WorkersAreAwaited'
    BY <2>1, <2>2, <2>3 DEF WorkersAreAwaited, Types
  <2> QED
    BY <1>0, <2>2, <2>4, <2>5 DEF ResolverSlotsAreConserved
<1>9. ASSUME NEW t \in Threads, Resolved(t) \/ Unresolved(t) \/ LeaveWorker(t)
      PROVE  ResolverInv'
  <2>1. /\ at[t] = "resolving" /\ worker' = [worker EXCEPT ![t] = "none"] /\ slots' = slots
        /\ at'[t] \in {"addresses", "raised"} /\ at' = [at EXCEPT ![t] = at'[t]]
    BY <1>9 DEF Resolved, Unresolved, LeaveWorker, Fail, Goto, Types
  <2>2. WorkersAreAwaited'
    BY <2>1 DEF WorkersAreAwaited, Types
  <2>3. CASE worker[t] = "running"
    <3>1. orphans' = orphans + 1
      BY <1>9, <2>3 DEF Resolved, Unresolved, LeaveWorker
    <3>2. Cardinality(SlotHolders') = count - 1
      BY <2>1, <2>3, HolderLess DEF Holds, Types
    <3> QED
      BY <1>0, <2>1, <2>2, <3>1, <3>2 DEF ResolverSlotsAreConserved
  <2>4. CASE worker[t] # "running"
    <3>1. orphans' = orphans
      BY <1>9, <2>4 DEF Resolved, Unresolved, LeaveWorker
    <3>2. SlotHolders' = SlotHolders
      BY <2>1, <2>4, HoldersSame DEF Holds, Types
    <3> QED
      BY <2>1, <2>2, <3>1, <3>2 DEF ResolverSlotsAreConserved
  <2> QED
    BY <2>3, <2>4
<1>10. CASE UNCHANGED vars
  BY <1>2, <1>10 DEF vars
<1> QED
  BY <1>1, <1>3, <1>4, <1>5, <1>6, <1>7, <1>8, <1>9, <1>10 DEF Next, Own, Network

-----------------------------------------------------------------------------
(* Sockets *)

SocketOf(t) ==
    /\ at[t] \in {"idle", "begin", "check", "final"} => timer[t] = "off"
    /\ at[t] \in {"idle", "begin", "final"} => sock[t] # "shut"
    /\ timer[t] \in {"firing", "fired"} \/ sock[t] = "shut" => expired[t]
    /\ at[t] = "idle" /\ sock[t] = "open" => result[t] = "ok"

SameOf(t) == UNCHANGED <<at[t], timer[t], sock[t], expired[t], result[t]>>

\* A step of one thread leaves the others as they are.
LEMMA OneThread ==
  ASSUME SocketInv, NEW t \in Threads, SocketOf(t)',
         \A u \in Threads : u # t => SameOf(u)
  PROVE  SocketInv'
<1>1. ASSUME NEW u \in Threads, u # t PROVE SocketOf(u)'
  <2>1. SocketOf(u) /\ SameOf(u)
    BY <1>1 DEF SocketInv, SocketOf
  <2> QED
    BY <2>1, Zenon DEF SocketOf, SameOf
<1> QED
  BY <1>1 DEF SocketInv, SocketOf

LEMMA SocketStep ==
  ASSUME Types, Flags, SocketInv, [Next]_vars
  PROVE  SocketInv'
<1> USE DEF Types, Flags, Goto
<1>1. ASSUME UNCHANGED <<at, timer, sock, expired, result>> PROVE SocketInv'
  BY <1>1, Zenon DEF SocketInv
<1>2. ASSUME OrphanEnds \/ (\E t \in Threads : Expire(t) \/ WorkerEnds(t)) \/ UNCHANGED vars
      PROVE  SocketInv'
  BY <1>1, <1>2 DEF OrphanEnds, Expire, WorkerEnds, vars, timers
<1>3. ASSUME NEW t \in Threads, Start(t) PROVE SocketInv'
  <2>1. SocketOf(t)' /\ \A u \in Threads : u # t => SameOf(u)
    BY <1>3 DEF Start, SocketInv, SocketOf, SameOf, timers
  <2> QED
    BY <2>1, OneThread
<1>4. ASSUME NEW t \in Threads, Drop(t) PROVE SocketInv'
  <2>1. SocketOf(t)' /\ \A u \in Threads : u # t => SameOf(u)
    BY <1>4 DEF Drop, SocketInv, SocketOf, SameOf, timers
  <2> QED
    BY <2>1, OneThread
<1>5. ASSUME NEW t \in Threads, Fire(t) PROVE SocketInv'
  <2>1. SocketOf(t)' /\ \A u \in Threads : u # t => SameOf(u)
    BY <1>5 DEF Fire, SocketInv, SocketOf, SameOf
  <2> QED
    BY <2>1, OneThread
<1>6. ASSUME NEW t \in Threads, Abort(t) PROVE SocketInv'
  <2>1. SocketOf(t)' /\ \A u \in Threads : u # t => SameOf(u)
    BY <1>6 DEF Abort, SocketInv, SocketOf, SameOf
  <2> QED
    BY <2>1, OneThread
<1>7. ASSUME NEW t \in Threads, TooLate(t) \/ Begin(t) \/ Deliver(t) PROVE SocketInv'
  <2>1. SocketOf(t)' /\ \A u \in Threads : u # t => SameOf(u)
    BY <1>7 DEF TooLate, Begin, Deliver, Abandon, SocketInv, SocketOf, SameOf, timers
  <2> QED
    BY <2>1, OneThread
<1>8. ASSUME NEW t \in Threads, EndTimer(t) PROVE SocketInv'
  <2>1. SocketOf(t)' /\ \A u \in Threads : u # t => SameOf(u)
    BY <1>8 DEF EndTimer, Abandon, SocketInv, SocketOf, SameOf
  <2> QED
    BY <2>1, OneThread
<1>9. ASSUME NEW t \in Threads, Check(t) PROVE SocketInv'
  <2>1. SocketOf(t)' /\ \A u \in Threads : u # t => SameOf(u)
    BY <1>9 DEF Check, Abandon, SocketInv, SocketOf, SameOf, timers
  <2> QED
    BY <2>1, OneThread
<1>10. ASSUME NEW t \in Threads, Fail(t) PROVE SocketInv'
  <2>1. SocketOf(t)' /\ \A u \in Threads : u # t => SameOf(u)
    BY <1>10, FailTypes DEF SocketInv, SocketOf, SameOf
  <2> QED
    BY <2>1, OneThread
<1>11. ASSUME NEW t \in Threads,
              \/ MissSlot(t) \/ StartFails(t) \/ Unresolved(t) \/ LeaveWorker(t)
              \/ NoTimeForAddress(t) \/ TalkFails(t)
       PROVE  SocketInv'
  BY <1>10, <1>11 DEF MissSlot, StartFails, Unresolved, LeaveWorker, NoTimeForAddress, TalkFails
<1>12. ASSUME NEW t \in Threads,
              TakeSlot(t) \/ StartWorker(t) \/ Resolved(t) \/ NextAddress(t) \/ Connected(t)
              \/ Talk(t)
       PROVE  SocketInv'
  <2>1. SocketOf(t)' /\ \A u \in Threads : u # t => SameOf(u)
    BY <1>12 DEF TakeSlot, StartWorker, Resolved, NextAddress, Connected, Talk, SocketInv,
                 SocketOf, SameOf, timers
  <2> QED
    BY <2>1, OneThread
<1>13. ASSUME NEW t \in Threads, Dial(t) \/ TryNext(t) PROVE SocketInv'
  <2>1. SocketOf(t)' /\ \A u \in Threads : u # t => SameOf(u)
    BY <1>13 DEF Dial, TryNext, SocketInv, SocketOf, SameOf, timers
  <2> QED
    BY <2>1, OneThread
<1>14. ASSUME NEW t \in Threads, ConnectFails(t) PROVE SocketInv'
  <2>1. SocketOf(t)' /\ \A u \in Threads : u # t => SameOf(u)
    BY <1>14 DEF ConnectFails, SocketInv, SocketOf, SameOf
  <2> QED
    BY <2>1, OneThread
<1> QED
  BY <1>2, <1>3, <1>4, <1>5, <1>6, <1>7, <1>8, <1>9, <1>11, <1>12, <1>13, <1>14
     DEF Next, Own, Network

-----------------------------------------------------------------------------
LEMMA Inductive == Spec => []Inv
<1>1. Init => Inv
  <2> SUFFICES ASSUME Init PROVE Inv
    OBVIOUS
  <2>1. Types
    BY ResolverAssumption DEF Init, Types, Stages
  <2>2. Flags
    BY DEF Init, Flags
  <2>3. ResolverInv
    <3>1. SlotHolders = {}
      BY DEF Init, SlotHolders
    <3> QED
      BY <3>1, FS_EmptySet, ResolverAssumption
         DEF Init, ResolverInv, WorkersAreAwaited, ResolverSlotsAreConserved
  <2>4. SocketInv
    BY DEF Init, SocketInv
  <2> QED
    BY <2>1, <2>2, <2>3, <2>4 DEF Inv
<1>2. Inv /\ [Next]_vars => Inv'
  BY TypesStep, ResolverStep, SocketStep DEF Inv
<1> QED
  BY <1>1, <1>2, PTL DEF Spec

\* Type correctness; that neither slots nor orphans exceed the number of slots follows from
\* their conservation.
THEOREM ConnectionTypes == Spec => []TypeOK
<1>1. Inv => TypeOK
  BY HoldersFinite, ResolverAssumption
     DEF Inv, Types, Flags, Stages, ResolverInv, ResolverSlotsAreConserved, TypeOK
<1> QED
  BY <1>1, Inductive, PTL

\* Neither timeouts nor failed starts lose or double a resolver slot, whatever the resolver
\* does and however many threads wait (_resolve_addresses).
THEOREM SlotsStayConserved == Spec => []ResolverSlotsAreConserved
<1>1. Inv => ResolverSlotsAreConserved
  BY DEF Inv, ResolverInv
<1> QED
  BY <1>1, Inductive, PTL

\* The pool is given open sockets of exchanges that ended well, with no timer left
\* (_run_with_deadline).
THEOREM PoolStaysSafe == Spec => []PooledSocketIsSafe
<1>1. Inv => PooledSocketIsSafe
  <2> SUFFICES ASSUME Inv, NEW t \in Threads, at[t] = "idle"
               PROVE  timer[t] = "off" /\ (sock[t] # "none" => sock[t] = "open" /\ result[t] = "ok")
    BY DEF PooledSocketIsSafe
  <2>1. timer[t] = "off" /\ sock[t] # "shut" /\ (sock[t] = "open" => result[t] = "ok")
    BY DEF Inv, SocketInv
  <2>2. sock[t] \in {"none", "open", "shut"}
    BY DEF Inv, Types
  <2> QED
    BY <2>1, <2>2
<1> QED
  BY <1>1, Inductive, PTL
=============================================================================
