--------------------------- MODULE BulkheadProofs ---------------------------
(***************************************************************************)
(* What TLAPS proves of Bulkhead, for every set of light and heavy         *)
(* requests and all capacities that validate_bulkhead_capacity accepts.    *)
(* The counts alone are not inductive: a permit is handed to whoever is    *)
(* first in a queue, so the invariant also says who stands in a queue.     *)
(***************************************************************************)
EXTENDS Bulkhead, FiniteSetTheorems, SequenceTheorems, TLAPS

\* Stages of a request that stands in a queue.
Parked == {"waiting", "givingUp", "leaving"}

\* Stages on the way to the next bulkhead.
OnTheWay == {"trying", "acquired", "left"} \cup Parked

\* How many bulkheads are on the route of a request.
Stops(r) == IF r \in Heavy THEN 2 ELSE 1

DepthInv ==
    \A r \in Requests :
        /\ pc[r] \in OnTheWay => depth[r] < Stops(r)
        /\ depth[r] <= Stops(r)
        /\ pc[r] \in {"served", "busy", "cancelled"} => depth[r] = 0

\* Who has a future stands in the queue of the bulkhead it wants, once.
Standing ==
    \A b \in Bulkheads : \A i \in DOMAIN waiters[b] :
        /\ pc[waiters[b][i]] \in Parked
        /\ Door(waiters[b][i]) = b
        /\ \A j \in DOMAIN waiters[b] : waiters[b][i] = waiters[b][j] => i = j

QueueInv ==
    /\ \A r \in Requests : fut[r] # "none" <=> pc[r] \in Parked
    /\ Standing

Refused == {r \in Requests : pc[r] = "busy"}

Gauged(b) == IsFiniteSet(InsideOf(b)) /\ inFlight[b] = Cardinality(InsideOf(b))

Balanced(b) == IsFiniteSet(Owners(b)) /\ value[b] + Cardinality(Owners(b)) = Capacity[b]

RefusalInv ==
    /\ IsFiniteSet(Refused)
    /\ rejected["global"] + rejected["heavy"] = Cardinality(Refused)

CountInv == (\A b \in Bulkheads : Balanced(b) /\ Gauged(b)) /\ RefusalInv

IInv == TypeOK /\ DepthInv /\ QueueInv /\ CountInv

-----------------------------------------------------------------------------
(* Routes *)

LEMMA BulkheadsAre == Bulkheads = {"global", "heavy"} /\ "global" # "heavy"
BY DEF Bulkheads

LEMMA CapacityType ==
  /\ Capacity \in [Bulkheads -> Nat]
  /\ Capacity["global"] = GlobalCapacity /\ Capacity["heavy"] = HeavyCapacity
  /\ GlobalCapacity \in Nat /\ HeavyCapacity \in Nat /\ HeavyCapacity <= GlobalCapacity
BY CapacityAssumption DEF Capacity, Bulkheads

\* The bulkheads that have been entered, by the depth.
EnteredAt(r, d) ==
    IF d = 0 THEN {} ELSE
    IF r \in Heavy THEN (IF d = 1 THEN {"heavy"} ELSE {"heavy", "global"}) ELSE {"global"}

DoorAt(r, d) == IF r \in Heavy /\ d = 0 THEN "heavy" ELSE "global"

LEMMA RouteLength ==
  ASSUME NEW r \in Requests
  PROVE  Len(Route(r)) = Stops(r)
BY DEF Route, Stops

LEMMA RouteUpTo ==
  ASSUME NEW r \in Requests, NEW d \in 0..2, d <= Stops(r)
  PROVE  {Route(r)[i] : i \in 1..d} = EnteredAt(r, d)
<1>1. CASE d = 0
  BY <1>1 DEF EnteredAt
<1>2. CASE d = 1
  <2>1. 1..d = {1}
    BY <1>2
  <2> QED
    BY <1>2, <2>1 DEF EnteredAt, Route
<1>3. CASE d = 2
  <2>1. 1..d = {1, 2} /\ r \in Heavy
    BY <1>3 DEF Stops
  <2> QED
    BY <1>3, <2>1 DEF EnteredAt, Route
<1> QED
  BY <1>1, <1>2, <1>3

LEMMA EnteredIs ==
  ASSUME NEW r \in Requests, depth[r] \in 0..2, depth[r] <= Stops(r)
  PROVE  Entered(r) = EnteredAt(r, depth[r])
BY RouteUpTo DEF Entered

LEMMA EnteredNext ==
  ASSUME NEW r \in Requests, depth'[r] \in 0..2, depth'[r] <= Stops(r)
  PROVE  Entered(r)' = EnteredAt(r, depth'[r])
BY RouteUpTo DEF Entered

LEMMA DoorIs ==
  ASSUME NEW r \in Requests, depth[r] \in 0..2, depth[r] < Stops(r)
  PROVE  Door(r) = DoorAt(r, depth[r])
<1>1. depth[r] = 0 \/ (depth[r] = 1 /\ r \in Heavy)
  BY DEF Stops
<1> QED
  BY <1>1 DEF Door, DoorAt, Route

\* Where a request stands: what it has entered and what it wants next.
LEMMA OnItsRoute ==
  ASSUME TypeOK, DepthInv, NEW r \in Requests
  PROVE  /\ Entered(r) = EnteredAt(r, depth[r])
         /\ Entered(r) \subseteq Bulkheads
         /\ pc[r] \in OnTheWay => /\ Door(r) = DoorAt(r, depth[r])
                                  /\ Door(r) \in Bulkheads
                                  /\ Door(r) \notin Entered(r)
                                  /\ EnteredAt(r, depth[r] + 1) = Entered(r) \cup {Door(r)}
<1>1. depth[r] \in 0..2 /\ depth[r] <= Stops(r)
  BY DEF TypeOK, DepthInv
<1>2. Entered(r) = EnteredAt(r, depth[r])
  BY <1>1, EnteredIs
<1>3. Entered(r) \subseteq Bulkheads
  BY <1>2 DEF EnteredAt, Bulkheads
<1>4. ASSUME pc[r] \in OnTheWay
      PROVE  /\ Door(r) = DoorAt(r, depth[r])
             /\ Door(r) \in Bulkheads
             /\ Door(r) \notin Entered(r)
             /\ EnteredAt(r, depth[r] + 1) = Entered(r) \cup {Door(r)}
  <2>1. depth[r] < Stops(r)
    BY <1>4 DEF DepthInv
  <2>2. depth[r] = 0 \/ (depth[r] = 1 /\ r \in Heavy)
    BY <1>1, <2>1 DEF Stops
  <2>3. Door(r) = DoorAt(r, depth[r])
    BY <1>1, <2>1, DoorIs
  <2>4. Door(r) \in Bulkheads
    BY <2>3 DEF DoorAt, Bulkheads
  <2>5. CASE depth[r] = 0
    BY <2>3, <2>4, <2>5, <1>2 DEF EnteredAt, DoorAt
  <2>6. CASE depth[r] = 1 /\ r \in Heavy
    BY <2>3, <2>4, <2>6, <1>2 DEF EnteredAt, DoorAt
  <2> QED
    BY <2>2, <2>5, <2>6
<1> QED
  BY <1>2, <1>3, <1>4

-----------------------------------------------------------------------------
(* Queues *)

LEMMA WaitersType ==
  ASSUME TypeOK, NEW b \in Bulkheads
  PROVE  /\ waiters[b] \in Seq(Requests)
         /\ Len(waiters[b]) \in Nat
         /\ DOMAIN waiters[b] = 1..Len(waiters[b])
         /\ \A i \in DOMAIN waiters[b] : waiters[b][i] \in Requests
<1>1. waiters[b] \in Seq(Requests)
  BY DEF TypeOK
<1> QED
  BY <1>1, ElementOfSeq, LenProperties

LEMMA WithoutFacts ==
  ASSUME TypeOK, QueueInv, NEW b \in Bulkheads, NEW r \in Requests
  PROVE  /\ Without(b, r) \in Seq(Requests)
         /\ \A i \in DOMAIN Without(b, r) :
               /\ Without(b, r)[i] # r
               /\ \E k \in DOMAIN waiters[b] : Without(b, r)[i] = waiters[b][k]
               /\ \A j \in DOMAIN Without(b, r) : Without(b, r)[i] = Without(b, r)[j] => i = j
<1> DEFINE s == waiters[b]
           n == Len(s)
           w == Without(b, r)
           gone(i) == \E j \in 1..i : s[j] = r
<1>1. n \in Nat /\ DOMAIN s = 1..n /\ \A i \in 1..n : s[i] \in Requests
  BY WaitersType
<1>2. \A i, j \in 1..n : s[i] = s[j] => i = j
  BY <1>1 DEF QueueInv, Standing
<1>3. DOMAIN w = 1..(n - 1) /\ \A i \in 1..(n - 1) : w[i] = IF gone(i) THEN s[i + 1] ELSE s[i]
  BY DEF Without
<1>4. \A i \in 1..(n - 1) : i \in 1..n /\ i + 1 \in 1..n
  BY <1>1
<1> HIDE DEF s, n, w
<1>5. \A i \in 1..(n - 1) : w[i] \in Requests /\ \E k \in 1..n : w[i] = s[k]
  BY <1>1, <1>3, <1>4
<1>6. w \in Seq(Requests)
  <2>1. w \in [1..(n - 1) -> Requests]
    <3>1. w = [i \in 1..(n - 1) |-> w[i]]
      BY <1>3 DEF w, Without, n, s
    <3> HIDE DEF w
    <3> QED
      BY <3>1, <1>5
  <2>2. \E m \in Nat : 1..(n - 1) = 1..m
    <3>1. CASE n = 0
      <4>1. 1..(n - 1) = 1..0
        BY <3>1
      <4> QED
        BY <4>1
    <3>2. CASE n # 0
      <4>1. n - 1 \in Nat
        BY <1>1, <3>2
      <4> QED
        BY <4>1
    <3> QED
      BY <3>1, <3>2
  <2>3. PICK m \in Nat : w \in [1..m -> Requests]
    BY <2>1, <2>2
  <2> QED
    BY <2>3, SeqDef
<1>7. ASSUME NEW i \in 1..(n - 1) PROVE w[i] # r
  <2>1. CASE gone(i)
    <3>1. PICK j \in 1..i : s[j] = r
      BY <2>1
    <3>2. j \in 1..n /\ i + 1 \in 1..n /\ j # i + 1
      BY <1>1
    <3> QED
      BY <3>1, <3>2, <1>2, <1>3, <2>1
  <2>2. CASE ~ gone(i)
    <3>1. i \in 1..i
      BY <1>1
    <3> QED
      BY <3>1, <1>3, <2>2
  <2> QED
    BY <2>1, <2>2
<1>8. ASSUME NEW i \in 1..(n - 1), NEW j \in 1..(n - 1), w[i] = w[j], i < j PROVE FALSE
  <2>1. gone(i) => gone(j)
    BY <1>1, <1>8
  <2>2. i \in 1..n /\ j \in 1..n /\ i + 1 \in 1..n /\ j + 1 \in 1..n
    BY <1>4
  <2>3. i # j /\ i + 1 # j + 1 /\ i # j + 1
    BY <1>1, <1>8
  <2> QED
    BY <1>2, <1>3, <1>8, <2>1, <2>2, <2>3
<1>9. \A i, j \in 1..(n - 1) : w[i] = w[j] => i = j
  <2>1. \A i, j \in 1..(n - 1) : i < j \/ j < i \/ i = j
    BY <1>1
  <2> QED
    BY <2>1, <1>8
<1> QED
  BY <1>1, <1>3, <1>5, <1>6, <1>7, <1>9 DEF s, n, w

\* Whoever is first in a queue owns nothing of that bulkhead yet.
LEMMA FirstFacts ==
  ASSUME TypeOK, DepthInv, QueueInv, NEW b \in Bulkheads
  PROVE  /\ \A q \in First(b) : /\ q \in Requests /\ fut[q] = "pending"
                                /\ Door(q) = b /\ pc[q] \in Parked
                                /\ q \notin Owners(b)
         /\ First(b) = {} \/ \E q \in First(b) : First(b) = {q}
<1>1. ASSUME NEW q \in First(b)
      PROVE  /\ q \in Requests /\ fut[q] = "pending" /\ Door(q) = b /\ pc[q] \in Parked
             /\ q \notin Owners(b)
  <2>1. PICK i \in 1..Len(waiters[b]) : q = waiters[b][i] /\ fut[waiters[b][i]] = "pending"
    BY DEF First
  <2>2. q \in Requests /\ fut[q] = "pending" /\ Door(q) = b /\ pc[q] \in Parked
    BY <2>1, WaitersType DEF QueueInv, Standing
  <2>3. b \notin Entered(q)
    BY <2>2, OnItsRoute DEF OnTheWay
  <2> QED
    BY <2>2, <2>3 DEF Owners, Owns, Parked
<1>2. ASSUME NEW p \in First(b), NEW q \in First(b) PROVE p = q
  <2>1. PICK i \in 1..Len(waiters[b]) :
            /\ p = waiters[b][i] /\ fut[waiters[b][i]] = "pending"
            /\ \A k \in 1..(i - 1) : fut[waiters[b][k]] # "pending"
    BY DEF First
  <2>2. PICK j \in 1..Len(waiters[b]) :
            /\ q = waiters[b][j] /\ fut[waiters[b][j]] = "pending"
            /\ \A k \in 1..(j - 1) : fut[waiters[b][k]] # "pending"
    BY DEF First
  <2>3. Len(waiters[b]) \in Nat
    BY WaitersType
  <2>4. ~ (i < j) /\ ~ (j < i)
    BY <2>1, <2>2, <2>3
  <2>5. i = j
    BY <2>3, <2>4
  <2> QED
    BY <2>1, <2>2, <2>5
<1> QED
  BY <1>1, <1>2

-----------------------------------------------------------------------------
(* Types and depths *)

\* Everything but the ranges of the counts, which follow from the counting.
TypeBut ==
    /\ value \in [Bulkheads -> Nat]
    /\ waiters \in [Bulkheads -> Seq(Requests)]
    /\ fut \in [Requests -> {"none", "pending", "granted", "cancelled"}]
    /\ pc \in [Requests -> {"trying", "waiting", "acquired", "givingUp", "leaving",
                            "left", "inside", "served", "busy", "cancelled"}]
    /\ depth \in [Requests -> 0..2]
    /\ why \in [Requests -> {"none", "timeout", "cancelled"}]
    /\ inFlight \in [Bulkheads -> Int]
    /\ rejected \in [Bulkheads -> Nat]

LEMMA TypeHas == TypeOK => TypeBut
BY CapacityType DEF TypeOK, TypeBut

LEMMA WithoutType ==
  ASSUME TypeOK, QueueInv, NEW b \in Bulkheads, NEW r \in Requests,
         waiters' = [waiters EXCEPT ![b] = Without(b, r)]
  PROVE  waiters' \in [Bulkheads -> Seq(Requests)]
<1>1. Without(b, r) \in Seq(Requests)
  BY WithoutFacts
<1> QED
  BY <1>1 DEF TypeOK

\* Nothing is taken from a bulkhead that has nothing.
LEMMA TypeStep ==
  ASSUME TypeOK, DepthInv, QueueInv, [Next]_vars
  PROVE  TypeBut'
<1>0. TypeBut
  BY TypeHas
<1> USE <1>0 DEF TypeBut, Goto
<1>d. ASSUME NEW r \in Requests, pc[r] \in OnTheWay PROVE Door(r) \in Bulkheads
  BY <1>d, OnItsRoute
<1>r. ASSUME NEW r \in Requests, ExitSlots(r)
      PROVE  /\ value' \in [Bulkheads -> Nat] /\ inFlight' \in [Bulkheads -> Int]
             /\ fut' \in [Requests -> {"none", "pending", "granted", "cancelled"}]
             /\ depth' \in [Requests -> 0..2] /\ waiters' \in [Bulkheads -> Seq(Requests)]
  BY <1>r DEF ExitSlots, Release
<1>1. ASSUME NEW r \in Requests, Try(r) PROVE TypeBut'
  <2> DEFINE b == Door(r)
  <2>1. b \in Bulkheads
    BY <1>1, <1>d DEF Try, OnTheWay
  <2> HIDE DEF b
  <2>2. CASE Locked(b)
    <3>1. waiters' = [waiters EXCEPT ![b] = Append(@, r)]
      BY <1>1, <2>2 DEF Try, b
    <3>2. waiters[b] \in Seq(Requests) /\ Append(waiters[b], r) \in Seq(Requests)
      BY <2>1
    <3>3. waiters' \in [Bulkheads -> Seq(Requests)]
      BY <3>1, <3>2
    <3> QED
      BY <1>1, <2>2, <3>3 DEF Try, b
  <2>3. CASE ~ Locked(b)
    <3>1. value[b] \in Nat /\ value[b] # 0
      BY <2>1, <2>3 DEF Locked
    <3>2. value[b] - 1 \in Nat
      BY <3>1
    <3>3. value' = [value EXCEPT ![b] = @ - 1]
      BY <1>1, <2>3 DEF Try, b
    <3>4. value' \in [Bulkheads -> Nat]
      BY <3>2, <3>3
    <3> QED
      BY <1>1, <2>3, <3>4 DEF Try, b
  <2> QED
    BY <2>2, <2>3
<1>2. ASSUME NEW r \in Requests, Resume(r) PROVE TypeBut'
  <2> DEFINE b == Door(r)
             next == IF value[b] > 0 THEN Wake({b}) ELSE {}
  <2>1. b \in Bulkheads
    BY <1>2, <1>d DEF Resume, OnTheWay, Parked
  <2>2. waiters' \in [Bulkheads -> Seq(Requests)]
    BY <1>2, <2>1, WithoutType DEF Resume
  <2>3. value' = [value EXCEPT ![b] = IF next # {} THEN @ - 1 ELSE @]
    BY <1>2 DEF Resume
  <2>4. value[b] \in Nat /\ (next # {} => value[b] > 0)
    BY <2>1
  <2> HIDE DEF b, next
  <2>5. next # {} => value[b] - 1 \in Nat
    BY <2>4
  <2>6. value' \in [Bulkheads -> Nat]
    BY <2>3, <2>4, <2>5
  <2> QED
    BY <1>2, <2>2, <2>6 DEF Resume
<1>3. ASSUME NEW r \in Requests, Expire(r) PROVE TypeBut'
  BY <1>3 DEF Expire
<1>4. ASSUME NEW r \in Requests, Cancel(r) PROVE TypeBut'
  BY <1>4 DEF Cancel
<1>5. ASSUME NEW r \in Requests, GiveUp(r) PROVE TypeBut'
  BY <1>5 DEF GiveUp
<1>6. ASSUME NEW r \in Requests, Leave(r) PROVE TypeBut'
  <2> DEFINE b == Door(r)
             next == IF fut[r] = "granted" THEN Wake({b}) ELSE {}
  <2>1. b \in Bulkheads
    BY <1>6, <1>d DEF Leave, OnTheWay, Parked
  <2>2. waiters' \in [Bulkheads -> Seq(Requests)]
    BY <1>6, <2>1, WithoutType DEF Leave
  <2>3. value' = [value EXCEPT ![b] = IF fut[r] = "granted" /\ next = {} THEN @ + 1 ELSE @]
    BY <1>6 DEF Leave
  <2> HIDE DEF b, next
  <2>4. value' \in [Bulkheads -> Nat]
    BY <2>1, <2>3
  <2> QED
    BY <1>6, <2>2, <2>4 DEF Leave
<1>7. ASSUME NEW r \in Requests, Admit(r) PROVE TypeBut'
  <2>1. Door(r) \in Bulkheads
    BY <1>7, <1>d DEF Admit, OnTheWay
  <2>2. depth[r] \in 0..2 /\ depth[r] < Stops(r)
    BY <1>7 DEF Admit, DepthInv, OnTheWay
  <2>3. depth[r] + 1 \in 0..2
    BY <2>2 DEF Stops
  <2> QED
    BY <1>7, <2>1, <2>3 DEF Admit
<1>8. ASSUME NEW r \in Requests, Refuse(r) PROVE TypeBut'
  <2>1. Door(r) \in Bulkheads
    BY <1>8, <1>d DEF Refuse, OnTheWay
  <2>2. pc' \in [Requests -> {"trying", "waiting", "acquired", "givingUp", "leaving",
                            "left", "inside", "served", "busy", "cancelled"}]
        /\ why' = why
    BY <1>8 DEF Refuse
  <2>3. rejected' = rejected \/ rejected' = [rejected EXCEPT ![Door(r)] = @ + 1]
    BY <1>8 DEF Refuse
  <2>4. rejected' \in [Bulkheads -> Nat]
    <3>1. ASSUME NEW d \in Bulkheads, rejected' = [rejected EXCEPT ![d] = @ + 1]
          PROVE  rejected' \in [Bulkheads -> Nat]
      BY <3>1
    <3> QED
      BY <2>1, <2>3, <3>1
  <2> QED
    BY <1>8, <1>r, <2>2, <2>4 DEF Refuse
<1>9. ASSUME NEW r \in Requests, Finish(r) PROVE TypeBut'
  BY <1>9, <1>r DEF Finish
<1>10. CASE UNCHANGED vars
  BY <1>10 DEF vars
<1> QED
  BY <1>1, <1>2, <1>3, <1>4, <1>5, <1>6, <1>7, <1>8, <1>9, <1>10 DEF Next, Progress

LEMMA DepthStep ==
  ASSUME TypeOK, DepthInv, [Next]_vars
  PROVE  DepthInv'
<1> USE DEF Goto, OnTheWay, Parked, TypeOK
<1>s. ASSUME NEW r \in Requests PROVE depth[r] \in 0..2 /\ 0 <= Stops(r) /\ Stops(r) \in Nat
  BY DEF Stops
<1>1. ASSUME NEW r \in Requests, Try(r) PROVE DepthInv'
  BY <1>1 DEF Try, DepthInv
<1>2. ASSUME NEW r \in Requests, Resume(r) PROVE DepthInv'
  BY <1>2 DEF Resume, DepthInv
<1>3. ASSUME NEW r \in Requests, Expire(r) PROVE DepthInv'
  BY <1>3 DEF Expire, DepthInv
<1>4. ASSUME NEW r \in Requests, Cancel(r) PROVE DepthInv'
  BY <1>4 DEF Cancel, DepthInv
<1>5. ASSUME NEW r \in Requests, GiveUp(r) PROVE DepthInv'
  BY <1>5 DEF GiveUp, DepthInv
<1>6. ASSUME NEW r \in Requests, Leave(r) PROVE DepthInv'
  BY <1>6 DEF Leave, DepthInv
<1>7. ASSUME NEW r \in Requests, Admit(r) PROVE DepthInv'
  <2>1. depth' = [depth EXCEPT ![r] = @ + 1]
    BY <1>7 DEF Admit
  <2>2. pc' = [pc EXCEPT ![r] = IF depth[r] + 1 = Stops(r) THEN "inside" ELSE "trying"]
    <3>1. Len(Route(r)) = Stops(r)
      BY RouteLength
    <3>2. pc' = [pc EXCEPT ![r] = IF depth[r] + 1 = Len(Route(r)) THEN "inside" ELSE "trying"]
      BY <1>7 DEF Admit
    <3> QED
      BY <3>1, <3>2
  <2>3. depth[r] < Stops(r)
    BY <1>7 DEF Admit, DepthInv
  <2>4. /\ depth[r] + 1 # Stops(r) => depth[r] + 1 < Stops(r)
        /\ depth[r] + 1 <= Stops(r)
    <3>1. depth[r] \in Int /\ Stops(r) \in Int
      BY DEF Stops
    <3> QED
      BY <2>3, <3>1
  <2> QED
    BY <2>1, <2>2, <2>4 DEF DepthInv
<1>8. ASSUME NEW r \in Requests, Refuse(r) PROVE DepthInv'
  <2>1. depth' = [depth EXCEPT ![r] = 0] /\ 0 <= Stops(r)
    BY <1>8, <1>s DEF Refuse, ExitSlots
  <2>2. pc' = [pc EXCEPT ![r] = "busy"] \/ pc' = [pc EXCEPT ![r] = "cancelled"]
    BY <1>8 DEF Refuse
  <2> QED
    BY <2>1, <2>2 DEF DepthInv
<1>9. ASSUME NEW r \in Requests, Finish(r) PROVE DepthInv'
  <2>1. depth' = [depth EXCEPT ![r] = 0] /\ 0 <= Stops(r)
    BY <1>9, <1>s DEF Finish, ExitSlots
  <2> QED
    BY <1>9, <2>1 DEF Finish, DepthInv
<1>10. CASE UNCHANGED vars
  BY <1>10 DEF vars, DepthInv
<1> QED
  BY <1>1, <1>2, <1>3, <1>4, <1>5, <1>6, <1>7, <1>8, <1>9, <1>10 DEF Next, Progress

-----------------------------------------------------------------------------
(* Who stands in a queue *)

LEMMA DoorKept == \A q : depth'[q] = depth[q] => Door(q)' = Door(q)
BY DEF Door

\* Standing, of the next state, with a name for whoever stands somewhere.
LEMMA StandingNext ==
  ASSUME \A c \in Bulkheads : \A i \in DOMAIN waiters'[c] : \E q \in Requests :
            /\ waiters'[c][i] = q /\ pc'[q] \in Parked /\ Door(q)' = c
            /\ \A j \in DOMAIN waiters'[c] : waiters'[c][j] = q => i = j
  PROVE  Standing'
BY DEF Standing, Door

\* Standing, of this state, in the same form.
LEMMA StandingNow ==
  ASSUME TypeOK, Standing, NEW c \in Bulkheads, NEW i \in DOMAIN waiters[c]
  PROVE  \E q \in Requests :
            /\ waiters[c][i] = q /\ pc[q] \in Parked /\ Door(q) = c
            /\ \A j \in DOMAIN waiters[c] : waiters[c][j] = q => i = j
<1>1. waiters[c][i] \in Requests
  BY WaitersType
<1> QED
  BY <1>1 DEF Standing

LEMMA StandingStays ==
  ASSUME TypeOK, Standing, waiters' = waiters,
         \A q \in Requests : pc[q] \in Parked => pc'[q] \in Parked /\ depth'[q] = depth[q]
  PROVE  Standing'
<1> SUFFICES ASSUME NEW c \in Bulkheads, NEW i \in DOMAIN waiters'[c]
             PROVE  \E q \in Requests :
                      /\ waiters'[c][i] = q /\ pc'[q] \in Parked /\ Door(q)' = c
                      /\ \A j \in DOMAIN waiters'[c] : waiters'[c][j] = q => i = j
  BY StandingNext
<1>1. PICK q \in Requests :
         /\ waiters[c][i] = q /\ pc[q] \in Parked /\ Door(q) = c
         /\ \A j \in DOMAIN waiters[c] : waiters[c][j] = q => i = j
  BY StandingNow
<1>2. Door(q)' = c
  BY <1>1, DoorKept
<1> QED
  BY <1>1, <1>2

LEMMA StandingWithout ==
  ASSUME TypeOK, QueueInv, NEW r \in Requests, NEW b \in Bulkheads, Door(r) = b,
         waiters' = [waiters EXCEPT ![b] = Without(b, r)], depth' = depth,
         \A q \in Requests : q # r => pc'[q] = pc[q]
  PROVE  Standing'
<1> SUFFICES ASSUME NEW c \in Bulkheads, NEW i \in DOMAIN waiters'[c]
             PROVE  \E q \in Requests :
                      /\ waiters'[c][i] = q /\ pc'[q] \in Parked /\ Door(q)' = c
                      /\ \A j \in DOMAIN waiters'[c] : waiters'[c][j] = q => i = j
  BY StandingNext
<1>1. waiters'[b] = Without(b, r) /\ \A d \in Bulkheads : d # b => waiters'[d] = waiters[d]
  BY DEF TypeOK
<1>2. CASE c = b
  <2>1. PICK k \in DOMAIN waiters[b] : Without(b, r)[i] = waiters[b][k]
    BY <1>1, <1>2, WithoutFacts
  <2>2. /\ Without(b, r)[i] # r
        /\ \A j \in DOMAIN Without(b, r) : Without(b, r)[i] = Without(b, r)[j] => i = j
    BY <1>1, <1>2, WithoutFacts
  <2>3. PICK q \in Requests : waiters[b][k] = q /\ pc[q] \in Parked /\ Door(q) = b
    BY StandingNow DEF QueueInv
  <2>4. Door(q)' = b
    BY <2>3, DoorKept
  <2> QED
    BY <1>1, <1>2, <2>1, <2>2, <2>3, <2>4
<1>3. CASE c # b
  <2>1. waiters'[c] = waiters[c]
    BY <1>1, <1>3
  <2>2. PICK q \in Requests :
           /\ waiters[c][i] = q /\ pc[q] \in Parked /\ Door(q) = c
           /\ \A j \in DOMAIN waiters[c] : waiters[c][j] = q => i = j
    BY <2>1, StandingNow DEF QueueInv
  <2>3. Door(q)' = c
    BY <2>2, DoorKept
  <2>4. q # r
    BY <1>3, <2>2
  <2> QED
    BY <2>1, <2>2, <2>3, <2>4
<1> QED
  BY <1>2, <1>3

LEMMA StandingWith ==
  ASSUME TypeOK, Standing, NEW r \in Requests, NEW b \in Bulkheads, Door(r) = b,
         pc[r] \notin Parked, pc'[r] \in Parked, depth' = depth,
         waiters' = [waiters EXCEPT ![b] = Append(@, r)],
         \A q \in Requests : q # r => pc'[q] = pc[q]
  PROVE  Standing'
<1> SUFFICES ASSUME NEW c \in Bulkheads, NEW i \in DOMAIN waiters'[c]
             PROVE  \E q \in Requests :
                      /\ waiters'[c][i] = q /\ pc'[q] \in Parked /\ Door(q)' = c
                      /\ \A j \in DOMAIN waiters'[c] : waiters'[c][j] = q => i = j
  BY StandingNext
<1> DEFINE n == Len(waiters[b])
<1>1. \A d \in Bulkheads : d # b => waiters'[d] = waiters[d]
  BY DEF TypeOK
<1>2. /\ n \in Nat /\ DOMAIN waiters[b] = 1..n
      /\ DOMAIN waiters'[b] = 1..(n + 1)
      /\ waiters'[b][n + 1] = r
      /\ \A k \in 1..n : waiters'[b][k] = waiters[b][k]
  <2>1. waiters[b] \in Seq(Requests) /\ waiters'[b] = Append(waiters[b], r)
    BY DEF TypeOK
  <2>2. /\ Append(waiters[b], r) \in Seq(Requests)
        /\ Len(Append(waiters[b], r)) = Len(waiters[b]) + 1
        /\ \A k \in 1..Len(waiters[b]) : Append(waiters[b], r)[k] = waiters[b][k]
        /\ Append(waiters[b], r)[Len(waiters[b]) + 1] = r
    BY <2>1, AppendProperties
  <2> QED
    BY <2>1, <2>2, LenProperties
<1> HIDE DEF n
<1>3. \A k \in 1..(n + 1) : k \in 1..n \/ k = n + 1
  BY <1>2
<1>4. \A k \in 1..n : k # n + 1
  BY <1>2
<1>5. ASSUME NEW k \in 1..n PROVE waiters[b][k] # r
  BY <1>2, StandingNow
<1>6. Door(r)' = b
  BY DoorKept
<1>7. CASE c = b /\ i = n + 1
  BY <1>2, <1>3, <1>5, <1>6, <1>7
<1>8. CASE c = b /\ i \in 1..n
  <2>1. PICK q \in Requests :
           /\ waiters[b][i] = q /\ pc[q] \in Parked /\ Door(q) = b
           /\ \A j \in DOMAIN waiters[b] : waiters[b][j] = q => i = j
    BY <1>2, <1>8, StandingNow
  <2>2. Door(q)' = b
    BY <2>1, DoorKept
  <2>3. q # r
    BY <2>1
  <2> QED
    BY <1>2, <1>3, <1>8, <2>1, <2>2, <2>3
<1>9. CASE c # b
  <2>1. waiters'[c] = waiters[c] /\ i \in DOMAIN waiters[c]
    BY <1>1, <1>9
  <2>2. PICK q \in Requests :
           /\ waiters[c][i] = q /\ pc[q] \in Parked /\ Door(q) = c
           /\ \A j \in DOMAIN waiters[c] : waiters[c][j] = q => i = j
    BY <2>1, StandingNow
  <2>3. Door(q)' = c
    BY <2>2, DoorKept
  <2>4. q # r
    BY <1>9, <2>2
  <2> QED
    BY <2>1, <2>2, <2>3, <2>4
<1> QED
  BY <1>2, <1>3, <1>7, <1>8, <1>9

\* A release wakes only those who wait.
LEMMA ReleaseFutures ==
  ASSUME TypeOK, DepthInv, QueueInv, NEW B, B \subseteq Bulkheads, Release(B)
  PROVE  \A q \in Requests : fut'[q] # "none" <=> fut[q] # "none"
<1>1. \A q \in Wake(B) : fut[q] = "pending"
  BY FirstFacts DEF Wake
<1> QED
  BY <1>1 DEF Release, TypeOK

LEMMA QueueStep ==
  ASSUME TypeOK, DepthInv, QueueInv, [Next]_vars
  PROVE  QueueInv'
<1> USE DEF Goto, Parked
<1>w. ASSUME NEW b \in Bulkheads PROVE \A q \in Wake({b}) : fut[q] = "pending"
  BY FirstFacts DEF Wake
<1>d. ASSUME NEW r \in Requests, pc[r] \in OnTheWay PROVE Door(r) \in Bulkheads
  BY <1>d, OnItsRoute
<1>1. ASSUME NEW r \in Requests, Try(r) PROVE QueueInv'
  <2>1. pc[r] = "trying" /\ Door(r) \in Bulkheads /\ depth' = depth
    BY <1>1, <1>d DEF Try, OnTheWay
  <2>2. CASE Locked(Door(r))
    <3> DEFINE b == Door(r)
    <3>1. /\ pc' = [pc EXCEPT ![r] = "waiting"] /\ fut' = [fut EXCEPT ![r] = "pending"]
          /\ waiters' = [waiters EXCEPT ![b] = Append(@, r)]
      BY <1>1, <2>2 DEF Try
    <3>2. b \in Bulkheads /\ Door(r) = b
      BY <2>1
    <3>3. /\ pc[r] \notin Parked /\ pc'[r] \in Parked
          /\ \A q \in Requests : q # r => pc'[q] = pc[q]
      BY <2>1, <3>1 DEF TypeOK
    <3> HIDE DEF b
    <3>4. Standing'
      BY <2>1, <3>1, <3>2, <3>3, StandingWith DEF QueueInv
    <3> QED
      BY <3>1, <3>4 DEF QueueInv, TypeOK
  <2>3. CASE ~ Locked(Door(r))
    <3>1. pc' = [pc EXCEPT ![r] = "acquired"] /\ waiters' = waiters /\ fut' = fut
      BY <1>1, <2>3 DEF Try
    <3>2. Standing'
      BY <2>1, <3>1, StandingStays DEF QueueInv, TypeOK
    <3> QED
      BY <2>1, <3>1, <3>2 DEF QueueInv, TypeOK
  <2> QED
    BY <2>2, <2>3
<1>2. ASSUME NEW r \in Requests, Resume(r) PROVE QueueInv'
  <2>1. pc[r] = "waiting" /\ Door(r) \in Bulkheads /\ depth' = depth
    BY <1>2, <1>d DEF Resume, OnTheWay
  <2>2. Standing'
    BY <1>2, <2>1, StandingWithout DEF Resume, TypeOK
  <2>3. \A q \in Requests : fut'[q] # "none" <=> fut[q] # "none" /\ q # r
    BY <1>2, <1>w, <2>1 DEF Resume, TypeOK
  <2> QED
    BY <1>2, <2>2, <2>3 DEF Resume, QueueInv, TypeOK
<1>3. ASSUME NEW r \in Requests, Expire(r) PROVE QueueInv'
  <2>1. Standing'
    BY <1>3, StandingStays DEF Expire, QueueInv, TypeOK
  <2> QED
    BY <1>3, <2>1 DEF Expire, QueueInv, TypeOK
<1>4. ASSUME NEW r \in Requests, Cancel(r) PROVE QueueInv'
  <2>1. Standing'
    BY <1>4, StandingStays DEF Cancel, QueueInv, TypeOK
  <2> QED
    BY <1>4, <2>1 DEF Cancel, QueueInv, TypeOK
<1>5. ASSUME NEW r \in Requests, GiveUp(r) PROVE QueueInv'
  <2>1. Standing'
    BY <1>5, StandingStays DEF GiveUp, QueueInv, TypeOK
  <2> QED
    BY <1>5, <2>1 DEF GiveUp, QueueInv, TypeOK
<1>6. ASSUME NEW r \in Requests, Leave(r) PROVE QueueInv'
  <2>1. pc[r] = "leaving" /\ Door(r) \in Bulkheads /\ depth' = depth
    BY <1>6, <1>d DEF Leave, OnTheWay
  <2>2. Standing'
    BY <1>6, <2>1, StandingWithout DEF Leave, TypeOK
  <2>3. \A q \in Requests : fut'[q] # "none" <=> fut[q] # "none" /\ q # r
    BY <1>6, <1>w, <2>1 DEF Leave, TypeOK
  <2> QED
    BY <1>6, <2>2, <2>3 DEF Leave, QueueInv, TypeOK
<1>7. ASSUME NEW r \in Requests, Admit(r) PROVE QueueInv'
  <2>1. /\ pc[r] = "acquired" /\ waiters' = waiters /\ fut' = fut
        /\ \A q \in Requests : q # r => pc'[q] = pc[q] /\ depth'[q] = depth[q]
        /\ pc'[r] \in {"inside", "trying"}
    BY <1>7 DEF Admit, TypeOK
  <2>2. Standing'
    BY <2>1, StandingStays DEF QueueInv
  <2> QED
    BY <2>1, <2>2 DEF QueueInv
<1>8. ASSUME NEW r \in Requests, Refuse(r) \/ Finish(r) PROVE QueueInv'
  <2>1. /\ pc[r] \in {"left", "inside"} /\ waiters' = waiters /\ Release(Entered(r))
        /\ \A q \in Requests : q # r => pc'[q] = pc[q] /\ depth'[q] = depth[q]
        /\ pc'[r] \in {"busy", "cancelled", "served"}
    BY <1>8 DEF Refuse, Finish, ExitSlots, TypeOK
  <2>2. Standing'
    BY <2>1, StandingStays DEF QueueInv
  <2>3. \A q \in Requests : fut'[q] # "none" <=> fut[q] # "none"
    BY <2>1, OnItsRoute, ReleaseFutures
  <2> QED
    BY <2>1, <2>2, <2>3 DEF QueueInv
<1>9. CASE UNCHANGED vars
  BY <1>9 DEF vars, QueueInv, Standing, Door
<1> QED
  BY <1>1, <1>2, <1>3, <1>4, <1>5, <1>6, <1>7, <1>8, <1>9 DEF Next, Progress

-----------------------------------------------------------------------------
(* Permits *)

LEMMA BalancedSame ==
  ASSUME NEW b \in Bulkheads, Balanced(b), Owners(b)' = Owners(b), value'[b] = value[b]
  PROVE  Balanced(b)'
BY DEF Balanced, Capacity

LEMMA BalancedGain ==
  ASSUME NEW b \in Bulkheads, Balanced(b), value[b] \in Nat, NEW q, q \notin Owners(b),
         Owners(b)' = Owners(b) \cup {q}, value'[b] = value[b] - 1
  PROVE  Balanced(b)'
<1>1. /\ IsFiniteSet(Owners(b)) /\ IsFiniteSet(Owners(b) \cup {q})
      /\ Cardinality(Owners(b) \cup {q}) = Cardinality(Owners(b)) + 1
      /\ Cardinality(Owners(b)) \in Nat
  BY FS_AddElement, FS_CardinalityType DEF Balanced
<1> QED
  BY <1>1, CapacityType DEF Balanced, Capacity

LEMMA BalancedLoss ==
  ASSUME NEW b \in Bulkheads, Balanced(b), value[b] \in Nat, NEW q, q \in Owners(b),
         Owners(b)' = Owners(b) \ {q}, value'[b] = value[b] + 1
  PROVE  Balanced(b)'
<1>1. /\ IsFiniteSet(Owners(b)) /\ IsFiniteSet(Owners(b) \ {q})
      /\ Cardinality(Owners(b) \ {q}) = Cardinality(Owners(b)) - 1
      /\ Cardinality(Owners(b)) \in Nat
  BY FS_RemoveElement, FS_CardinalityType DEF Balanced
<1> QED
  BY <1>1, CapacityType DEF Balanced, Capacity

\* A permit changes hands.
LEMMA BalancedHand ==
  ASSUME NEW b \in Bulkheads, Balanced(b), value[b] \in Nat,
         NEW q, q \in Owners(b), NEW p, p \notin Owners(b),
         Owners(b)' = (Owners(b) \ {q}) \cup {p}, value'[b] = value[b]
  PROVE  Balanced(b)'
<1>1. /\ IsFiniteSet(Owners(b)) /\ IsFiniteSet(Owners(b) \ {q})
      /\ Cardinality(Owners(b) \ {q}) = Cardinality(Owners(b)) - 1
      /\ Cardinality(Owners(b)) \in Nat
  BY FS_RemoveElement, FS_CardinalityType DEF Balanced
<1>2. /\ IsFiniteSet((Owners(b) \ {q}) \cup {p})
      /\ Cardinality((Owners(b) \ {q}) \cup {p}) = Cardinality(Owners(b) \ {q}) + 1
  BY <1>1, FS_AddElement
<1> QED
  BY <1>1, <1>2, CapacityType DEF Balanced, Capacity

\* Ownership in the next state, for a request that has a name.
LEMMA OwnersNext ==
  ASSUME NEW b
  PROVE  Owners(b)' = {q \in Requests : \/ b \in Entered(q)'
                                        \/ pc'[q] = "acquired" /\ Door(q)' = b
                                        \/ fut'[q] = "granted" /\ Door(q)' = b}
BY DEF Owners, Owns

LEMMA OwnersNow ==
  ASSUME NEW b
  PROVE  Owners(b) = {q \in Requests : \/ b \in Entered(q)
                                       \/ pc[q] = "acquired" /\ Door(q) = b
                                       \/ fut[q] = "granted" /\ Door(q) = b}
BY DEF Owners, Owns

LEMMA PlaceKept ==
  ASSUME NEW q, depth'[q] = depth[q]
  PROVE  Entered(q)' = Entered(q) /\ Door(q)' = Door(q)
BY DEF Entered, Door

\* A step that neither takes nor hands out a permit.
LEMMA OwnersKept ==
  ASSUME depth' = depth,
         \A q \in Requests : /\ pc'[q] = "acquired" <=> pc[q] = "acquired"
                             /\ fut'[q] = "granted" <=> fut[q] = "granted"
  PROVE  \A b : Owners(b)' = Owners(b)
<1> SUFFICES ASSUME NEW b PROVE Owners(b)' = Owners(b)
  OBVIOUS
<1>1. \A q : Entered(q)' = Entered(q) /\ Door(q)' = Door(q)
  BY PlaceKept
<1> QED
  BY <1>1, OwnersNext, OwnersNow

LEMMA WakeOne == \A b : Wake({b}) = First(b)
BY DEF Wake

\* The slots are left: each permit goes to the first in its queue, if any.
LEMMA ExitBalanced ==
  ASSUME TypeOK, DepthInv, QueueInv, NEW r \in Requests, ExitSlots(r),
         pc[r] \in {"left", "inside"}, pc'[r] \in {"busy", "cancelled", "served"},
         \A q \in Requests : q # r => pc'[q] = pc[q],
         NEW b \in Bulkheads, Balanced(b)
  PROVE  Balanced(b)'
<1>1. fut[r] = "none"
  BY DEF QueueInv, Parked
<1>2. /\ \A q \in Requests : q # r => Entered(q)' = Entered(q) /\ Door(q)' = Door(q)
      /\ Entered(r)' = {}
  <2>1. \A q \in Requests : q # r => depth'[q] = depth[q]
    BY DEF ExitSlots, TypeOK
  <2>2. depth'[r] = 0
    BY DEF ExitSlots, TypeOK
  <2>3. Entered(r)' = {}
    BY <2>2, EnteredNext DEF EnteredAt, Stops
  <2> QED
    BY <2>1, <2>3, PlaceKept
<1>3. Entered(r) \subseteq Bulkheads /\ value[b] \in Nat
  <2>1. Entered(r) \subseteq Bulkheads
    BY OnItsRoute
  <2>2. value[b] \in Nat
    BY CapacityType DEF TypeOK
  <2> QED
    BY <2>1, <2>2
<1>4. \A c \in Bulkheads : \A q \in First(c) : q \in Requests /\ fut[q] = "pending" /\ Door(q) = c
  BY FirstFacts
<1>5. \A q \in Requests : fut'[q] = "granted" <=> (fut[q] = "granted" \/ q \in Wake(Entered(r)))
  BY DEF ExitSlots, Release
<1>6. \A q \in Requests : q \in Wake(Entered(r)) <=> \E c \in Entered(r) : q \in First(c)
  BY DEF Wake
<1>7. fut'[r] # "granted" /\ r \notin First(b)
  BY <1>1, <1>3, <1>4, <1>5, <1>6
<1>8. ASSUME NEW q \in Requests, q # r, Door(q) = b
      PROVE  fut'[q] = "granted" <=>
                (fut[q] = "granted" \/ (b \in Entered(r) /\ q \in First(b)))
  BY <1>3, <1>4, <1>5, <1>6, <1>8
<1>9. ASSUME NEW q \in Requests, q # r
      PROVE  q \in Owners(b)' <=> (q \in Owners(b) \/ (b \in Entered(r) /\ q \in First(b)))
  <2>1. Entered(q)' = Entered(q) /\ Door(q)' = Door(q) /\ pc'[q] = pc[q]
    BY <1>2, <1>9
  <2>2. q \in First(b) => Door(q) = b
    BY <1>4
  <2> QED
    BY <1>8, <1>9, <2>1, <2>2, OwnersNext, OwnersNow
<1>10. r \notin Owners(b)' /\ (r \in Owners(b) <=> b \in Entered(r))
  BY <1>1, <1>2, <1>7, OwnersNext, OwnersNow
<1>11. /\ Owners(b) \subseteq Requests /\ First(b) \subseteq Requests
       /\ \A q \in Owners(b)' : q \in Requests
  BY <1>4, OwnersNext, OwnersNow
<1>12. \A q \in First(b) : q \notin Owners(b)
  BY FirstFacts
<1>13. value'[b] = IF b \in Entered(r) /\ First(b) = {} THEN value[b] + 1 ELSE value[b]
  BY DEF ExitSlots, Release
<1>14. CASE b \notin Entered(r)
  <2>1. Owners(b)' = Owners(b)
    BY <1>9, <1>10, <1>11, <1>14
  <2> QED
    BY <1>13, <1>14, <2>1, BalancedSame
<1>15. CASE b \in Entered(r) /\ First(b) = {}
  <2>1. Owners(b)' = Owners(b) \ {r}
    BY <1>9, <1>10, <1>11, <1>15
  <2> QED
    BY <1>3, <1>10, <1>13, <1>15, <2>1, BalancedLoss
<1>16. CASE b \in Entered(r) /\ First(b) # {}
  <2>1. PICK p \in First(b) : First(b) = {p}
    BY <1>16, FirstFacts
  <2>2. Owners(b)' = (Owners(b) \ {r}) \cup {p}
    BY <1>7, <1>9, <1>10, <1>11, <1>16, <2>1
  <2> QED
    BY <1>3, <1>10, <1>12, <1>13, <1>16, <2>1, <2>2, BalancedHand
<1> QED
  BY <1>14, <1>15, <1>16

LEMMA PermitStep ==
  ASSUME TypeOK, DepthInv, QueueInv, [Next]_vars, NEW b \in Bulkheads, Balanced(b)
  PROVE  Balanced(b)'
<1> USE DEF Goto
<1>v. value[b] \in Nat
  BY CapacityType DEF TypeOK
<1>d. ASSUME NEW r \in Requests, pc[r] \in OnTheWay
      PROVE  Door(r) \in Bulkheads /\ Door(r) \notin Entered(r)
  BY <1>d, OnItsRoute
<1>k. ASSUME depth' = depth PROVE \A q : Entered(q)' = Entered(q) /\ Door(q)' = Door(q)
  BY <1>k, PlaceKept
<1>1. ASSUME NEW r \in Requests, Try(r) PROVE Balanced(b)'
  <2>1. pc[r] = "trying" /\ depth' = depth /\ Door(r) \in Bulkheads /\ Door(r) \notin Entered(r)
    BY <1>1, <1>d DEF Try, OnTheWay
  <2>2. fut[r] = "none"
    BY <2>1 DEF QueueInv, Parked
  <2>3. CASE Locked(Door(r))
    <3>1. /\ pc' = [pc EXCEPT ![r] = "waiting"] /\ fut' = [fut EXCEPT ![r] = "pending"]
          /\ value' = value
      BY <1>1, <2>3 DEF Try
    <3>2. Owners(b)' = Owners(b)
      BY <2>1, <2>2, <3>1, OwnersKept DEF TypeOK
    <3> QED
      BY <3>1, <3>2, BalancedSame
  <2>4. CASE ~ Locked(Door(r))
    <3>1. /\ pc' = [pc EXCEPT ![r] = "acquired"] /\ fut' = fut
          /\ value' = [value EXCEPT ![Door(r)] = @ - 1]
      BY <1>1, <2>4 DEF Try
    <3>2. \A q \in Requests : q # r => (q \in Owners(b)' <=> q \in Owners(b))
      BY <1>k, <2>1, <3>1, OwnersNext, OwnersNow DEF TypeOK
    <3>3. /\ r \in Owners(b) <=> b \in Entered(r)
          /\ r \in Owners(b)' <=> (b \in Entered(r) \/ b = Door(r))
      <4>1. pc'[r] = "acquired" /\ fut'[r] = "none"
        BY <2>2, <3>1 DEF TypeOK
      <4> QED
        BY <1>k, <2>1, <2>2, <4>1, OwnersNext, OwnersNow
    <3>4. Owners(b) \subseteq Requests /\ \A q \in Owners(b)' : q \in Requests
      BY OwnersNext, OwnersNow
    <3>5. CASE b = Door(r)
      <4>1. r \notin Owners(b) /\ Owners(b)' = Owners(b) \cup {r}
        BY <2>1, <3>2, <3>3, <3>4, <3>5
      <4>2. value'[b] = value[b] - 1
        BY <2>1, <3>1, <3>5 DEF TypeOK
      <4> QED
        BY <1>v, <4>1, <4>2, BalancedGain
    <3>6. CASE b # Door(r)
      <4>1. Owners(b)' = Owners(b)
        BY <3>2, <3>3, <3>4, <3>6
      <4>2. value'[b] = value[b]
        BY <3>1, <3>6 DEF TypeOK
      <4> QED
        BY <4>1, <4>2, BalancedSame
    <3> QED
      BY <3>5, <3>6
  <2> QED
    BY <2>3, <2>4
<1>2. ASSUME NEW r \in Requests, Resume(r) PROVE Balanced(b)'
  <2> DEFINE d == Door(r)
             next == IF value[d] > 0 THEN Wake({d}) ELSE {}
  <2>1. /\ pc[r] = "waiting" /\ fut[r] = "granted" /\ depth' = depth
        /\ d \in Bulkheads /\ d \notin Entered(r)
    BY <1>2, <1>d DEF Resume, OnTheWay, Parked
  <2>2. /\ fut' = [q \in Requests |->
                     IF q = r THEN "none" ELSE IF q \in next THEN "granted" ELSE fut[q]]
        /\ value' = [value EXCEPT ![d] = IF next # {} THEN @ - 1 ELSE @]
        /\ pc' = [pc EXCEPT ![r] = "acquired"]
    BY <1>2 DEF Resume
  <2>3. /\ \A q \in next : q \in Requests /\ fut[q] = "pending" /\ Door(q) = d /\ q \notin Owners(d)
        /\ next = {} \/ \E q \in next : next = {q}
    BY <2>1, FirstFacts, WakeOne
  <2>4. Door(r) = d
    OBVIOUS
  <2> HIDE DEF d, next
  <2>5. ASSUME NEW q \in Requests
        PROVE  q \in Owners(b)' <=> (q \in Owners(b) \/ (b = d /\ q \in next))
    <3>1. Entered(q)' = Entered(q) /\ Door(q)' = Door(q)
      BY <1>k, <2>1
    <3>2. CASE q = r
      <4>1. pc'[q] = "acquired" /\ fut'[q] = "none" /\ q \notin next
        BY <2>1, <2>2, <2>3, <3>2 DEF TypeOK
      <4> QED
        BY <2>1, <2>4, <3>1, <3>2, <4>1, OwnersNext, OwnersNow
    <3>3. CASE q # r
      <4>1. pc'[q] = pc[q] /\ fut'[q] = IF q \in next THEN "granted" ELSE fut[q]
        BY <2>2, <3>3 DEF TypeOK
      <4> QED
        BY <2>3, <3>1, <3>3, <4>1, OwnersNext, OwnersNow
    <3> QED
      BY <3>2, <3>3
  <2>6. Owners(b) \subseteq Requests /\ \A q \in Owners(b)' : q \in Requests
    BY OwnersNext, OwnersNow
  <2>7. CASE b = d /\ next # {}
    <3>1. PICK p \in next : next = {p}
      BY <2>3, <2>7
    <3>2. p \notin Owners(b) /\ Owners(b)' = Owners(b) \cup {p}
      BY <2>3, <2>5, <2>6, <2>7, <3>1
    <3>3. value'[b] = value[b] - 1
      BY <2>2, <2>7 DEF TypeOK
    <3> QED
      BY <1>v, <3>2, <3>3, BalancedGain
  <2>8. CASE b # d \/ next = {}
    <3>1. Owners(b)' = Owners(b)
      BY <2>5, <2>6, <2>8
    <3>2. value'[b] = value[b]
      BY <2>2, <2>8 DEF TypeOK
    <3> QED
      BY <3>1, <3>2, BalancedSame
  <2> QED
    BY <2>7, <2>8
<1>3. ASSUME NEW r \in Requests, Expire(r) \/ Cancel(r) \/ GiveUp(r) PROVE Balanced(b)'
  <2>1. /\ depth' = depth /\ value' = value
        /\ \A q \in Requests : /\ pc'[q] = "acquired" <=> pc[q] = "acquired"
                               /\ fut'[q] = "granted" <=> fut[q] = "granted"
    BY <1>3 DEF Expire, Cancel, GiveUp, TypeOK
  <2> QED
    BY <2>1, OwnersKept, BalancedSame
<1>4. ASSUME NEW r \in Requests, Leave(r) PROVE Balanced(b)'
  <2> DEFINE d == Door(r)
             next == IF fut[r] = "granted" THEN Wake({d}) ELSE {}
  <2>1. /\ pc[r] = "leaving" /\ depth' = depth
        /\ d \in Bulkheads /\ d \notin Entered(r)
    BY <1>4, <1>d DEF Leave, OnTheWay, Parked
  <2>2. /\ fut' = [q \in Requests |->
                     IF q = r THEN "none" ELSE IF q \in next THEN "granted" ELSE fut[q]]
        /\ value' = [value EXCEPT ![d] = IF fut[r] = "granted" /\ next = {} THEN @ + 1 ELSE @]
        /\ pc' = [pc EXCEPT ![r] = "left"]
    BY <1>4 DEF Leave
  <2>3. /\ \A q \in next : q \in Requests /\ fut[q] = "pending" /\ Door(q) = d /\ q \notin Owners(d)
        /\ next = {} \/ \E q \in next : next = {q}
        /\ fut[r] # "granted" => next = {}
    BY <2>1, FirstFacts, WakeOne
  <2>4. Door(r) = d
    OBVIOUS
  <2> HIDE DEF d, next
  <2>5. ASSUME NEW q \in Requests, q # r
        PROVE  q \in Owners(b)' <=> (q \in Owners(b) \/ (b = d /\ q \in next))
    <3>1. Entered(q)' = Entered(q) /\ Door(q)' = Door(q)
      BY <1>k, <2>1
    <3>2. pc'[q] = pc[q] /\ fut'[q] = IF q \in next THEN "granted" ELSE fut[q]
      BY <2>2, <2>5 DEF TypeOK
    <3> QED
      BY <2>3, <3>1, <3>2, OwnersNext, OwnersNow
  <2>6. /\ r \in Owners(b)' <=> b \in Entered(r)
        /\ r \in Owners(b) <=> (b \in Entered(r) \/ (b = d /\ fut[r] = "granted"))
    <3>1. Entered(r)' = Entered(r) /\ Door(r)' = Door(r)
      BY <1>k, <2>1
    <3>2. pc'[r] = "left" /\ fut'[r] = "none"
      BY <2>2 DEF TypeOK
    <3> QED
      BY <2>1, <2>4, <3>1, <3>2, OwnersNext, OwnersNow
  <2>7. Owners(b) \subseteq Requests /\ \A q \in Owners(b)' : q \in Requests
    BY OwnersNext, OwnersNow
  <2>8. CASE b # d \/ fut[r] # "granted"
    <3>1. Owners(b)' = Owners(b)
      BY <2>3, <2>5, <2>6, <2>7, <2>8
    <3>2. value'[b] = value[b]
      BY <2>2, <2>8 DEF TypeOK
    <3> QED
      BY <3>1, <3>2, BalancedSame
  <2>9. CASE b = d /\ fut[r] = "granted" /\ next = {}
    <3>1. r \in Owners(b) /\ Owners(b)' = Owners(b) \ {r}
      BY <2>1, <2>5, <2>6, <2>7, <2>9
    <3>2. value'[b] = value[b] + 1
      BY <2>2, <2>9 DEF TypeOK
    <3> QED
      BY <1>v, <3>1, <3>2, BalancedLoss
  <2>10. CASE b = d /\ fut[r] = "granted" /\ next # {}
    <3>1. PICK p \in next : next = {p}
      BY <2>3, <2>10
    <3>2. r \in Owners(b) /\ p \notin Owners(b) /\ Owners(b)' = (Owners(b) \ {r}) \cup {p}
      BY <2>1, <2>3, <2>5, <2>6, <2>7, <2>10, <3>1
    <3>3. value'[b] = value[b]
      BY <2>2, <2>10 DEF TypeOK
    <3> QED
      BY <1>v, <3>2, <3>3, BalancedHand
  <2> QED
    BY <2>8, <2>9, <2>10
<1>5. ASSUME NEW r \in Requests, Admit(r) PROVE Balanced(b)'
  <2>1. /\ pc[r] = "acquired" /\ fut' = fut /\ value' = value
        /\ depth' = [depth EXCEPT ![r] = @ + 1]
        /\ pc'[r] \in {"inside", "trying"} /\ \A q \in Requests : q # r => pc'[q] = pc[q]
    BY <1>5 DEF Admit, TypeOK
  <2>2. fut[r] = "none"
    BY <2>1 DEF QueueInv, Parked
  <2>3. Entered(r)' = Entered(r) \cup {Door(r)}
    <3>1. depth[r] \in 0..2 /\ depth[r] < Stops(r) /\ Stops(r) \in 1..2
      BY <2>1 DEF TypeOK, DepthInv, OnTheWay, Stops
    <3>2. depth'[r] = depth[r] + 1
      BY <2>1 DEF TypeOK
    <3>3. depth[r] + 1 \in 0..2 /\ depth[r] + 1 <= Stops(r)
      BY <3>1
    <3>4. EnteredAt(r, depth[r] + 1) = Entered(r) \cup {Door(r)}
      BY <2>1, OnItsRoute DEF OnTheWay
    <3> QED
      BY <3>2, <3>3, <3>4, EnteredNext
  <2>4. \A q \in Requests : q # r => Entered(q)' = Entered(q) /\ Door(q)' = Door(q)
    <3>1. \A q \in Requests : q # r => depth'[q] = depth[q]
      BY <2>1 DEF TypeOK
    <3> QED
      BY <3>1, PlaceKept
  <2>5. \A q \in Requests : q # r => (q \in Owners(b)' <=> q \in Owners(b))
    BY <2>1, <2>4, OwnersNext, OwnersNow
  <2>6. r \in Owners(b)' <=> r \in Owners(b)
    BY <2>1, <2>2, <2>3, OwnersNext, OwnersNow
  <2>7. Owners(b)' = Owners(b)
    BY <2>5, <2>6, OwnersNext, OwnersNow
  <2> QED
    BY <2>1, <2>7, BalancedSame
<1>6. ASSUME NEW r \in Requests, Refuse(r) \/ Finish(r) PROVE Balanced(b)'
  <2>1. /\ pc[r] \in {"left", "inside"} /\ pc'[r] \in {"busy", "cancelled", "served"}
        /\ ExitSlots(r) /\ \A q \in Requests : q # r => pc'[q] = pc[q]
    BY <1>6 DEF Refuse, Finish, TypeOK
  <2> QED
    BY <2>1, ExitBalanced
<1>7. CASE UNCHANGED vars
  <2>1. Owners(b)' = Owners(b) /\ value' = value
    BY <1>7, OwnersKept DEF vars
  <2> QED
    BY <2>1, BalancedSame
<1> QED
  BY <1>1, <1>2, <1>3, <1>4, <1>5, <1>6, <1>7 DEF Next, Progress

-----------------------------------------------------------------------------
(* The gauge and the count of refusals *)

LEMMA InsideNext ==
  ASSUME NEW b
  PROVE  InsideOf(b)' = {q \in Requests : b \in Entered(q)'}
BY DEF InsideOf

LEMMA InsideKept ==
  ASSUME depth' = depth
  PROVE  \A b : InsideOf(b)' = InsideOf(b)
<1>1. \A q : Entered(q)' = Entered(q)
  BY PlaceKept
<1> QED
  BY <1>1, InsideNext DEF InsideOf

\* A step lets one request into a bulkhead, which took its permit before, or one
\* out of it, and the gauge follows.
LEMMA InsideMoves ==
  ASSUME TypeOK, DepthInv, [Next]_vars, NEW b \in Bulkheads
  PROVE  \/ InsideOf(b)' = InsideOf(b) /\ inFlight'[b] = inFlight[b]
         \/ \E r \in Requests :
               /\ pc[r] = "acquired" /\ Door(r) = b /\ r \notin InsideOf(b)
               /\ InsideOf(b)' = InsideOf(b) \cup {r} /\ inFlight'[b] = inFlight[b] + 1
         \/ \E r \in Requests :
               /\ r \in InsideOf(b)
               /\ InsideOf(b)' = InsideOf(b) \ {r} /\ inFlight'[b] = inFlight[b] - 1
<1> DEFINE Stays == InsideOf(b)' = InsideOf(b) /\ inFlight'[b] = inFlight[b]
           Enters(r) == /\ pc[r] = "acquired" /\ Door(r) = b /\ r \notin InsideOf(b)
                        /\ InsideOf(b)' = InsideOf(b) \cup {r}
                        /\ inFlight'[b] = inFlight[b] + 1
           Leaves(r) == /\ r \in InsideOf(b)
                        /\ InsideOf(b)' = InsideOf(b) \ {r} /\ inFlight'[b] = inFlight[b] - 1
<1>1. ASSUME NEW r \in Requests,
             Try(r) \/ Resume(r) \/ Expire(r) \/ Cancel(r) \/ GiveUp(r) \/ Leave(r)
      PROVE  Stays
  BY <1>1, InsideKept DEF Try, Resume, Expire, Cancel, GiveUp, Leave
<1>2. ASSUME NEW r \in Requests, Admit(r) PROVE Stays \/ Enters(r)
  <2> DEFINE d == Door(r)
  <2>1. /\ pc[r] \in OnTheWay /\ depth' = [depth EXCEPT ![r] = @ + 1]
        /\ inFlight' = [inFlight EXCEPT ![d] = @ + 1] /\ pc[r] = "acquired"
    BY <1>2 DEF Admit, OnTheWay
  <2>2. d \in Bulkheads /\ d \notin Entered(r)
    BY <2>1, OnItsRoute
  <2> HIDE DEF d
  <2>3. Entered(r)' = Entered(r) \cup {d}
    <3>1. depth[r] \in 0..2 /\ depth[r] < Stops(r) /\ Stops(r) \in 1..2
      BY <2>1 DEF TypeOK, DepthInv, Stops
    <3>2. depth'[r] = depth[r] + 1
      BY <2>1 DEF TypeOK
    <3>3. depth[r] + 1 \in 0..2 /\ depth[r] + 1 <= Stops(r)
      BY <3>1
    <3>4. EnteredAt(r, depth[r] + 1) = Entered(r) \cup {d}
      BY <2>1, OnItsRoute DEF d
    <3> QED
      BY <3>2, <3>3, <3>4, EnteredNext
  <2>4. \A q \in Requests : q # r => Entered(q)' = Entered(q)
    <3>1. \A q \in Requests : q # r => depth'[q] = depth[q]
      BY <2>1 DEF TypeOK
    <3> QED
      BY <3>1, PlaceKept
  <2>5. CASE b = d
    <3>1. r \notin InsideOf(b) /\ InsideOf(b)' = InsideOf(b) \cup {r}
      BY <2>2, <2>3, <2>4, <2>5, InsideNext DEF InsideOf
    <3>2. inFlight'[b] = inFlight[b] + 1
      BY <2>1, <2>5 DEF TypeOK
    <3> QED
      BY <2>1, <2>5, <3>1, <3>2 DEF d
  <2>6. CASE b # d
    <3>1. InsideOf(b)' = InsideOf(b)
      BY <2>3, <2>4, <2>6, InsideNext DEF InsideOf
    <3>2. inFlight'[b] = inFlight[b]
      BY <2>1, <2>6 DEF TypeOK
    <3> QED
      BY <3>1, <3>2
  <2> QED
    BY <2>5, <2>6
<1>3. ASSUME NEW r \in Requests, Refuse(r) \/ Finish(r) PROVE Stays \/ Leaves(r)
  <2>1. /\ depth' = [depth EXCEPT ![r] = 0]
        /\ inFlight' = [c \in Bulkheads |->
                           IF c \in Entered(r) THEN inFlight[c] - 1 ELSE inFlight[c]]
    BY <1>3 DEF Refuse, Finish, ExitSlots
  <2>2. Entered(r)' = {}
    <3>1. depth'[r] = 0
      BY <2>1 DEF TypeOK
    <3> QED
      BY <3>1, EnteredNext DEF EnteredAt, Stops
  <2>3. \A q \in Requests : q # r => Entered(q)' = Entered(q)
    <3>1. \A q \in Requests : q # r => depth'[q] = depth[q]
      BY <2>1 DEF TypeOK
    <3> QED
      BY <3>1, PlaceKept
  <2>4. CASE b \in Entered(r)
    <3>1. r \in InsideOf(b) /\ InsideOf(b)' = InsideOf(b) \ {r}
      BY <2>2, <2>3, <2>4, InsideNext DEF InsideOf
    <3>2. inFlight'[b] = inFlight[b] - 1
      BY <2>1, <2>4
    <3> QED
      BY <3>1, <3>2
  <2>5. CASE b \notin Entered(r)
    <3>1. InsideOf(b)' = InsideOf(b)
      BY <2>2, <2>3, <2>5, InsideNext DEF InsideOf
    <3>2. inFlight'[b] = inFlight[b]
      BY <2>1, <2>5
    <3> QED
      BY <3>1, <3>2
  <2> QED
    BY <2>4, <2>5
<1>4. CASE UNCHANGED vars
  BY <1>4, InsideKept DEF vars
<1>5. Stays \/ \E r \in Requests : Enters(r) \/ Leaves(r)
  BY <1>1, <1>2, <1>3, <1>4 DEF Next, Progress
<1> QED
  BY <1>5

LEMMA GaugeStep ==
  ASSUME TypeOK, DepthInv, [Next]_vars, NEW b \in Bulkheads, Gauged(b)
  PROVE  Gauged(b)'
<1>1. CASE InsideOf(b)' = InsideOf(b) /\ inFlight'[b] = inFlight[b]
  BY <1>1 DEF Gauged
<1>2. ASSUME NEW r, r \notin InsideOf(b),
             InsideOf(b)' = InsideOf(b) \cup {r}, inFlight'[b] = inFlight[b] + 1
      PROVE  Gauged(b)'
  <2>1. /\ IsFiniteSet(InsideOf(b) \cup {r})
        /\ Cardinality(InsideOf(b) \cup {r}) = Cardinality(InsideOf(b)) + 1
    BY <1>2, FS_AddElement DEF Gauged
  <2> QED
    BY <1>2, <2>1 DEF Gauged
<1>3. ASSUME NEW r, r \in InsideOf(b),
             InsideOf(b)' = InsideOf(b) \ {r}, inFlight'[b] = inFlight[b] - 1
      PROVE  Gauged(b)'
  <2>1. /\ IsFiniteSet(InsideOf(b) \ {r})
        /\ Cardinality(InsideOf(b) \ {r}) = Cardinality(InsideOf(b)) - 1
    BY <1>3, FS_RemoveElement DEF Gauged
  <2> QED
    BY <1>3, <2>1 DEF Gauged
<1> QED
  BY <1>1, <1>2, <1>3, InsideMoves

LEMMA RefusedKept ==
  ASSUME RefusalInv, rejected' = rejected,
         \A q \in Requests : pc'[q] = "busy" <=> pc[q] = "busy"
  PROVE  RefusalInv'
<1>1. Refused' = Refused
  BY DEF Refused
<1> QED
  BY <1>1 DEF RefusalInv

LEMMA RefusedStep ==
  ASSUME TypeOK, DepthInv, RefusalInv, [Next]_vars
  PROVE  RefusalInv'
<1> USE DEF Goto
<1>1. ASSUME NEW r \in Requests,
             \/ Try(r) \/ Resume(r) \/ Expire(r) \/ Cancel(r) \/ GiveUp(r)
             \/ Leave(r) \/ Admit(r) \/ Finish(r)
      PROVE  RefusalInv'
  <2>1. rejected' = rejected /\ \A q \in Requests : pc'[q] = "busy" <=> pc[q] = "busy"
    BY <1>1 DEF Try, Resume, Expire, Cancel, GiveUp, Leave, Admit, Finish, TypeOK
  <2> QED
    BY <2>1, RefusedKept
<1>2. ASSUME NEW r \in Requests, Refuse(r) PROVE RefusalInv'
  <2> DEFINE d == Door(r)
  <2>1. pc[r] = "left" /\ d \in Bulkheads
    BY <1>2, OnItsRoute DEF Refuse, OnTheWay
  <2>2. CASE why[r] = "timeout"
    <3>1. rejected' = [rejected EXCEPT ![d] = @ + 1] /\ pc' = [pc EXCEPT ![r] = "busy"]
      BY <1>2, <2>2 DEF Refuse
    <3> HIDE DEF d
    <3>2. r \notin Refused /\ Refused' = Refused \cup {r}
      BY <2>1, <3>1 DEF Refused, TypeOK
    <3>3. /\ IsFiniteSet(Refused \cup {r})
          /\ Cardinality(Refused \cup {r}) = Cardinality(Refused) + 1
          /\ Cardinality(Refused) \in Nat
      BY <3>2, FS_AddElement, FS_CardinalityType DEF RefusalInv
    <3>4. rejected["global"] \in Nat /\ rejected["heavy"] \in Nat
      BY DEF TypeOK, Bulkheads
    <3>5. CASE d = "global"
      <4>1. /\ rejected'["global"] = rejected["global"] + 1
            /\ rejected'["heavy"] = rejected["heavy"]
        BY <3>1, <3>5 DEF TypeOK, Bulkheads
      <4> QED
        BY <3>2, <3>3, <3>4, <4>1 DEF RefusalInv
    <3>6. CASE d = "heavy"
      <4>1. /\ rejected'["heavy"] = rejected["heavy"] + 1
            /\ rejected'["global"] = rejected["global"]
        BY <3>1, <3>6 DEF TypeOK, Bulkheads
      <4> QED
        BY <3>2, <3>3, <3>4, <4>1 DEF RefusalInv
    <3> QED
      BY <2>1, <3>5, <3>6 DEF Bulkheads
  <2>3. CASE why[r] # "timeout"
    <3>1. rejected' = rejected /\ pc' = [pc EXCEPT ![r] = "cancelled"]
      BY <1>2, <2>3 DEF Refuse
    <3> QED
      BY <2>1, <3>1, RefusedKept DEF TypeOK
  <2> QED
    BY <2>2, <2>3
<1>3. CASE UNCHANGED vars
  BY <1>3, RefusedKept DEF vars
<1> QED
  BY <1>1, <1>2, <1>3 DEF Next, Progress

-----------------------------------------------------------------------------
(* Theorems *)

LEMMA Inductive == Spec => []IInv
<1>1. Init => IInv
  <2> SUFFICES ASSUME Init PROVE IInv
    OBVIOUS
  <2>1. \A r \in Requests : Entered(r) = {}
    BY EnteredIs DEF Init, EnteredAt, Stops
  <2>2. \A b \in Bulkheads : Owners(b) = {} /\ InsideOf(b) = {}
    BY <2>1, OwnersNow DEF Init, InsideOf
  <2>3. Refused = {}
    BY DEF Init, Refused
  <2>4. \A b \in Bulkheads : value[b] = Capacity[b] /\ inFlight[b] = 0 /\ rejected[b] = 0
    BY DEF Init
  <2>5. IsFiniteSet({}) /\ Cardinality({}) = 0
    BY FS_EmptySet
  <2>6. \A b \in Bulkheads : Capacity[b] \in 0..GlobalCapacity
    BY CapacityType, BulkheadsAre
  <2>7. CountInv
    <3>1. \A b \in Bulkheads : Balanced(b) /\ Gauged(b)
      BY <2>2, <2>4, <2>5, <2>6 DEF Balanced, Gauged
    <3>2. RefusalInv
      BY <2>3, <2>4, <2>5, BulkheadsAre DEF RefusalInv
    <3> QED
      BY <3>1, <3>2 DEF CountInv
  <2>8. TypeOK
    <3>1. value \in [Bulkheads -> 0..GlobalCapacity]
      BY <2>6, CapacityType DEF Init
    <3> QED
      BY <3>1 DEF Init, TypeOK
  <2>9. DepthInv
    BY DEF Init, DepthInv, Stops
  <2>10. QueueInv
    BY DEF Init, QueueInv, Standing, Parked
  <2> QED
    BY <2>7, <2>8, <2>9, <2>10 DEF IInv
<1>2. IInv /\ [Next]_vars => IInv'
  <2> SUFFICES ASSUME IInv, [Next]_vars PROVE IInv'
    OBVIOUS
  <2>1. TypeOK /\ DepthInv /\ QueueInv
    BY DEF IInv
  <2>2. TypeBut' /\ DepthInv' /\ QueueInv'
    BY <2>1, TypeStep, DepthStep, QueueStep
  <2>3. \A b \in Bulkheads : Balanced(b)' /\ Gauged(b)'
    BY <2>1, PermitStep, GaugeStep DEF IInv, CountInv
  <2>4. RefusalInv'
    BY <2>1, RefusedStep DEF IInv, CountInv
  <2>5. CountInv'
    BY <2>3, <2>4 DEF CountInv, Bulkheads
  <2>6. ASSUME NEW b \in Bulkheads PROVE value'[b] \in 0..GlobalCapacity /\ inFlight'[b] \in Nat
    <3>1. /\ IsFiniteSet(Owners(b)') /\ value'[b] + Cardinality(Owners(b)') = Capacity[b]
          /\ IsFiniteSet(InsideOf(b)') /\ inFlight'[b] = Cardinality(InsideOf(b)')
      BY <2>3 DEF Balanced, Gauged, Capacity
    <3>2. Cardinality(Owners(b)') \in Nat /\ Cardinality(InsideOf(b)') \in Nat
      BY <3>1, FS_CardinalityType
    <3>3. value'[b] \in Nat /\ Capacity[b] \in Nat /\ Capacity[b] <= GlobalCapacity
      BY <2>2, CapacityType, BulkheadsAre DEF TypeBut
    <3> QED
      BY <3>1, <3>2, <3>3, CapacityType
  <2>7. TypeOK'
    <3>1. value' \in [Bulkheads -> 0..GlobalCapacity] /\ inFlight' \in [Bulkheads -> Nat]
      BY <2>2, <2>6 DEF TypeBut
    <3> QED
      BY <2>2, <3>1 DEF TypeBut, TypeOK
  <2> QED
    BY <2>2, <2>5, <2>7 DEF IInv
<1> QED
  BY <1>1, <1>2, PTL DEF Spec

\* The permits of a bulkhead stay between none and its capacity: in particular
\* BoundedSemaphore.release never raises.
THEOREM BulkheadTypes == Spec => []TypeOK
<1>1. IInv => TypeOK
  BY DEF IInv
<1> QED
  BY <1>1, Inductive, PTL

\* Every permit is free or owned by one request, the gauge counts those inside,
\* and refusals are counted once, for any number of requests and any capacities.
THEOREM PermitsStayConserved == Spec => []PermitsAreConserved
<1>1. IInv => PermitsAreConserved
  BY DEF IInv, CountInv, Balanced, Gauged, RefusalInv, Refused, InsideOf,
         PermitsAreConserved, RejectionsAreCountedOnce
<1> QED
  BY <1>1, Inductive, PTL

\* Heavy requests never own more global permits than the heavy bulkhead has:
\* whoever is about to own one owns a heavy permit, too.
THEOREM HeavyLeavesRoom == Spec => []HeavyLeavesRoomForLight
<1>1. IInv => HeavyLeavesRoomForLight
  <2> SUFFICES ASSUME IInv PROVE HeavyLeavesRoomForLight
    OBVIOUS
  <2> DEFINE H == {r \in Heavy : Owns(r, "global")}
  <2>1. H \subseteq Owners("heavy")
    <3> SUFFICES ASSUME NEW r \in H PROVE r \in Owners("heavy")
      OBVIOUS
    <3>1. r \in Requests /\ r \in Heavy /\ TypeOK /\ DepthInv /\ QueueInv
      BY DEF Requests, IInv
    <3>2. depth[r] \in 0..2 /\ Entered(r) = EnteredAt(r, depth[r])
      BY <3>1, OnItsRoute DEF TypeOK
    <3>3. CASE "global" \in Entered(r)
      <4>1. "heavy" \in Entered(r)
        BY <3>1, <3>2, <3>3 DEF EnteredAt
      <4> QED
        BY <3>1, <4>1 DEF Owners, Owns
    <3>4. CASE pc[r] \in OnTheWay /\ Door(r) = "global"
      <4>1. Door(r) = DoorAt(r, depth[r])
        BY <3>1, <3>4, OnItsRoute
      <4>2. depth[r] # 0
        BY <3>1, <3>4, <4>1 DEF DoorAt
      <4>3. "heavy" \in Entered(r)
        BY <3>1, <3>2, <4>2 DEF EnteredAt
      <4> QED
        BY <3>1, <4>3 DEF Owners, Owns
    <3>5. "global" \in Entered(r) \/ (pc[r] \in OnTheWay /\ Door(r) = "global")
      BY <3>1 DEF Owns, OnTheWay, Parked, QueueInv
    <3> QED
      BY <3>3, <3>4, <3>5
  <2>2. /\ IsFiniteSet(Owners("heavy"))
        /\ value["heavy"] + Cardinality(Owners("heavy")) = HeavyCapacity
        /\ value["heavy"] \in Nat
    BY BulkheadsAre, CapacityType DEF IInv, CountInv, Balanced, TypeOK
  <2>3. /\ IsFiniteSet(H) /\ Cardinality(H) <= Cardinality(Owners("heavy"))
        /\ Cardinality(H) \in Nat /\ Cardinality(Owners("heavy")) \in Nat
    BY <2>1, <2>2, FS_Subset, FS_CardinalityType
  <2>4. Cardinality(H) <= HeavyCapacity
    BY <2>2, <2>3, CapacityType
  <2> QED
    BY <2>4 DEF HeavyLeavesRoomForLight
<1> QED
  BY <1>1, Inductive, PTL

-----------------------------------------------------------------------------
(* Each bulkhead is a limiter *)

\* Who has taken a permit and is not counted yet leaves room for itself.
LEMMA RoomForOne ==
  ASSUME IInv, NEW r \in Requests, pc[r] = "acquired", NEW b \in Bulkheads, Door(r) = b,
         r \notin InsideOf(b)
  PROVE  Cardinality(InsideOf(b)) < Capacity[b]
<1>1. InsideOf(b) \subseteq Owners(b) \ {r} /\ r \in Owners(b)
  BY DEF InsideOf, Owners, Owns
<1>2. IsFiniteSet(Owners(b)) /\ value[b] + Cardinality(Owners(b)) = Capacity[b]
  BY DEF IInv, CountInv, Balanced
<1>3. /\ IsFiniteSet(Owners(b) \ {r})
      /\ Cardinality(Owners(b) \ {r}) = Cardinality(Owners(b)) - 1
  BY <1>1, <1>2, FS_RemoveElement
<1>4. /\ Cardinality(InsideOf(b)) <= Cardinality(Owners(b) \ {r})
      /\ IsFiniteSet(InsideOf(b))
  BY <1>1, <1>3, FS_Subset
<1>5. Cardinality(InsideOf(b)) \in Nat /\ Cardinality(Owners(b)) \in Nat /\ value[b] \in Nat
  BY <1>2, <1>4, FS_CardinalityType, CapacityType DEF IInv, TypeOK
<1> QED
  BY <1>2, <1>3, <1>4, <1>5

\* What a step does to those inside a bulkhead, as a limiter of that capacity would.
LEMMA LimiterStep ==
  ASSUME IInv, [Next]_vars, NEW b \in Bulkheads
  PROVE  \/ InsideOf(b)' = InsideOf(b)
         \/ \E r \in Requests : /\ r \notin InsideOf(b) /\ Cardinality(InsideOf(b)) < Capacity[b]
                                /\ InsideOf(b)' = InsideOf(b) \cup {r}
         \/ \E r \in Requests : r \in InsideOf(b) /\ InsideOf(b)' = InsideOf(b) \ {r}
<1>1. TypeOK /\ DepthInv
  BY DEF IInv
<1>2. ASSUME NEW r \in Requests, pc[r] = "acquired", Door(r) = b, r \notin InsideOf(b)
      PROVE  Cardinality(InsideOf(b)) < Capacity[b]
  BY <1>2, RoomForOne
<1> QED
  BY <1>1, <1>2, InsideMoves

\* Whatever times out, is cancelled or is handed over in the queue, each bulkhead admits
\* and releases as a plain limiter of its capacity does (ApplicationBulkhead.slot): the
\* admission that SearchCalls starts from, and that of the heavy requests of Lifespan.
THEOREM BulkheadsLimit == Spec => BulkheadsAreSlots
<1>1. Init => GlobalSlots!Init /\ HeavySlots!Init
  <2> SUFFICES ASSUME Init PROVE InsideOf("global") = {} /\ InsideOf("heavy") = {}
    BY DEF GlobalSlots!Init, HeavySlots!Init
  <2>1. \A r \in Requests : Entered(r) = {}
    BY EnteredIs DEF Init, EnteredAt, Stops
  <2> QED
    BY <2>1 DEF InsideOf
<1>2. IInv /\ [Next]_vars => [GlobalSlots!Next]_(InsideOf("global"))
  <2> SUFFICES ASSUME IInv, [Next]_vars, InsideOf("global")' # InsideOf("global")
               PROVE  GlobalSlots!Next
    OBVIOUS
  <2>1. Capacity["global"] = GlobalCapacity
    BY CapacityType
  <2> QED
    BY <2>1, LimiterStep, BulkheadsAre
       DEF GlobalSlots!Next, GlobalSlots!Take, GlobalSlots!Give,
           GlobalSlots!Cardinality, Cardinality
<1>3. IInv /\ [Next]_vars => [HeavySlots!Next]_(InsideOf("heavy"))
  <2> SUFFICES ASSUME IInv, [Next]_vars, InsideOf("heavy")' # InsideOf("heavy")
               PROVE  HeavySlots!Next
    OBVIOUS
  <2>1. Capacity["heavy"] = HeavyCapacity
    BY CapacityType
  <2> QED
    BY <2>1, LimiterStep, BulkheadsAre
       DEF HeavySlots!Next, HeavySlots!Take, HeavySlots!Give,
           HeavySlots!Cardinality, Cardinality
<1> QED
  BY <1>1, <1>2, <1>3, Inductive, PTL
     DEF Spec, BulkheadsAreSlots, GlobalSlots!Spec, HeavySlots!Spec
=============================================================================
