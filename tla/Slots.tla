-------------------------------- MODULE Slots --------------------------------
(***************************************************************************)
(* What a limiter promises, however it is made: a number of slots, each    *)
(* with one holder.  A user that has none takes a free one, and gives it   *)
(* back; nobody holds two, and no slot is held that is not there.          *)
(***************************************************************************)
EXTENDS Naturals, FiniteSets

CONSTANTS Users, Capacity

VARIABLE holders    \* the users that have a slot

Init == holders = {}

Take(u) ==
    /\ u \notin holders
    /\ Cardinality(holders) < Capacity
    /\ holders' = holders \cup {u}

Give(u) ==
    /\ u \in holders
    /\ holders' = holders \ {u}

Next == \E u \in Users : Take(u) \/ Give(u)

Spec == Init /\ [][Next]_holders

=============================================================================
