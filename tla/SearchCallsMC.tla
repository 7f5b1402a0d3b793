---------------------------- MODULE SearchCallsMC ----------------------------
(* Small instances of SearchCalls for TLC. *)
EXTENDS SearchCalls, TLC

\* One retry after a back-off of one tick, and no retry with a tight timeout.
MCConfigs == {[deadline |-> 3, timeout |-> 2, retries |-> 1, backoff |-> 1],
              [deadline |-> 2, timeout |-> 1, retries |-> 0, backoff |-> 0]}

Symmetry == Permutations(Threads)
=============================================================================
