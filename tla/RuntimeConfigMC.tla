--------------------------- MODULE RuntimeConfigMC ---------------------------
(* Small instances of RuntimeConfig for TLC. *)
EXTENDS RuntimeConfig, TLC

MCLevels == 1..2

\* timeout = 1 fits in deadline = 2.
MCBaselineValues == [timeout |-> 1, deadline |-> 2, capacity |-> 1]

\* Each of the first two is valid alone on the baseline and they are not valid
\* together; the third touches a parameter that needs a restart.
MCPatches == {[timeout |-> 2], [deadline |-> 1], [deadline |-> 1, capacity |-> 2]}

MCMixedPatches == {[timeout |-> 2], [deadline |-> 1, capacity |-> 2]}

Symmetry == Permutations(IdemKeys) \cup Permutations(Drafts)
SymmetryOfCallers == Symmetry \cup Permutations(Callers)
=============================================================================
