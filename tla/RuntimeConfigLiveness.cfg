\* Two callers and fairness; no symmetry.
SPECIFICATION FairSpec
CONSTANTS
    Callers = {c1, c2}
    IdemKeys = {k1}
    Drafts = {d1}
    Levels <- MCLevels
    BaselineValues <- MCBaselineValues
    Patches <- MCMixedPatches
    Nil = Nil
PROPERTIES
    CallsAreAnswered
