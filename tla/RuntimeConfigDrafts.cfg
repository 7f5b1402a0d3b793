\* One caller, stale or not; two drafts that are valid alone and not together.
SPECIFICATION Spec
CONSTANTS
    Callers = {c1}
    IdemKeys = {k1, k2}
    Drafts = {d1, d2}
    Levels <- MCLevels
    BaselineValues <- MCBaselineValues
    Patches <- MCPatches
    Nil = Nil
SYMMETRY Symmetry
INVARIANTS
    AppliedDraftSawWhatItReplaced
    LiveValuesSound
