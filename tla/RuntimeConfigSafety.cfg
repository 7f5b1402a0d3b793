\* Two callers that interleave, two keys, one draft.
SPECIFICATION Spec
CONSTANTS
    Callers = {c1, c2}
    IdemKeys = {k1, k2}
    Drafts = {d1}
    Levels <- MCLevels
    BaselineValues <- MCBaselineValues
    Patches <- MCMixedPatches
    Nil = Nil
SYMMETRY SymmetryOfCallers
INVARIANTS
    OnlyCommittedVersionsStayLive
    RecordedBeforeLive
    OneOutcomePerOperation
PROPERTIES
    SuccessMeansLive
    LedgerSpec
