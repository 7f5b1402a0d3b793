\* Three viewers, and batches enough for one to overtake another.  Without
\* symmetry, because a liveness property is among what is checked.
SPECIFICATION FairSpec
CONSTANTS
    Viewers = {v1, v2, v3}
    CacheTicks = 2
    MaxBatches = 4
INVARIANTS
    NothingKeptAfterClose
    FreshUnlessAbandoned
PROPERTIES
    DataNeverGoesBack
    EveryReadReturns
