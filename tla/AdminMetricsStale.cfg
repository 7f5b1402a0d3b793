\* The only viewer goes away before its batch ends.
SPECIFICATION Spec
CONSTANTS
    Viewers = {v1}
    CacheTicks = 2
    MaxBatches = 2
INVARIANTS
    DataIsFresh
