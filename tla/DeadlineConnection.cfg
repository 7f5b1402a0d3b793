\* Two threads and one resolver slot, which an orphan may hold for ever.
SPECIFICATION FairSpec
CONSTANTS
    Threads = {t1, t2}
    ResolverSlots = 1
INVARIANTS
    ResolverSlotsAreConserved
    PooledSocketIsSafe
PROPERTIES
    EveryExchangeEnds
