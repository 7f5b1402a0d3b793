\* More heavy requests than the permits of either bulkhead; every request ends.
SPECIFICATION FairSpec
CONSTANTS
    Light = {l1, l2}
    Heavy = {h1, h2, h3}
    GlobalCapacity = 3
    HeavyCapacity = 2
CHECK_DEADLOCK FALSE
INVARIANTS
    PermitsAreConserved
    HeavyLeavesRoomForLight
PROPERTIES
    EveryRequestIsAnswered
