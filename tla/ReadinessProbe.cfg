\* Four refreshes: a check that hangs is timed out again and again.
SPECIFICATION FairProbeSpec
CONSTANTS
    Callers = {c1, c2}
    MaxRefreshes = 4
    Nil = Nil
INVARIANTS
    OneRefreshAtATime
    BacklogIsBounded
    NotReadyOnceClosed
PROPERTIES
    EveryCallIsAnswered
