\* More heavy requests than connections; the process ends for good.
SPECIFICATION FairSpec
CONSTANTS
    Callers = {c1}
    MaxRefreshes = 2
    Nil = Nil
    Workers = {w1, w2, w3}
    MaxConnections = 1
    Dimensions = 1
CHECK_DEADLOCK FALSE
INVARIANTS
    NobodyIsCaughtInTheShutdown
    AdmittedFindsAConnection
    ResourcesFollowTheLifecycle
PROPERTIES
    EverythingEnds
