\* Three threads for two permits and two slots; time is not bounded.
SPECIFICATION Spec
CONSTANTS
    Threads = {t1, t2, t3}
    Admission = 2
    PoolMaxsize = 2
    Configs <- MCConfigs
    Slack = 1
SYMMETRY Symmetry
INVARIANTS
    AdmittedFindAConnection
    NoneOutlivesItsDeadline
PROPERTIES
    UnavailableOnlyWhenTried
