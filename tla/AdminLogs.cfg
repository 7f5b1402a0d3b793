\* Both readers; a buffer smaller than what is logged, pages smaller than both.
SPECIFICATION FairSpec
CONSTANTS
    Scopes = {"current_process", "journal_local"}
    Clients = {c1}
    Threads = {t1, t2}
    Capacity = 2
    Queries <- MCQueries
    Codes = {0}
    Limits = {1}
    ScanLimit = 2
    LoggedKinds = {"business", "system", "garbage"}
    MaxRecords = 3
    MaxEntries = 2
    MaxTime = 2
    Skew = 1
    MaxScans = 2
    MaxBoots = 2
INVARIANTS
    
    BusyIsRight
PROPERTIES
    GetsFree
