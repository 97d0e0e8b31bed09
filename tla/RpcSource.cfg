SPECIFICATION FairSpec
CONSTANTS
    a = a
    b = b
    Fetches = {a, b}
    RangeOf <- MCRangeOf
    LogCount <- MCLogCount
    ProviderCap = 2
    NodeKinds = {"alchemy", "free"}
    max_getlogs_blocks = 3
    max_getlogs_results = 2
    max_batch = 2
    max_rps = 1
    max_cu_per_sec = 50
    aux_concurrency = 1
    Attempts = 2
    MaxFaults = 1
    MaxPolls = 1
CHECK_DEADLOCK FALSE
INVARIANTS WalksUpwards OkIsComplete Paced MoneyAgrees
PROPERTIES FetchEnds
