SPECIFICATION FairSpec
CONSTANTS
    eth = eth
    base = base
    w1 = w1
    w2 = w2
    ChainList <- MCChainList
    Workers = {w1, w2}
    Quota <- MCQuota
    RangeConcurrency = 2
    RangeCost = 1
    ProbeCost = 1
    BackfillRanges = 6
    MaxDepth = 2
    MaxFaults = 2
CHECK_DEADLOCK FALSE
INVARIANTS PoolKnowsChains EndsForAReason OverrunBounded
PROPERTIES StopsOnSignal BackfillEnds
