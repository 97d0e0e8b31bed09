SPECIFICATION FairSpec
CONSTANTS
    Confirmations = 1
    RangeConcurrency = 2
    MaxHead = 3
    MaxUpsets = 3
    MaxDepth = 1
    MaxFaults = 1
INVARIANTS StoredCanonical RawHasBlock UndecodedIsQueued NoGapBelowCursor
PROPERTIES Converges StaleTipRepaired
