SPECIFICATION FairSpec
CONSTANTS
    eth = eth
    base = base
    r1 = r1
    r2 = r2
    w1 = w1
    w2 = w2
    Chains = {eth, base}
    Ranges = {r1, r2}
    Workers = {w1, w2}
    Decoders <- FollowDecoders
    MaxId = 3
    MaxFaults = 2
CHECK_DEADLOCK FALSE
INVARIANTS LeaseExclusive AtLeastOnce
PROPERTIES ImplementsLeasing EventuallyDrained
