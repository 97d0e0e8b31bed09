SPECIFICATION FairSpec
CONSTANTS
    Confirmations = 1
    RangeConcurrency = 2
    MaxHead = 3
    MaxUpsets = 2
    MaxDepth = 1
    MaxFaults = 0
PROPERTY RawConverges
