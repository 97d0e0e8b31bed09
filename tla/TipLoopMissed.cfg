SPECIFICATION Spec
CONSTANTS
    WsModes = {TRUE}
    Confirmations = 2
    StartBlock = 1
    Step = 1
    RangeConcurrency = 2
    MaxHead = 4
    MaxForks = 0
    MaxFaults = 0
INVARIANT NoLogMissed
CHECK_DEADLOCK FALSE
