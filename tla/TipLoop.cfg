SPECIFICATION WsFair
CONSTANTS
    WsModes = {TRUE, FALSE}
    Confirmations = 2
    StartBlock = 1
    Step = 1
    RangeConcurrency = 2
    MaxHead = 5
    MaxForks = 1
    MaxFaults = 1
INVARIANTS MissedOnlyIfExposed AnnouncedIsFetched
PROPERTY EventuallyIndexed
