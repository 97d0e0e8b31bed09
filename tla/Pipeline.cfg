SPECIFICATION FairSpec
CONSTANTS
    StartBlock = 2
    Step = 1
    RangeConcurrency = 3
    Matched = {2, 3, 5, 7}
    BackfillFrom = {1, 2}
    MaxSafe = 7
    MaxFaults = 2
INVARIANTS GapFree CursorHash NoRangeLost
PROPERTIES ImplementsCheckpoint CatchesUp
