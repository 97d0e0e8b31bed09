SPECIFICATION Spec
CONSTANTS
    to_snake_case <- MCSnake
    Configs <- MCConfigs
    Logs <- MCLogs
    Txs <- MCTxs
    MaxCommits = 2
    MaxEdits = 1
    MaxResyncs = 1
    MaxFaults = 0
INVARIANTS
    ResyncBackfills
CHECK_DEADLOCK FALSE
