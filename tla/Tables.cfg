SPECIFICATION FairSpec
CONSTANTS
    to_snake_case <- MCSnake
    Configs <- MCConfigs
    Logs <- MCLogs
    Txs <- MCTxs
    MaxCommits = 2
    MaxEdits = 1
    MaxResyncs = 1
    MaxFaults = 1
INVARIANTS
    RecordsAccounted
    RowsAreStamped
    MigratedCovers
    ReceiptsReferToTx
    ColumnsFit
PROPERTIES
    EventuallyDecoded
CHECK_DEADLOCK FALSE
