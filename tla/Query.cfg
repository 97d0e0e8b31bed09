SPECIFICATION Spec
CONSTANTS
    Clients = {u1, u2}
    Schemas = {"transfers", "transactions", "receipts"}
    Table = "transfers"
    ColumnTypes <- MCColumnTypes
    Universe <- MCUniverse
    FirstRows <- MCFirstRows
    Args <- MCArgs
    TTL = 1
    Latency = 1
    MaxWrites = 2
    MaxErrors = 1
INVARIANTS
    ScanComplete
    InOrder
    BoundedStale
    QuietCountAgrees
CHECK_DEADLOCK FALSE
