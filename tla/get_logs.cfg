SPECIFICATION FairSpec
CONSTANTS
    Last = 6
    AzimuthLogs <- AzimuthOfLog
    BlockOf <- SmallBlocks
    TxOf <- OwnTx
    StartBlock <- Starts
    StartHeight = 1
    MaxHeight = 6
    Chunk = 2
    Few = 2
    MaxRounds = 5
    RpcBatch = 2
    NodeErrors = {"too-many", "unavailable"}
    MaxDeaths = 1
INVARIANTS
    TypeOK
    NothingSkipped
    RefetchedAtTheMark
PROPERTIES
    GetLogsEnds
    EachLogHasData
    InvalidForGood
