SPECIFICATION Spec
CONSTANTS
    Last = 5
    AzimuthLogs <- AzimuthOfLog
    BlockOf <- SmallBlocks
    TxOf <- OwnTx
    StartBlock <- Starts
    StartHeight = 4
    MaxHeight = 6
    Chunk = 2
    Few = 2
    MaxRounds = 5
    RpcBatch = 2
    NodeErrors = {}
    MaxDeaths = 0
    Size <- OneWrite
    Limit = 2
    Poison = {}
    MaxCrashes = 0
    MaxKills = 0
PROPERTIES
    InOrder
