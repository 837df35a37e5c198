SPECIFICATION Spec
CONSTANTS
    Last = 5
    AzimuthLogs <- AzimuthOfLog
    BlockOf <- SmallBlocks
    TxOf <- OwnTx
    StartBlock <- Starts
    StartHeight = 1
    MaxHeight = 6
    Chunk = 2
    Few = 2
    MaxRounds = 5
    RpcBatch = 2
    NodeErrors = {}
    MaxDeaths = 1
    Size <- OneWrite
    Limit = 2
    Poison = {}
    MaxCrashes = 1
    MaxKills = 1
INVARIANTS
    PlayedAsStored
    SchemaOnce
PROPERTIES
    KeepsLifecycle
