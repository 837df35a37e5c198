SPECIFICATION FairSpec
CONSTANTS
    Last = 6
    AzimuthLogs <- AzimuthOfLog
    BlockOf <- SmallBlocks
    TxOf <- OwnTx
    StartBlock <- Starts
    StartHeight = 4
    MaxHeight = 6
    Chunk = 2
    Few = 2
    MaxRounds = 5
    RpcBatch = 2
    NodeErrors = {"unavailable"}
    MaxDeaths = 0
PROPERTIES
    RetryEnds
