SPECIFICATION FairSpec
CONSTANTS
    Last = 10
    Size <- SmallLog
    AzimuthLogs <- AzimuthOfLog
    NaiveStart = 8
    Limit = 4
    Poison = {6, 8}
    MaxCrashes = 4
INVARIANTS
    TypeOK
    SeesThePast
    MarkedIffPlayed
PROPERTIES
    Implements
    EverythingPlayed
