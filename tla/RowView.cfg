SPECIFICATION FairSpec
CONSTANTS
    NoTx = NoTx
    MaxUnits = 4
    MaxEvents = 12
    Binlogs <- MCBinlogs
    PrimaryKeys = {1, 2, 3}
    ChunkSize = 2
    FirstFile = 1
    Base = 10
    Wrap = 10
    MaxCrashes = 1
INVARIANTS
    TypeOK
    TransactionsTagged
    ViewCoversSource
    GhostsExplained
PROPERTIES
    PositionCatchesUp
CHECK_DEADLOCK FALSE
