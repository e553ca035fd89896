SPECIFICATION FairSpec
CONSTANTS
    t1 = t1
    t2 = t2
    NoTx = NoTx
    Log <- Transactions
    SnapshotEnabled = TRUE
    SnapshotRows = 2
    SnapshotAtomic = TRUE
    ResumeInclusive = FALSE
    FreshTxIds = TRUE
    BatchSize = 2
    TxCap = 10
    BoundaryEnabled = TRUE
    MaxRetries = 0
    NoThread = NoThread
    NoOffset = NoOffset
    Absent = Absent
    Garbled = Garbled
    StoreMayFail = TRUE
    MaxCrashes = 1
INVARIANTS
    TypeOK
    AtLeastOnce
    NothingOvertakes
    SnapshotBeforeOffset
    ReplaySameOutcome
PROPERTIES
    EverythingDelivered
    StopCompletes
CHECK_DEADLOCK FALSE
