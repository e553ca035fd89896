SPECIFICATION ThreadSpec
CONSTANTS
    t1 = t1
    t2 = t2
    NoTx = NoTx
    Log <- OneTransaction
    SnapshotEnabled = TRUE
    SnapshotRows = 1
    SnapshotAtomic = TRUE
    ResumeInclusive = TRUE
    FreshTxIds = FALSE
    BatchSize = 2
    TxCap = 10
    BoundaryEnabled = TRUE
    MaxRetries = 0
    NoThread = NoThread
    NoOffset = NoOffset
    Absent = Absent
    Garbled = Garbled
    StoreMayFail = FALSE
    MaxCrashes = 0
PROPERTIES
    StopCompletes
CHECK_DEADLOCK FALSE
