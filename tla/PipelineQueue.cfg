SPECIFICATION Spec
CONSTANTS
    t1 = t1
    t2 = t2
    NoTx = NoTx
    Log <- MixedLog
    SnapshotEnabled = TRUE
    SnapshotRows = 1
    SnapshotAtomic = TRUE
    ResumeInclusive = TRUE
    FreshTxIds = FALSE
    BatchSize = 2
    TxCap = 10
    BoundaryEnabled = FALSE
    MaxRetries = 0
    NoThread = NoThread
    NoOffset = NoOffset
    Absent = Absent
    Garbled = Garbled
    StoreMayFail = TRUE
    MaxCrashes = 2
INVARIANTS
    AtLeastOnce
    NothingOvertakes
CHECK_DEADLOCK FALSE
