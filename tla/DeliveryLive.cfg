SPECIFICATION ThreadSpec
CONSTANTS
    t1 = t1
    t2 = t2
    Envelopes <- ShortLog
    TxIds <- MCTxIds
    NoTx = NoTx
    Callers = {"main", "parser"}
    LoopThreads = {"loop1", "loop2"}
    NoThread = NoThread
    BatchSize = 2
    TxCap = 2
    BoundaryEnabled = TRUE
    MaxRetries = 1
PROPERTIES
    BufferedEventDelivered
    LoopEndsAfterStop
CHECK_DEADLOCK FALSE
