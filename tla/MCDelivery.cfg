SPECIFICATION Spec
CONSTANTS
    t1 = t1
    t2 = t2
    Envelopes <- MixedLog
    TxIds <- MCTxIds
    NoTx = NoTx
    Callers = {"main", "parser"}
    LoopThreads = {"loop1", "loop2"}
    NoThread = NoThread
    BatchSize = 2
    TxCap = 2
    BoundaryEnabled = TRUE
    MaxRetries = 1
INVARIANTS
    TypeOK
    NoEventLost
    StatsBalance
    TransactionsUndivided
    CommitNeverOvertakes
    QueueInOrder
CHECK_DEADLOCK FALSE
