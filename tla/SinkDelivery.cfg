SPECIFICATION FairSpec
CONSTANTS
    t1 = t1
    NoTx = NoTx
    Feed <- OneTransaction
    Options <- AllSinks
    BatchSize = 2
    MaxAttempts = 2
    MaxCrashes = 1
INVARIANTS
    TypeOK
    IndexNeverAhead
    TransactionsVisibleWhole
    TransactionsAppliedOnce
PROPERTIES
    ImplementsLedger
    IndexedNeverRewritten
    FeedConfirmed
CHECK_DEADLOCK FALSE
