SPECIFICATION Spec
CONSTANTS
    t1 = t1
    NoTx = NoTx
    Feed <- TwoTables
    Options <- IndexedFile
    BatchSize = 1
    MaxAttempts = 1
    MaxCrashes = 0
INVARIANTS
    ConfirmedIsWritten
CHECK_DEADLOCK FALSE
