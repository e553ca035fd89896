SPECIFICATION Spec
CONSTANTS
    InitialSchema <- TwoColumns
    Statements <- Evolution
    ResumeSteps = {0, 1}
    MaxLog = 4
    MaxCrashes = 1
INVARIANTS
    TypeOK
    LookupIsLatest
    DecodedAsWritten
    HistoryCoversOffset
CHECK_DEADLOCK FALSE
