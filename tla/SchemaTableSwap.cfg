SPECIFICATION Spec
CONSTANTS
    InitialSchema <- TwoColumns
    Statements <- Swap
    ResumeSteps = {1}
    MaxLog = 4
    MaxCrashes = 0
INVARIANTS
    NamesAreRight
CHECK_DEADLOCK FALSE
