SPECIFICATION Spec
CONSTANTS
    InitialSchema <- TwoColumns
    Statements <- OneStatement
    ResumeSteps = {1}
    MaxLog = 2
    MaxCrashes = 1
INVARIANTS
    VersionCountsDDL
CHECK_DEADLOCK FALSE
