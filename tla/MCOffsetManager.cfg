SPECIFICATION Spec
CONSTANTS
    Positions <- MCPositions
    NoOffset = NoOffset
    Absent = Absent
    Garbled = Garbled
    StoreMayFail = TRUE
INVARIANTS
    TypeOK
    NoGarbledOffset
    CacheMatchesFile
PROPERTIES
    SnapshotHoldsOffset
    ImplementsDurableOffset
CHECK_DEADLOCK FALSE
