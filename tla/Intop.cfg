CONSTANTS
    Logs <- MCLogs
    LogOf <- MCLogOf
    OldLogs <- MCOldLogs
    FileLists <- MCFileLists
    FilterSettings <- MCFilters
    SortKeys <- MCSortKeys
    MaxChanges = 2
    OctetBits = 2
SPECIFICATION Spec
INVARIANTS
    TypeOK
    WholeLogs
    Fresh
    PrintsAll
PROPERTY
    QuitEnds
CHECK_DEADLOCK FALSE
