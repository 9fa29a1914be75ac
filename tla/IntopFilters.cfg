CONSTANTS
    Logs <- MCLogs
    LogOf <- MCLogOf
    OldLogs <- MCOldLogs
    FileLists <- MCFileLists
    FilterSettings <- MCFilters
    SortKeys <- MCSortKeys
    MaxChanges = 2
    OctetBits = 2
SPECIFICATION Spec
INVARIANT
    FiltersApply
CHECK_DEADLOCK FALSE
