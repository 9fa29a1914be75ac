SPECIFICATION Spec
CONSTANTS
    Width = 2
    MaxMask = 3
    NetIds = {1, 3, 4}
    DomainWord = 4
    MAX_DOMAIN = 3
    MaxLines = 3
CHECK_DEADLOCK FALSE
INVARIANTS
    TypeOK
    LookupIsLongestMatch
PROPERTIES
    LocalEffect
