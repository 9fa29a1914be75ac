SPECIFICATION Spec
CONSTANTS
    k1 = k1  k2 = k2  k3 = k3  k4 = k4
    NullKey = NullKey
    Keys <- ManyFlows
    pna_tables = 2
    PNA_FLOW_ENTRIES = 4
    PNA_TABLE_TRIES = 2
    hash_0 <- ManyFlowsHash
    FlagBits = {}
    PktLens = {60}
    Seconds = {9, 20}
    TimesOfDay = {31}
    Word = 1000
    Monotone = FALSE
    Replay = FALSE
    MaxPackets = 4
CHECK_DEADLOCK FALSE
INVARIANTS
    UniqueFlows
    ExactlyOnce
PROPERTIES
    Accounting
