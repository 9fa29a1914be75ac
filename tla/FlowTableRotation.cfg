SPECIFICATION Spec
CONSTANTS
    k1 = k1  k2 = k2  k3 = k3  k4 = k4
    NullKey = NullKey
    Keys <- OneFlow
    pna_tables = 2
    PNA_FLOW_ENTRIES = 2
    PNA_TABLE_TRIES = 2
    hash_0 <- OneFlowHash
    FlagBits = {"SYN"}
    PktLens = {60}
    Seconds = {9, 10, 14, 19, 20, 30}
    TimesOfDay = {10, 20, 30, 31}
    Word = 256
    Monotone = TRUE
    Replay = FALSE
    MaxPackets = 4
CHECK_DEADLOCK FALSE
INVARIANTS
    TypeOK
    LockDiscipline
    FaithfulEntries
    WholeSeconds
    LogNamesDistinct
