SPECIFICATION FairSpec
CONSTANTS
    pna_tables = 2
    MaxPackets = 4
CHECK_DEADLOCK FALSE
INVARIANTS
    TypeOK
    UsesLive
    KindStop
    TwiceWhenStopped
PROPERTIES
    CleanupFinishes
