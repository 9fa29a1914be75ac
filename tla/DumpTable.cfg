SPECIFICATION FairSpec
CONSTANTS
    f_max_entries = 5
    EntrySize = 2
    BUF_SIZE = 5
    ShortWrites = TRUE
    MaxErrors = 1
CHECK_DEADLOCK FALSE
INVARIANTS
    TypeOK
    BufferFits
    HeaderMeansComplete
PROPERTIES
    Terminates
