SPECIFICATION Spec
CONSTANTS
    LogNames = {2, 3}
    LastTime = 7
    Zones <- LocalZones
    Day = 2
    MaxFaults = 2
CHECK_DEADLOCK FALSE
INVARIANTS
    TypeOK
    LostInFiveWays
    OnlyComplete
    RunCatchesUp
