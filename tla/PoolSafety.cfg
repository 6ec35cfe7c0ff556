SPECIFICATION SpecAll
CONSTANTS
    Height = {1, 2}
    Length = {9}
    MaxNet = 1
    MaxShares = 1
    Error = {"NONE"}
    Faults = {"exit"}
    MaxQueue = 1
    MaxSignals = 2
INVARIANTS
    TypeOK

    
CHECK_DEADLOCK FALSE
