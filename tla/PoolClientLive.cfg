SPECIFICATION FairSpec
CONSTANTS
    Height = {1, 2}
    Length = {9}
    MaxNet = 1
    MaxShares = 1
    Error = {"STALE"}
    Faults = {"loss", "stop", "exit"}
INVARIANTS
    WorkOnTheWay
    
PROPERTIES
    DeadPoolLeft
    SessionComesBack
CHECK_DEADLOCK FALSE
