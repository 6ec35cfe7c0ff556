SPECIFICATION SpecAll
CONSTANTS
    Height = {1, 2}
    Length = {}
    MaxNet = 1
    MaxShares = 0
    Error = {}
    Faults = {"loss", "stop", "exit"}
    MaxQueue = 2
    MaxSignals = 2
INVARIANT
    CrashReportTrue
CHECK_DEADLOCK FALSE
