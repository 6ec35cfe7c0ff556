SPECIFICATION FairSpec
CONSTANTS
    Height = {1, 2, 3}
    MaxQueue = 2
    MaxSignals = 3
INVARIANTS
    NeverAhead
    HeaderCurrent
    ShareConsistent
    PausedInPhase
PROPERTIES
    ThreadStops
CHECK_DEADLOCK FALSE
