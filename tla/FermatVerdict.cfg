SPECIFICATION Spec
CONSTANTS
    LimbBits = 8
    N320 = 2
    N352 = 3
    Window320 = 3
    Window352 = 5
    Moduli <- MCModuli
INVARIANT
    VerdictExact
CHECK_DEADLOCK FALSE
