SPECIFICATION Spec
CONSTANTS
    Ks = {2, 3}
    CollisionBitLength = 3
    TruncatedBits = 2
    Tables <- MCTables
INVARIANT
    CulledValid
CHECK_DEADLOCK FALSE
