SPECIFICATION Spec
CONSTANTS
    LimbBits = 8
    N320 = 2
    N352 = 3
    Window320 = 3
    Window352 = 5
    Moduli <- MCModuli
    Ks = {2, 3}
    CollisionBitLength = 3
    TruncatedBits = 2
    Tables <- MCTables
    SIZE = 13
    WordBits = 8
    STRIPES = 20
    WIDTH = 4
    TARGET = 3
    LSIZE = 4
    nps_all <- MCRuns
    NLIFO = 2
    N = 5
    SieveLimbBits = 4
    Mantissa = 8
    Narrow = 25
    gPrimes <- MCPrimes
    RangesFrom = 1
    PCounts = {28}
    Firsts = {0, 1}
    SieveDepths = {3}
    Fixed <- MCFixed
    TrialStep = 2
    WN = 12
    WK = 3
    RESTBITS = 1
    EquiByteBits = 2
    UnitBytes = 2
    HASHESPERBLAKE = 2
    XFULL = 4
    MAXSOLS = 1
    Items = 2
    Cases <- MCCases
    OldWord <- MCOldWord
    FERMAT_PIPELINES = 2
    QueueSieves = 1
    MulOpsNum = 3
    MulOperands <- MCMulOperands
INVARIANTS
    TypeOK
    PowerSoFar
    SolversFindAll
    SieveRight
    EquihashRight
    NothingTouchedTwice
CHECK_DEADLOCK FALSE
