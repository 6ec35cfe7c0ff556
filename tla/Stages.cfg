SPECIFICATION Spec
CONSTANTS
    Size = 4
    Pipe = {fermat320}
    Id = {c1, c2, c3}
    BlockSize = 2
    Depth = 1
    MaxNew = 1
    SievePerRound = 1
    SW = 2
    HashFactor = 1
    FoundMax = 2
    Hash = {h1, h2}
    NoHash = NoHash
    mThreads = 2
    LastWork = 2
    WorkTime <- MCWorkTime
    HalfWord = 4
    Unit = 1
    mLSize = 1
    Capacity = 2
    MaxTime = 2
    pipelinesNum = 2
    MaxWork = 3
    MaxNonce = 5
    MaxQueue = 2
    Unsupported = {3}
    mNumDevices = 3
    Arch <- MCArch
    Configs <- MCConfigs
    Room <- MCRoom
    Epoch = 10
    Period = 2
    Window = 3
    Seconds = 5
    MaxMined = 6
    Sols = {0, 2}
SYMMETRY Symmetry
INVARIANTS
    TypeOK
    OneHeaderInAllStages
    RingNeverFull
    ReleasedSlotKeepsHash
    NoHeaderTwice
    NonceFits
    RebuiltAsFound
    ShareOfOnePiece
    AllButTheFirstCollected
    SetupRight
PROPERTIES
    ImplementsFifo
    CpuMinerRight
    RateOfWholeRun
CHECK_DEADLOCK FALSE
