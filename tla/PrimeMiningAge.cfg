SPECIFICATION MiningSpec
CONSTANTS
    Size = 4
    Pipe = {fermat320}
    Id = {c1, c2}
    BlockSize = 1
    Depth = 1
    MaxNew = 1
    SievePerRound = 2
    SW = 2
    HashFactor = 1
    FoundMax = 2
SYMMETRY IdSymmetry
INVARIANT
    AgeWarning
