SPECIFICATION FairSpec
CONSTANTS
    Pipe = {fermat320, fermat352}
    Id = {c1, c2, c3, c4}
    BlockSize = 2
    Depth = 2
    MaxNew = 1
INVARIANTS
    DispatchInBounds
    EachCandidateOnce
    FinalPassedAllTests
PROPERTY
    LeftoversGetTested
