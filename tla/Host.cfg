SPECIFICATION Spec
CONSTANTS
    FractionalBits = 4
    HashValues <- MCHashes
    FirstPrimes = {2, 3}
    Indices = {1, 2, 3, 4, 5, 6, 7, 8, 10, 15, 20}
    Origins = {0, 1}
    Depths = {2, 3, 4, 5}
    Works <- MCWorks
    MaxCandis = 2
    MaxOrigin = 211050
    HashWordBits = 13
    DigitBits = 8
    LongBits = 24
    Words = 2
    HashPrimes <- MCHashPrimes
    DivisorsOne <- MCDivisorsOne
    Divisors <- MCDivisors
    Mul24Primes = 4
    FirstLevel = 5
    Limits <- MCLimits
    HashNumbers <- MCHashNumbers
    Primorials = {4, 5, 6}
    ByteBits = 3
    Rounds = 32
    sha256_k <- MCSha256K
    h_init <- MCHInit
    F1 <- MCF1
    F2 <- MCF2
    F3 <- MCF3
    F4 <- MCF4
    Headers <- MCHeaders
    Nonces = {1, 77, 2000}
    Junk = {0, 1025}
    MessageBytes <- MCMessage
    PieceLengths = {1, 32, 55, 64}
    MaxPieces = 3
    BlakeByteBits = 2
    blake2b_IV <- MCBlakeIV
    param <- MCParam
    BlakeMessage <- MCBlakeMessage
    BlakeLengths = {32, 108, 128}
    LeafBlocks = {0, 200}
    UintLimbBits = 4
    WIDTH = 3
    UintDigitBits = 1
    Operands = {0, 1, 15, 16, 255, 256, 2730, 4095}
    bit_len = 5
    PackByteBits = 3
    IndexBytes = 3
    AccBits = 7
    Solutions <- MCSolutions
    Cards = {1, 2, 3}
    Layouts <- MCLayouts
    AdlSettings <- MCAdlSettings
    Factory <- MCFactory
    Garbage <- MCGarbage
    MaxStarts = 2
    MaxFailures = 1
INVARIANTS
    TypeOK
    
    HashesAgree
    NumbersRight
    ClocksRestored
CHECK_DEADLOCK FALSE
