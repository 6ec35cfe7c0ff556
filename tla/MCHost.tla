------------------------------- MODULE MCHost -------------------------------
(***************************************************************************)
(* What the host and its devices do together, side by side: each behaviour *)
(* is one of one part, chosen at the beginning, while the variables of the *)
(* others keep the values that Idle gives them.  AdlMonitor, and instances *)
(* of PrimeChain, HashMod, Sha256, Blake2b, BaseUint and IndexPacking.     *)
(***************************************************************************)
EXTENDS AdlMonitor, KernelInputs, FiniteSetsExt, TLC

CONSTANTS
    FractionalBits, HashValues, FirstPrimes, Indices, Origins, Depths, Works,
    MaxCandis, MaxOrigin,                           \* PrimeChain
    HashWordBits, DigitBits, LongBits, Words, HashPrimes, DivisorsOne, Divisors,
    Mul24Primes, FirstLevel, Limits, HashNumbers, Primorials,   \* HashMod
    ByteBits, Rounds, sha256_k, h_init, F1, F2, F3, F4, Headers, Nonces, Junk,
    MessageBytes, PieceLengths, MaxPieces,          \* Sha256
    BlakeByteBits, blake2b_IV, param, BlakeMessage, BlakeLengths, LeafBlocks,   \* Blake2b
    UintLimbBits, WIDTH, UintDigitBits, Operands,   \* BaseUint
    bit_len, PackByteBits, IndexBytes, AccBits, Solutions   \* IndexPacking

VARIABLES
    part,           \* the algorithm whose behaviour this is
    \* PrimeChain
    depth, wrk, hash, candi, at, mpzN, mpzOriginMinusOne, mpzOriginPlusOne,
    nChainSeq, nChainLength, candis, errors, faulty, shareSent,
    \* HashMod
    mPrimorial, hashWords, fetched, entries, slots, hashErrors,
    \* Sha256
    sha256Pc, blockheader, args, nonce, deviceHash, hostHash, pieces, sha, csha, digests,
    \* Blake2b
    build, blake2bState, hashed, fromHost, fromDevice,
    \* BaseUint
    pn, num,
    \* IndexPacking
    indices, packing, array, minimal, acc_value, acc_bits, read

R == INSTANCE PrimeChain
H == INSTANCE HashMod WITH WordBits <- HashWordBits, gPrimes <- HashPrimes,
        state <- hashWords, at <- fetched, found <- entries, errors <- hashErrors
S == INSTANCE Sha256 WITH S0 <- F1, S1 <- F2, R0 <- F3, R1 <- F4
B == INSTANCE Blake2b WITH ByteBits <- BlakeByteBits
U == INSTANCE BaseUint WITH LimbBits <- UintLimbBits, DigitBits <- UintDigitBits
K == INSTANCE IndexPacking

ChainVars == <<depth, wrk, hash, candi, at, mpzN, mpzOriginMinusOne, mpzOriginPlusOne,
               nChainSeq, nChainLength, candis, errors, faulty, shareSent>>

HashmodVars == <<mPrimorial, hashWords, fetched, entries, slots, hashErrors>>
ShaVars == <<sha256Pc, blockheader, args, nonce, deviceHash, hostHash, pieces, sha, csha,
             digests>>

BlakeVars == <<build, blake2bState, hashed, fromHost, fromDevice>>
UintVars == <<pn, num>>
PackVars == <<indices, packing, array, minimal, acc_value, acc_bits, read>>

allVars == <<part, ChainVars, HashmodVars, ShaVars, BlakeVars, UintVars, PackVars, adlVars>>

Parts == {"chain", "hashmod", "sha256", "blake2b", "integers", "indices", "clocks"}

\* One of the initial states of each part, for the behaviours of the others.
Idle ==
    /\ part # "chain" =>
          /\ depth = (CHOOSE d \in Depths : TRUE) /\ wrk = (CHOOSE w \in Works : TRUE)
          /\ hash = (CHOOSE h \in R!Slots : TRUE)
    /\ part # "hashmod" =>
          mPrimorial = Max(Primorials) /\ hashWords = H!wordsOf(Max(HashNumbers))
    /\ part # "sha256" => blockheader = (CHOOSE h \in Headers : TRUE)
    /\ part # "blake2b" => build = "SSE2"
    /\ part # "indices" => indices = (CHOOSE s \in Solutions : TRUE)
    /\ part # "clocks" =>
          layout = (CHOOSE l \in Layouts : TRUE) /\ settings = (CHOOSE s \in AdlSettings : TRUE)

Init ==
    /\ part \in Parts /\ Idle
    /\ R!Init /\ H!Init /\ S!Init /\ B!BlakeInit /\ U!UintInit /\ K!PackInit /\ AdlInit

Others(mine) ==
    /\ mine # "chain" => UNCHANGED ChainVars
    /\ mine # "hashmod" => UNCHANGED HashmodVars
    /\ mine # "sha256" => UNCHANGED ShaVars
    /\ mine # "blake2b" => UNCHANGED BlakeVars
    /\ mine # "integers" => UNCHANGED UintVars
    /\ mine # "indices" => UNCHANGED PackVars
    /\ mine # "clocks" => UNCHANGED adlVars

Next ==
    /\ UNCHANGED part
    /\ \/ part = "chain" /\ R!Next
       \/ part = "hashmod" /\ H!Next
       \/ part = "sha256" /\ S!Next
       \/ part = "blake2b" /\ B!BlakeNext
       \/ part = "integers" /\ U!UintNext
       \/ part = "indices" /\ K!PackNext
       \/ part = "clocks" /\ AdlNext
    /\ Others(part)

Spec == Init /\ [][Next]_allVars

-----------------------------------------------------------------------------
(* The properties are those of the parts, where they are stated and        *)
(* explained.                                                              *)

\* The variables of every part have their types; those of the other parts stay
\* what they are at the beginning.
TypeOK ==
    CASE part = "chain"    -> R!TypeOK
      [] part = "hashmod"  -> H!TypeOK
      [] part = "sha256"   -> S!TypeOK
      [] part = "blake2b"  -> B!BlakeTypeOK
      [] part = "integers" -> U!UintTypeOK
      [] part = "indices"  -> K!PackTypeOK
      [] part = "clocks"   -> AdlTypeOK

\* A share has the origin, the length and the rank that the pool will find; and
\* stats.errors can count the device's errors in one number of a chain only.
SharesTrue == part = "chain" => R!ShareTrue /\ R!ErrorSeesLastOfTwin

\* The slots of a hash have the multipliers that their primorials need, none twice, and no
\* level is passed over.  The kernel's hash of a nonce is the host's, whatever was not initialised; a message comes
\* to its digest in whatever pieces it is written, in both classes.  The same for the
\* leaves of the trees of Equihash.
HashesAgree ==
    /\ part = "hashmod" => H!SlotsRight
    /\ part = "sha256" => S!DeviceHashesAsHost /\ S!PiecesDoNotMatter
    /\ part = "blake2b" => B!BlakeAgrees

\* The limbs of a uint256 are the integer that its operations should come to, and the
\* bytes of a solution are its indices again when they are unpacked.
NumbersRight ==
    /\ part = "integers" => U!IntegersRight
    /\ part = "indices" => K!IndicesSurvive
=============================================================================
