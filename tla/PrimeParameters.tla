--------------------------- MODULE PrimeParameters ---------------------------
(* The sizes of the ring and of the sieving that PrimeMining depends on. *)
EXTENDS LifoBuffer

CONSTANTS
    SievePerRound,      \* the configured sieves per round
    SW,                 \* at most so many
    HashFactor,         \* 16: hashes wanted in the ring for each sieve
    FoundMax            \* 128: size of hashmod.found

ASSUME SizesAssumption == SW \in Nat /\ HashFactor \in Nat /\ FoundMax \in Nat

ASSUME SievesAssumption == SievePerRound \in 1 .. SW

\* With PW = 512, SW = 16, HashFactor = 16 and FoundMax = 128: 383 <= 511.
ASSUME RingLargeEnough == HashFactor * SW - 1 + FoundMax <= Size - 1
=============================================================================
