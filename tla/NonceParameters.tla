--------------------------- MODULE NonceParameters ---------------------------
(* The parameters of NonceSpace and what is assumed of them. *)
EXTENDS Integers

CONSTANTS
    mThreads,       \* the number of threads
    LastWork,       \* bound: works
    WorkTime,       \* the time of each work
    HalfWord,       \* 2^31, half of the nonces
    Unit,           \* 65536 nonces for every hash that lacks
    mLSize,         \* the size of a work group
    Capacity,       \* 16 * mSievePerRound, the number of hashes wanted
    MaxTime         \* bound: time of a header

ASSUME ThreadsAssumption == mThreads \in Nat \ {0}
ASSUME WorkAssumption == LastWork \in Nat /\ WorkTime \in [1 .. LastWork -> Nat]
\* SW bounds mSievePerRound (line 616), so that the largest batch is far smaller.
ASSUME BatchAssumption ==
    /\ HalfWord \in Nat /\ Unit \in Nat \ {0} /\ mLSize \in Nat \ {0}
    /\ Capacity \in Nat \ {0}
    /\ Capacity * Unit + mLSize < HalfWord
=============================================================================
