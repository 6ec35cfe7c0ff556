----------------------------- MODULE PrimeChain -----------------------------
(***************************************************************************)
(* One candidate after the other of a hash, from the sieve to the share:   *)
(* the device tests the first `depth' numbers of its chain (setup_fermat   *)
(* and check_fermat of fermat.cl), the host the numbers that follow        *)
(* (ProbablePrimeChainTestFast of prime.cpp) and "check candis" of         *)
(* PrimeMiner::Mining judges the length (xpmclient.cpp 624-688).           *)
(*                                                                         *)
(* The numbers are small here and the powers exact.  A length carries      *)
(* FractionalBits bits for the remainder of the first test that failed.    *)
(* The device may be wrong (a GPU that is clocked too high; the verdicts   *)
(* that FermatTest shows to be wrong): PassWrongly.                        *)
(***************************************************************************)
EXTENDS Integers

CONSTANTS
    FractionalBits,     \* nFractionalBits, 24
    HashValues,         \* [hash, primorial]: what the ring holds of a hash
    FirstPrimes,        \* gPrimes[0 .. mPrimorial - 1]
    Indices, Origins,   \* the multipliers that the sieve reports
    Depths,             \* mDepth
    Works,              \* [bits, minshare]: of work and block
    MaxCandis,          \* bound: candidates of a hash
    MaxOrigin           \* bound: origins of chains

VARIABLES
    depth, wrk,
    hash,           \* the slot of the ring: [hash, shash, primorial]
    candi,          \* fermat_t: [index, origin, type, chainpos]
    at,             \* what is done next with the candidate
    mpzN, mpzOriginMinusOne, mpzOriginPlusOne,      \* testParams
    nChainSeq, nChainLength,
    candis, errors, faulty, shareSent

vars == <<depth, wrk, hash, candi, at, mpzN, mpzOriginMinusOne, mpzOriginPlusOne,
          nChainSeq, nChainLength, candis, errors, faulty, shareSent>>

NoShare == [hash |-> 0, multi |-> 0, length |-> 0, type |-> 0, isblock |-> FALSE]
NoCandi == [index |-> 0, origin |-> 0, type |-> 0, chainpos |-> 0]

-----------------------------------------------------------------------------
(* Arithmetic modulo n, for n below 2^24: b is taken six bits at a time. *)

MulMod(a, b, n) ==
    LET r(x, k) == (x * 64 + a * ((b \div 64 ^ k) % 64)) % n
    IN  r(r(r(r(0, 3), 2), 1), 0)

PowMod(b, e, n) ==
    LET p[k \in Nat] ==
            IF k = 0 THEN 1 % n
            ELSE LET h == p[k \div 2]
                     s == MulMod(h, h, n)
                 IN  IF k % 2 = 0 THEN s ELSE MulMod(s, b, n)
    IN  p[e]

TrailingZeros(x) == CHOOSE k \in 0 .. 30 : x % 2 ^ k = 0 /\ (x \div 2 ^ k) % 2 = 1

-----------------------------------------------------------------------------
(* prime.cpp *)

TargetGetLength(nBits) == nBits \div 2 ^ FractionalBits

TargetIncrementLength(nBits) == nBits + 2 ^ FractionalBits

\* 2^((n-1)/2) mod n: the two's of the exponent go into the base, at most nine.
EulerPower(n) ==
    LET zeros == IF TrailingZeros(n - 1) > 9 THEN 9 ELSE TrailingZeros(n - 1)
        shift == 2 ^ (zeros - 1) - 1
    IN  PowMod((2 * PowMod(2, shift, n)) % n, (n - 1) \div 2 ^ zeros, n)

FermatProbablePrimality(n) == EulerPower(n) \in {1, n - 1}

EulerLagrangeLifchitz(n, fSophieGermain) ==
    \/ fSophieGermain /\ n % 8 = 7 /\ EulerPower(n) = 1
    \/ fSophieGermain /\ n % 8 = 3 /\ EulerPower(n) = n - 1
    \/ ~fSophieGermain /\ n % 8 = 5 /\ EulerPower(n) = n - 1
    \/ ~fSophieGermain /\ n % 8 = 1 /\ EulerPower(n) = 1

\* The length with the fraction that the remainder of the failed test gives.
FractionalLength(n, nLength) ==
    LET r    == EulerPower(n)
        frac == ((n - MulMod(r, r, n)) * 2 ^ FractionalBits) \div n
    IN  IF frac >= 2 ^ FractionalBits THEN nLength
        ELSE TargetGetLength(nLength) * 2 ^ FractionalBits + frac

-----------------------------------------------------------------------------
Slots ==
    {[hash |-> h.hash, shash |-> h.hash * h.primorial, primorial |-> h.primorial] :
        h \in HashValues}

Init ==
    /\ depth \in Depths /\ wrk \in Works
    /\ hash \in Slots
    /\ candi = NoCandi /\ at = "sieve"
    /\ mpzN = 0 /\ mpzOriginMinusOne = 0 /\ mpzOriginPlusOne = 0
    /\ nChainSeq = 0 /\ nChainLength = 0
    /\ candis = 0 /\ errors = 0 /\ faulty = FALSE /\ shareSent = NoShare

cpu == <<mpzN, mpzOriginMinusOne, mpzOriginPlusOne, nChainSeq, nChainLength>>

\* The sieve reports a candidate of the hash.
Report(index, origin, type) ==
    /\ at = "sieve" /\ candis < MaxCandis
    /\ hash.shash * index * 2 ^ origin <= MaxOrigin
    /\ candi' = [index |-> index, origin |-> origin, type |-> type, chainpos |-> 0]
    /\ candis' = candis + 1
    /\ at' = "device" /\ faulty' = FALSE /\ shareSent' = NoShare
    /\ mpzN' = 0 /\ mpzOriginMinusOne' = 0 /\ mpzOriginPlusOne' = 0
    /\ nChainSeq' = 0 /\ nChainLength' = 0
    /\ UNCHANGED <<depth, wrk, hash, errors>>

-----------------------------------------------------------------------------
(* On the device. *)

\* setup_fermat: the number of the chain that is tested next.
LineOfPosition(info) == info.origin + info.chainpos       \* mutated form

Line(info) ==
    info.origin + (IF info.type < 2 THEN info.chainpos ELSE info.chainpos \div 2)

fprime(info) ==
    hash.shash * info.index * 2 ^ Line(info)
       + (IF info.type = 1 \/ (info.type = 2 /\ info.chainpos % 2 = 1) THEN 1 ELSE -1)

DevicePasses(info) ==
    LET n == fprime(info) IN PowMod(2, n - 1, n) = 1

PassedOneLate ==                                          \* mutated form
    /\ candi' = [candi EXCEPT !.chainpos = @ + 1]
    /\ at' = IF candi.chainpos < depth THEN "device" ELSE "host"
    /\ UNCHANGED <<depth, wrk, hash, cpu, candis, errors, shareSent>>

\* check_fermat
Passed ==
    /\ candi' = [candi EXCEPT !.chainpos = @ + 1]
    /\ at' = IF candi.chainpos + 1 < depth THEN "device" ELSE "host"
    /\ UNCHANGED <<depth, wrk, hash, cpu, candis, errors, shareSent>>

Pass ==
    /\ at = "device" /\ DevicePasses(candi)
    /\ Passed
    /\ UNCHANGED faulty

PassWrongly ==
    /\ at = "device" /\ ~DevicePasses(candi)
    /\ Passed
    /\ faulty' = TRUE

Drop ==
    /\ at = "device" /\ ~DevicePasses(candi)
    /\ at' = "sieve"
    /\ UNCHANGED <<depth, wrk, hash, candi, cpu, candis, errors, faulty, shareSent>>

-----------------------------------------------------------------------------
(* On the host: ProbablePrimeChainTestFast with base = mDepth, so that the *)
(* numbers the device has tested are taken for primes.                     *)

chainorg == hash.shash * candi.index * 2 ^ candi.origin
kept == <<depth, wrk, hash, candi, candis, errors, faulty, shareSent>>

\* The chain n, 2n+1, ... or n, 2n-1, ... is entered at its number `base'.
ProbableCunninghamChainTest ==
    /\ at = "host" /\ candi.type < 2
    /\ nChainLength' = depth * 2 ^ FractionalBits
    /\ mpzN' = IF candi.type = 0
               THEN (chainorg - 1) * 2 ^ depth + (2 ^ depth - 1)
               ELSE (chainorg + 1) * 2 ^ depth - (2 ^ depth - 1)
    /\ nChainSeq' = depth + 1
    /\ at' = "first"
    /\ UNCHANGED <<mpzOriginMinusOne, mpzOriginPlusOne, kept>>

TestFirst ==
    /\ at = "first"
    /\ at' = IF FermatProbablePrimality(mpzN) THEN "next" ELSE "judge"
    /\ UNCHANGED <<cpu, kept>>

\* The fraction is left out for numbers before the fourth.
TestNext ==
    /\ at = "next"
    /\ LET n == 2 * mpzN + (IF candi.type = 0 THEN 1 ELSE -1)
           grown == TargetIncrementLength(nChainLength)
       IN  /\ mpzN' = n
           /\ nChainSeq' = nChainSeq + 1
           /\ IF EulerLagrangeLifchitz(n, candi.type = 0)
              THEN nChainLength' = grown /\ at' = "next"
              ELSE /\ nChainLength' = IF nChainSeq < 4 THEN grown ELSE FractionalLength(n, grown)
                   /\ at' = "judge"
    /\ UNCHANGED <<mpzOriginMinusOne, mpzOriginPlusOne, kept>>

half == depth \div 2

\* Both chains are entered at their number base/2; of an odd base one number is
\* tested again.
ProbableBiTwinChainTest ==
    /\ at = "host" /\ candi.type = 2
    /\ nChainLength' = (depth - (depth % 2)) * 2 ^ FractionalBits
    /\ mpzOriginMinusOne' = (chainorg - 1) * 2 ^ half + (2 ^ half - 1)
    /\ nChainSeq' = half + 2
    /\ at' = "firstMinus"
    /\ UNCHANGED <<mpzN, mpzOriginPlusOne, kept>>

TestFirstMinus ==
    /\ at = "firstMinus"
    /\ IF FermatProbablePrimality(mpzOriginMinusOne)
       THEN nChainLength' = TargetIncrementLength(nChainLength) /\ at' = "firstPlus"
       ELSE at' = "judge" /\ UNCHANGED nChainLength
    /\ UNCHANGED <<mpzN, mpzOriginMinusOne, mpzOriginPlusOne, nChainSeq, kept>>

TestFirstPlus ==
    /\ at = "firstPlus"
    /\ mpzOriginPlusOne' = (chainorg + 1) * 2 ^ half - (2 ^ half - 1)
    /\ IF FermatProbablePrimality(mpzOriginPlusOne')
       THEN nChainLength' = TargetIncrementLength(nChainLength) /\ at' = "nextMinus"
       ELSE at' = "judge" /\ UNCHANGED nChainLength
    /\ UNCHANGED <<mpzN, mpzOriginMinusOne, nChainSeq, kept>>

TestNextMinus ==
    /\ at = "nextMinus"
    /\ mpzOriginMinusOne' = 2 * mpzOriginMinusOne + 1
    /\ IF EulerLagrangeLifchitz(mpzOriginMinusOne', TRUE)
       THEN nChainLength' = TargetIncrementLength(nChainLength) /\ at' = "nextPlus"
       ELSE /\ nChainLength' = IF nChainSeq < 4 THEN nChainLength
                               ELSE FractionalLength(mpzOriginMinusOne', nChainLength)
            /\ at' = "judge"
    /\ UNCHANGED <<mpzN, mpzOriginPlusOne, nChainSeq, kept>>

TestNextPlus ==
    /\ at = "nextPlus"
    /\ mpzOriginPlusOne' = 2 * mpzOriginPlusOne - 1
    /\ IF EulerLagrangeLifchitz(mpzOriginPlusOne', FALSE)
       THEN nChainLength' = TargetIncrementLength(nChainLength) /\ at' = "nextMinus"
       ELSE nChainLength' = FractionalLength(mpzOriginPlusOne', nChainLength) /\ at' = "judge"
    /\ nChainSeq' = nChainSeq + 2
    /\ UNCHANGED <<mpzN, mpzOriginMinusOne, kept>>

-----------------------------------------------------------------------------
(* "check candis" *)

chainlength == TargetGetLength(nChainLength)

Share ==
    /\ at = "judge" /\ chainlength >= wrk.minshare
    /\ shareSent' = [hash   |-> hash.hash,
                     multi  |-> hash.primorial * candi.index * 2 ^ candi.origin,
                     length |-> chainlength, type |-> candi.type,
                     isblock |-> nChainLength >= wrk.bits]
    /\ at' = "sieve"
    /\ UNCHANGED <<depth, wrk, hash, candi, cpu, candis, errors, faulty>>

\* All of the first primes are divided out of the multiplier of the slot: what is
\* left is its largest divisor that none of them divides.
Stripped(m) ==
    CHOOSE d \in 1 .. m :
       /\ m % d = 0
       /\ \A p \in FirstPrimes : d % p # 0
       /\ \A e \in d + 1 .. m : m % e = 0 => \E p \in FirstPrimes : e % p = 0

DeviceWasWrong == at = "judge" /\ chainlength < wrk.minshare /\ chainlength < depth

Error ==
    /\ DeviceWasWrong
    /\ hash' = [hash EXCEPT !.primorial = Stripped(@)]
    /\ errors' = errors + 1
    /\ at' = "sieve"
    /\ UNCHANGED <<depth, wrk, candi, cpu, candis, faulty, shareSent>>

TooShort ==
    /\ at = "judge" /\ chainlength < wrk.minshare /\ chainlength >= depth
    /\ at' = "sieve"
    /\ UNCHANGED <<cpu, kept>>

-----------------------------------------------------------------------------
Next ==
    \/ \E index \in Indices, origin \in Origins, type \in 0 .. 2 : Report(index, origin, type)
    \/ Pass \/ PassWrongly \/ Drop
    \/ ProbableCunninghamChainTest \/ TestFirst \/ TestNext
    \/ ProbableBiTwinChainTest \/ TestFirstMinus \/ TestFirstPlus
    \/ TestNextMinus \/ TestNextPlus
    \/ Share \/ Error \/ TooShort

Spec == Init /\ [][Next]_vars

TypeOK ==
    /\ depth \in Depths /\ wrk \in Works /\ candis \in 0 .. MaxCandis /\ errors \in 0 .. candis
    /\ at \in {"sieve", "device", "host", "first", "next", "firstMinus", "firstPlus",
              "nextMinus", "nextPlus", "judge"}
    /\ candi.type \in 0 .. 2 /\ candi.chainpos \in 0 .. depth
    /\ nChainLength \in Nat /\ faulty \in BOOLEAN

-----------------------------------------------------------------------------
(* What a pool makes of a share: the chain of its origin, number by number. *)

Number(org, type, k) ==
    CASE type = 0 -> org * 2 ^ k - 1
      [] type = 1 -> org * 2 ^ k + 1
      [] type = 2 -> org * 2 ^ (k \div 2) + (IF k % 2 = 0 THEN -1 ELSE 1)

Prime(n) == n > 1 /\ \A d \in 2 .. 4096 : d * d > n \/ n % d # 0

Length(org, type) ==
    CHOOSE k \in 0 .. 10 : /\ ~Prime(Number(org, type, k))
                           /\ \A j \in 0 .. k - 1 : Prime(Number(org, type, j))

\* The length in the unit of nBits, with what the first composite number leaves.
LengthInBits(org, type) ==
    LET k == Length(org, type)
        n == Number(org, type, k)
    IN  k * 2 ^ FractionalBits + ((n - PowMod(2, n - 1, n)) * 2 ^ FractionalBits) \div n

\* No composite number of the chain looks like a prime to base two.
NoPseudoprime(org, type) ==
    \A k \in 0 .. Length(org, type) :
       LET n == Number(org, type, k) IN PowMod(2, n - 1, n) = 1 => Prime(n)

\* A share is what the pool takes it for.  Its hash times its multiplier is the
\* origin of a chain of its type with exactly its length, and it is a block
\* exactly when the length with its fraction reaches the target, although the
\* host never looks at the numbers that the device has tested and leaves the
\* fraction out when one of the first tests fails: for a depth of at most five
\* that ends below every target there is (nTargetMinLength).  Exceptions: the
\* device has passed a composite, a number is pseudoprime, or an error has
\* spoilt the slot.
ShareTrue ==
    LET org == shareSent.hash * shareSent.multi IN
    shareSent # NoShare /\ ~faulty /\ errors = 0 /\ NoPseudoprime(chainorg, candi.type) =>
       /\ shareSent.length = Length(org, shareSent.type)
       /\ shareSent.isblock <=> (LengthInBits(org, shareSent.type) >= wrk.bits)

\* What stats.errors can tell of the device.  Cunningham chains never get there:
\* their length starts at mDepth.  Only the number that is tested twice can,
\* the last of the device for a twin chain and an odd depth.
ErrorSeesLastOfTwin ==
    DeviceWasWrong =>
       /\ candi.type = 2 /\ depth % 2 = 1
       /\ faulty \/ ~NoPseudoprime(chainorg, 2)
=============================================================================
