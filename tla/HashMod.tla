------------------------------- MODULE HashMod -------------------------------
(***************************************************************************)
(* From a hash to the slots of the ring: which small primes divide it      *)
(* (gpu/sha256.cl, bhashmodUsePrecalc behind the two SHA-256), for which   *)
(* levels of the primorial the remaining multiplier is short enough, and   *)
(* what the host makes of the kernel's entries (xpmclient.cpp, "hashmod    *)
(* fetch").                                                                *)
(*                                                                         *)
(* The kernel never divides: it adds up the digits of DigitBits bits, each *)
(* times the residue of its weight, and recognises multiples by a          *)
(* multiplication with a rounded inverse.  The sum wraps around at a word. *)
(***************************************************************************)
EXTENDS Integers, Sequences

CONSTANTS
    WordBits, DigitBits, LongBits,  \* 32, 24 and 64 in the code
    Words,                          \* 8, the words of a hash
    gPrimes,                        \* the primes, from index 0
    DivisorsOne,                    \* the divisors whose weights are all 1, and
    Divisors,                       \* the others: records of the tables' columns
    Mul24Primes,                    \* 8, the primes multiplied with mul24
    FirstLevel, Limits,             \* 13, <<26, 33, 36>>
    HashNumbers,                    \* the hashes looked at
    Primorials                      \* values of mPrimorial, from the configuration

VARIABLES
    mPrimorial,     \* the primorial of the configuration
    state,          \* the hash as words, with the zero behind its last word
    at,             \* -1 before the kernel, then the number of entries fetched
    found,          \* the entries resultPrimorial of this hash
    slots,          \* what the host pushes into the ring for this hash
    errors          \* stats.errors

hashmodVars == <<mPrimorial, state, at, found, slots, errors>>

Word == 2 ^ WordBits
LastLevel == FirstLevel + Len(Limits) - 1
limit == [k \in FirstLevel .. LastLevel |-> Limits[k - FirstLevel + 1]]

-----------------------------------------------------------------------------
(* Divisibility on the device.                                             *)

\* The low bits of *(uint64_t*)(data + bitPos/32) >> (bitPos%32).
digit24(data, bitPos) ==
    LET w == bitPos \div WordBits
        v64 == data[w] + data[w + 1] * Word
    IN  (v64 \div 2 ^ (bitPos % WordBits)) % 2 ^ DigitBits

sum24(data, moddata) ==
    LET size24 == ((Words * WordBits + DigitBits - 1) \div DigitBits) * DigitBits
        acc[bitPos \in {b \in 0 .. size24 - 1 : b % DigitBits = 0}] ==
            IF bitPos = 0
            THEN data[0] % 2 ^ DigitBits
            ELSE (acc[bitPos - DigitBits]
                    + digit24(data, bitPos) * moddata[bitPos \div DigitBits]) % Word
    IN  acc[size24 - DigitBits]

check24(X, d) ==
    X = (d.divisor * (((X * d.multiplier) \div Word) \div 2 ^ d.offset)) % Word

divisionCheck24(data, d) == check24(sum24(data, d.modulos), d)

\* The indices of the primes whose bit is set in primorialBitField.
primorialBitField(data) ==
    LET accOne == sum24(data, DivisorsOne[1].modulos)
    IN  (IF data[0] % 2 = 0 THEN {0} ELSE {})
        \union {DivisorsOne[k].index : k \in {j \in DOMAIN DivisorsOne :
                                                 check24(accOne, DivisorsOne[j])}}
        \union {Divisors[k].index : k \in {j \in DOMAIN Divisors :
                                              divisionCheck24(data, Divisors[j])}}

-----------------------------------------------------------------------------
(* The multiplier of each level, as the product of the primes without bit. *)

BitField(indices) ==
    LET bits[k \in -1 .. 31] ==
            IF k = -1 THEN 0 ELSE bits[k - 1] + (IF k \in indices THEN 2 ^ k ELSE 0)
    IN  bits[LastLevel + 1]

\* a * p % 2^LongBits, in halves, since a * p need not fit the checker's integers.
mulLong(a, p) ==
    LET half == 2 ^ (LongBits \div 2)
        high == ((a \div half) * p) % 2 ^ (LongBits - LongBits \div 2)
    IN  (high * half + (a % half) * p) % 2 ^ LongBits

\* prod13, prod14 and prod15: 24 bit factors, a 32 bit product, and then 64 bits.
prod(field, level) ==
    LET factor(i) == IF i \in field THEN 1 ELSE gPrimes[i]
        short[i \in 0 .. Mul24Primes] ==
            IF i = 0
            THEN factor(0)
            ELSE IF i < Mul24Primes
                 THEN ((short[i - 1] % 2 ^ DigitBits) * factor(i)) % Word
                 ELSE (short[i - 1] * factor(i)) % Word
        long[i \in Mul24Primes .. level] ==
            IF i = Mul24Primes
            THEN short[i]
            ELSE mulLong(long[i - 1], factor(i))
    IN  long[level]

\* 64 - clz(x)
bitLength(x) == CHOOSE b \in 0 .. LongBits : x < 2 ^ b /\ (b = 0 \/ 2 ^ (b - 1) <= x)

\* A level is compared with the one before only.
ValidAfterNeighbour(field) ==                                      \* mutated form
    LET valid[level \in FirstLevel .. LastLevel] ==
            /\ bitLength(prod(field, level)) < limit[level]
            /\ \A k \in {level - 1} \cap (FirstLevel .. LastLevel) :
                  ~(valid[k] /\ prod(field, level) = prod(field, k))
    IN  valid

\* p13isValid, p14isValid and p15isValid: short, and not the product of a valid level before.
isValid(field) ==
    LET valid[level \in FirstLevel .. LastLevel] ==
            LET p == prod(field, level)
            IN  /\ bitLength(p) < limit[level]
                /\ \A k \in FirstLevel .. level - 1 : ~(valid[k] /\ p = prod(field, k))
    IN  valid

\* (primorialBitField & 0xFFFF) | (level << 16)
entryOf(field, level) ==
    BitField({i \in field : i <= LastLevel}) + level * 2 ^ (LastLevel + 1)

-----------------------------------------------------------------------------

wordsOf(h) ==
    [i \in 0 .. Words |-> IF i = Words THEN 0 ELSE (h \div Word ^ i) % Word]

hashNumber ==
    LET number[i \in 0 .. Words] ==
            IF i = Words THEN 0 ELSE state[i] + Word * number[i + 1]
    IN  number[0]

Init ==
    /\ mPrimorial \in Primorials
    /\ state \in {wordsOf(h) : h \in HashNumbers}
    /\ at = -1 /\ found = <<>> /\ slots = <<>> /\ errors = 0

\* bhashmodUsePrecalc behind the hashing: the tests and the appends of one work item.
bhashmodUsePrecalc ==
    /\ at = -1
    /\ LET field == primorialBitField(state)
           levels == {k \in FirstLevel .. LastLevel : isValid(field)[k]}
           inOrder == SelectSeq([k \in 1 .. Len(Limits) |-> FirstLevel + k - 1],
                                LAMBDA k : k \in levels)
       IN  found' = IF state[Words - 1] >= Word \div 2
                    THEN [k \in 1 .. Len(inOrder) |-> entryOf(field, inOrder[k])]
                    ELSE <<>>
    /\ at' = 0
    /\ UNCHANGED <<mPrimorial, state, slots, errors>>

primorial(i) ==
    LET p[j \in 0 .. mPrimorial + i] == IF j = 0 THEN gPrimes[0] ELSE p[j - 1] * gPrimes[j]
    IN  p[mPrimorial + i]

realPrimorial(entry, level) ==
    LET real[j \in -1 .. level] ==
            IF j = -1
            THEN 1
            ELSE real[j - 1] * (IF (entry \div 2 ^ j) % 2 = 1 THEN gPrimes[j] ELSE 1)
    IN  real[level]

\* One turn of the loop over hashmod.count: what is pushed, or counted as an error.
FetchHash ==
    /\ at \in 0 .. Len(found) - 1
    /\ at' = at + 1
    /\ LET entry == found[at + 1]
           level == entry \div 2 ^ (LastLevel + 1)
           real == realPrimorial(entry, level)
           idx == (IF mPrimorial > level THEN mPrimorial ELSE level) - mPrimorial
           slot == [level |-> level, primorialIdx |-> idx,
                    multiplier |-> primorial(idx) \div real]
       IN  IF hashNumber % real = 0 /\ state[Words - 1] >= Word \div 2
           THEN slots' = Append(slots, slot) /\ UNCHANGED errors
           ELSE errors' = errors + 1 /\ UNCHANGED slots
    /\ UNCHANGED <<mPrimorial, state, found>>

Next == bhashmodUsePrecalc \/ FetchHash

-----------------------------------------------------------------------------

TypeOK ==
    /\ mPrimorial \in Primorials
    /\ \A i \in 0 .. Words : state[i] \in 0 .. Word - 1
    /\ at \in -1 .. Len(found)
    /\ Len(found) <= Len(Limits)
    /\ Len(slots) + errors <= Len(found)

-----------------------------------------------------------------------------
(* The definitions without the kernel's shortcuts.                         *)

divides(i) == hashNumber % gPrimes[i] = 0

\* No sum of digits wraps around for this hash, so that all checks are exact.
NoSumWraps ==
    \A d \in {DivisorsOne[k] : k \in DOMAIN DivisorsOne}
             \union {Divisors[k] : k \in DOMAIN Divisors} :
        LET exact[k \in 0 .. (Words * WordBits - 1) \div DigitBits] ==
                IF k = 0
                THEN state[0] % 2 ^ DigitBits
                ELSE exact[k - 1] + digit24(state, k * DigitBits) * d.modulos[k]
        IN  exact[(Words * WordBits - 1) \div DigitBits] < Word

\* The primes up to a level that do not divide the hash, multiplied.
missing(level) ==
    LET m[i \in -1 .. level] ==
            IF i = -1 THEN 1 ELSE m[i - 1] * (IF divides(i) THEN 1 ELSE gPrimes[i])
    IN  m[level]

\* hash * multiplier is a multiple of the primorial that the sieve of the slot starts
\* behind (mPrimorial + primorialIdx): a prime that the sieve leaves out divides every
\* candidate's origin, even if the sums of the kernel have wrapped around.
SieveStartsBehind ==
    \A s \in {slots[k] : k \in DOMAIN slots} :
        \A j \in 0 .. mPrimorial + s.primorialIdx :
            divides(j) \/ s.multiplier % gPrimes[j] = 0

\* Two slots of one hash have different multipliers, so that no number is sieved twice,
\* as long as the primorial of the configuration is not above the first level.
MultipliersDiffer ==
    mPrimorial <= FirstLevel =>
        \A k, l \in DOMAIN slots :
            slots[k].multiplier = slots[l].multiplier => k = l

\* When no sum wraps, the host finds no error and every level whose multiplier is short
\* enough has a slot with just the primes that are missing.
NoLevelLost ==
    (at = Len(found) /\ NoSumWraps) =>
        /\ errors = 0
        /\ hashNumber >= Word ^ Words \div 2 /\ mPrimorial <= FirstLevel =>
              \A level \in FirstLevel .. LastLevel :
                  missing(level) < 2 ^ (limit[level] - 1) =>
                      \E k \in DOMAIN slots : slots[k].multiplier = missing(level)

SlotsRight == SieveStartsBehind /\ MultipliersDiffer /\ NoLevelLost

=============================================================================
