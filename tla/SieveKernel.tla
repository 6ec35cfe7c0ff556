---------------------------- MODULE SieveKernel ----------------------------
(***************************************************************************)
(* The sieve of one hash: setup_sieve of gpu/fermat.cl finds the first     *)
(* multiplier that each prime divides, sieve of gpu/sieve.cl crosses out   *)
(* the multiples in the window of a work group (stripe), in the version of *)
(* NVIDIA and in that of the other platforms, and s_sieve reports one      *)
(* candidate of a word for every place where a chain may start.            *)
(*                                                                         *)
(* A word of a line is a set of bits: the lines are the sets of positions  *)
(* that are crossed out.  The lines of a stripe, and the two kinds of      *)
(* chains, have work groups of their own that touch nothing in common; they*)
(* go forward together here.  Within a group the threads only add to the   *)
(* set (atomic_or).  Floating point numbers have Mantissa bits.  Writes    *)
(* behind the end of the local memory have no effect.                      *)
(***************************************************************************)
EXTENDS Integers, Sequences, FiniteSetsExt

CONSTANTS
    SIZE, WordBits, STRIPES, WIDTH, TARGET, LSIZE,  \* config.cl; WordBits is 32
    nps_all,            \* [platform -> sequence]: logarithm of primes per run
    NLIFO, N, LimbBits, \* LimbBits is 32
    Mantissa,           \* 24
    Narrow,             \* 320, the bits of the smaller Fermat test
    gPrimes, RangesFrom,    \* the table, and the place whose ranges are compiled in, 13
    PCounts, Firsts,    \* weaveDepth, and the first place that is not in a primorial
    SieveDepths, Fixed, \* mDepth, and the products of a hash and its primorial
    TrialStep           \* 16

VARIABLES
    platform, PCOUNT, first, mDepth, shash, stripe,
    offset,             \* [1 .. 2 -> [line -> [prime -> position]]]
    sieve,              \* [1 .. 2 -> [line -> set of positions]]
    stage, ip,          \* what is done next, and the run or group of primes
    plifo, lpos,        \* the groups that are fetched in advance
    word, found

vars == <<platform, PCOUNT, first, mDepth, shash, stripe, offset, sieve, stage, ip,
          plifo, lpos, word, found>>

chosen == <<platform, PCOUNT, first, mDepth, shash, stripe>>

Window == SIZE * WordBits
entry == Window * (stripe + (STRIPES \div 2))
Line == 0 .. WIDTH - 1
prime(i) == gPrimes[first + i]      \* primes[i], i from 0

-----------------------------------------------------------------------------
(* Floating point numbers *)

Bits(x) == CHOOSE k \in 0 .. 31 : 2 ^ k > x /\ \A j \in 0 .. k - 1 : 2 ^ j <= x

\* a / b to the nearest whole number, of two as near to the even one.
Nearest(a, b) ==
    LET f == a \div b
        twice == 2 * (a % b)
    IN  IF twice > b \/ (twice = b /\ f % 2 = 1) THEN f + 1 ELSE f

\* x with no more than Mantissa significant bits.
ToFloat(x) ==
    LET s == Bits(x) - Mantissa IN
    IF s <= 0 THEN x ELSE Nearest(x, 2 ^ s) * 2 ^ s

Exponent(p) == Mantissa + Bits(p) - 1
fiprime(p) == Nearest(2 ^ Exponent(p), p)       \* times 2^-Exponent(p)

\* (uint)(fentry * fiprime)
Quotient(p) == ToFloat(entry * fiprime(p)) \div 2 ^ Exponent(p)

-----------------------------------------------------------------------------
(* setup_sieve *)

modulos(p) == [j \in 0 .. N - 3 |-> 2 ^ (LimbBits * (j + 1)) % p]

mod32(x, p) ==
    LET limb(i) == (x \div 2 ^ (LimbBits * i)) % 2 ^ LimbBits IN
    (limb(0) + MapThenSumSet(LAMBDA i : modulos(p)[i - 1] * limb(i), 1 .. N - 2)) % p

int_invert(a, p) ==
    LET aux[rem \in Nat \X Nat, t \in Int \X Int] ==
            IF rem[2] <= 1 THEN t[2]
            ELSE aux[<<rem[2], rem[1] % rem[2]>>, <<t[2], t[1] - (rem[1] \div rem[2]) * t[2]>>]
    IN  (aux[<<p, a % p>>, <<0, 1>>] + p) % p


\* x / 2 modulo p
Half(x, p) == IF x % 2 = 1 THEN (x + p) \div 2 ELSE x \div 2

FixedInverse(p) ==
    LET inv[layer \in Nat] ==
            IF layer = 0 THEN int_invert(mod32(shash, p), p) ELSE Half(inv[layer - 1], p)
    IN  inv

\* A prime that divides the number of the hash divides no number of a chain; it
\* gets the offset of one that does.
setup_sieve ==
    /\ stage = "setup"
    /\ offset' = [s \in 1 .. 2 |-> [layer \in Line |-> [i \in 0 .. PCOUNT - 1 |->
                    LET p == prime(i) IN
                    IF mod32(shash, p) = 0 THEN 0
                    ELSE IF s = 1 THEN FixedInverse(p)[layer] ELSE p - FixedInverse(p)[layer]]]]
    /\ stage' = "small" /\ ip' = 1
    /\ UNCHANGED <<chosen, sieve, plifo, lpos, word, found>>

-----------------------------------------------------------------------------
(* sieve *)

\* dumpSieveConstants: the groups from which on a prime has at most three, two
\* and one multiples in a window; 0 when there is none.
sieveRanges ==
    [hits \in 1 .. 3 |->
        LET few == {i \in 1 .. (PCOUNT \div LSIZE) - 1 :
                       Window \div gPrimes[RangesFrom + i * LSIZE] <= 3 - hits}
        IN  IF few = {} THEN 0 ELSE Min(few)]

NVIDIA == platform = "NVIDIA"

\* The first multiple in the window, unless the quotient was rounded.
pos(p, off) ==
    LET x == Quotient(p) * p + off - entry IN IF x < 0 THEN x + p ELSE x

\* "NVidia requires repeat this, why?"
posAgain(p, off) == IF NVIDIA /\ pos(p, off) < 0 THEN pos(p, off) + p ELSE pos(p, off)

InWindow(positions) == positions \cap (0 .. Window - 1)

\* What var threads mark that take every var'th multiple each.
MarkedByThreads(x, p, var) ==
    UNION {LET own == x + lpoff * p IN
           IF own < 0 THEN {} ELSE InWindow({own + k * var * p : k \in 0 .. Window \div (var * p)}) :
             lpoff \in 0 .. var - 1}

\* Run b of the smallest primes: 2^nps primes, each by several threads.
RunPrimes(b) ==
    LET poff == MapThenSumSet(LAMBDA c : 2 ^ nps_all[platform][c], 1 .. b - 1)
    IN  poff .. poff + 2 ^ nps_all[platform][b] - 1

MarkSmall ==
    /\ stage = "small"
    /\ LET nps == nps_all[platform] IN
       /\ sieve' = [s \in 1 .. 2 |-> [l \in Line |-> sieve[s][l] \cup
                     UNION {MarkedByThreads(posAgain(prime(i), offset[s][l][i]), prime(i),
                                            LSIZE \div 2 ^ nps[ip]) : i \in RunPrimes(ip)}]]
       /\ IF ip < Len(nps) THEN ip' = ip + 1 /\ UNCHANGED stage
          ELSE ip' = 1 /\ stage' = "large"
    /\ UNCHANGED <<chosen, offset, plifo, lpos, word, found>>

\* A prime that a thread has for itself.  A position below zero is a huge number:
\* nothing is marked, except by the next additions that bring it back.
MarkedOnce(x, p, hits) ==
    IF NVIDIA /\ x < 0 THEN {} ELSE InWindow({x + k * p : k \in 0 .. hits - 1})

MarkedByOne(x, p) ==
    IF ip < sieveRanges[1]
    THEN IF ~NVIDIA /\ x < 0 THEN {} ELSE InWindow({x + k * p : k \in 0 .. 1 + (Window \div p)})
    ELSE MarkedOnce(x, p, IF ip < sieveRanges[2] THEN 3 ELSE IF ip < sieveRanges[3] THEN 2 ELSE 1)

Group(g) == {i \in g * LSIZE .. (g + 1) * LSIZE - 1 : i < PCOUNT}

MarkLarge ==
    /\ stage = "large" /\ ip < PCOUNT \div LSIZE
    /\ sieve' = [s \in 1 .. 2 |-> [l \in Line |-> sieve[s][l] \cup
                  UNION {MarkedByOne(pos(prime(i), offset[s][l][i]), prime(i)) :
                            i \in Group(plifo[lpos])}]]
    /\ plifo' = IF ip + NLIFO < PCOUNT \div LSIZE THEN [plifo EXCEPT ![lpos] = ip + NLIFO] ELSE plifo
    /\ lpos' = (lpos + 1) % NLIFO
    /\ ip' = ip + 1
    /\ UNCHANGED <<chosen, offset, stage, word, found>>

Swept ==
    /\ stage = "large" /\ ip >= PCOUNT \div LSIZE
    /\ stage' = "search"
    /\ UNCHANGED <<chosen, offset, sieve, ip, plifo, lpos, word, found>>

-----------------------------------------------------------------------------
(* s_sieve *)

Both(l) == sieve[1][l] \cup sieve[2][l]

\* The positions that one of the lines of a chain crosses out.
Mask(type, start) ==
    IF type < 2 THEN UNION {sieve[type + 1][start + l] : l \in 0 .. TARGET - 1}
    ELSE UNION {Both(start + l) : l \in 0 .. (TARGET \div 2) - 1}
            \cup (IF TARGET % 2 = 1 /\ start + (TARGET \div 2) < WIDTH
                  THEN sieve[1][start + (TARGET \div 2)] ELSE {})

LastStart(type) == IF type < 2 THEN WIDTH - TARGET ELSE WIDTH - (TARGET \div 2)

Multiplier(position) == (stripe + (STRIPES \div 2)) * Window + position

maxSizeOfOrigin(type, multiplier, start) ==                 \* mutated form
    Bits(shash) + Bits(multiplier) + start

maxSize(type, multiplier, start) ==
    Bits(shash) + Bits(multiplier) + start
       + (IF type < 2 THEN mDepth ELSE (mDepth \div 2) + (mDepth % 2))

Search ==
    /\ stage = "search" /\ word < SIZE
    /\ LET bits == word * WordBits .. word * WordBits + WordBits - 1 IN
       found' = found \cup
          {LET multiplier == Multiplier(Max(bits \ Mask(c[1], c[2]))) IN
           [index |-> multiplier, type |-> c[1], origin |-> c[2],
            pipeline |-> IF maxSize(c[1], multiplier, c[2]) <= Narrow THEN 320 ELSE 352] :
              c \in {c \in (0 .. 2) \X Line : c[2] <= LastStart(c[1]) /\ ~(bits \subseteq Mask(c[1], c[2]))}}
    /\ word' = word + 1
    /\ UNCHANGED <<chosen, offset, sieve, stage, ip, plifo, lpos>>

-----------------------------------------------------------------------------
(* What the benchmark makes of the same sieve on the CPU.                  *)

\* Some of the primes are tried, those below the first of the sieve as well.
trialDivisionChainTest(origin, fSophieGermain, chainLength) ==
    \A i \in 0 .. chainLength - 1 : \A divIdx \in {d \in 0 .. PCOUNT - 1 : d % TrialStep = 0} :
        (origin * 2 ^ i + (IF fSophieGermain THEN -1 ELSE 1)) % gPrimes[divIdx] # 0

\* The layers that a candidate of a type needs to be clear in, of each kind.
NeedsClear(type, firstLayer) ==
    CASE type = 0 -> [one |-> TARGET, two |-> 0]
      [] type = 1 -> [one |-> 0, two |-> TARGET]
      [] type = 2 -> [two |-> TARGET \div 2,
                      one |-> (TARGET \div 2) + (IF firstLayer + (TARGET \div 2) < WIDTH THEN TARGET % 2 ELSE 0)]

\* Every bit that is zero, of every type and first layer.
sieveResultsTest ==
    {c \in [type : 0 .. 2, firstLayer : Line, bit : 0 .. Window - 1] :
        /\ c.firstLayer <= WIDTH - (IF c.type < 2 THEN TARGET ELSE TARGET \div 2)
        /\ LET needs == NeedsClear(c.type, c.firstLayer)
           IN  /\ \A l \in 0 .. needs.one - 1 : c.bit \notin sieve[1][c.firstLayer + l]
               /\ \A l \in 0 .. needs.two - 1 : c.bit \notin sieve[2][c.firstLayer + l]}

candidateMultiplier(c) == Multiplier(c.bit) * 2 ^ c.firstLayer
invalid(c) ==
    LET chainOrigin == shash * candidateMultiplier(c)
    IN  \/ c.type # 1 /\ ~trialDivisionChainTest(chainOrigin, TRUE,
                              IF c.type = 0 THEN TARGET ELSE (TARGET + 1) \div 2)
        \/ c.type # 0 /\ ~trialDivisionChainTest(chainOrigin, FALSE,
                              IF c.type = 1 THEN TARGET ELSE TARGET \div 2)

\* CPU/GPU candidates difference
diff ==
    LET candidates == {candidateMultiplier(c) : c \in sieveResultsTest}
    IN  {c \in found : c.index * 2 ^ c.origin \notin candidates}

-----------------------------------------------------------------------------
NoOffset == [s \in 1 .. 2 |-> [l \in Line |-> [i \in 0 .. PCOUNT - 1 |-> 0]]]

Init ==
    /\ platform \in DOMAIN nps_all /\ PCOUNT \in PCounts /\ first \in Firsts
    /\ mDepth \in SieveDepths /\ shash \in Fixed
    /\ stripe \in 0 .. (STRIPES \div 2) - 1
    /\ sieveRanges[3] # 0       \* the weave is deep enough for its window
    /\ offset = NoOffset
    /\ sieve = [s \in 1 .. 2 |-> [l \in Line |-> {}]]
    /\ stage = "setup" /\ ip = 0
    /\ plifo = [i \in 0 .. NLIFO - 1 |-> i + 1] /\ lpos = 0
    /\ word = 0 /\ found = {}

Next == setup_sieve \/ MarkSmall \/ MarkLarge \/ Swept \/ Search

Spec == Init /\ [][Next]_vars

TypeOK ==
    /\ stage \in {"setup", "small", "large", "search"} /\ ip \in 0 .. PCOUNT \div LSIZE
    /\ \A s \in 1 .. 2, l \in Line :
          /\ \A i \in 0 .. PCOUNT - 1 : offset[s][l][i] \in 0 .. prime(i) - 1
          /\ sieve[s][l] \subseteq 0 .. Window - 1
    /\ lpos \in 0 .. NLIFO - 1 /\ word \in 0 .. SIZE

-----------------------------------------------------------------------------
SievePrimes == {prime(i) : i \in 0 .. PCOUNT - 1}

\* Number k of the chain of a type from a multiplier and a first line, less its
\* power of two modulo p.
NumberModulo(type, multiplier, line, p) ==
    (shash * (((multiplier % p) * 2 ^ line) % p) + (IF type = 0 THEN p - 1 ELSE 1)) % p

Divides(p, s, l, x) == NumberModulo(s - 1, Multiplier(x), l, p) = 0

Exact(p) == Quotient(p) = entry \div p

\* The ranges are compiled in for the default primorial: a prime of this sieve has
\* the range of a smaller one or its own.
RangesFit == first >= RangesFrom

\* A position is crossed out exactly if a prime of the sieve divides its number,
\* but for primes that divide the hash itself, which cross out numbers they do
\* not divide, and but for rounding.  A quotient that is too large loses the
\* first multiple in the window and no other.  One that is too small loses more,
\* except of the first primes on NVIDIA, which "repeat this".
SieveExact ==
    stage = "search" /\ word = 0 => \A s \in 1 .. 2, l \in Line, x \in 0 .. Window - 1 :
       /\ x \in sieve[s][l] =>
             \/ \E p \in SievePrimes : Divides(p, s, l, x)
             \/ \E p \in SievePrimes : shash % p = 0 /\ Multiplier(x) % p = 0
       /\ RangesFit /\ x \notin sieve[s][l] =>
             \A i \in 0 .. PCOUNT - 1 : LET p == prime(i) IN
                Divides(p, s, l, x) =>
                   \/ Quotient(p) > entry \div p /\ x < p
                   \/ Quotient(p) < entry \div p /\ ~(NVIDIA /\ i < LSIZE)

Length(type, start) ==
    IF type = 2 /\ start + (TARGET \div 2) = WIDTH THEN 2 * (TARGET \div 2) ELSE TARGET

LineOfNumber(type, k) == IF type < 2 THEN k ELSE k \div 2
TypeOfNumber(type, k) == IF type < 2 THEN type ELSE k % 2

\* What s_sieve reports: the numbers of a candidate have no prime of the sieve as
\* a factor unless one was rounded, all that are tested on the device fit into
\* the pipeline of the candidate, and once all words are searched there is a
\* candidate for every word and place in which a chain could start.
CandidatesRight ==
    word = SIZE =>
    /\ \A c \in found :
          /\ RangesFit => \A k \in 0 .. Length(c.type, c.origin) - 1, p \in SievePrimes :
                Exact(p) => NumberModulo(TypeOfNumber(c.type, k), c.index,
                                         c.origin + LineOfNumber(c.type, k), p) # 0
          /\ c.pipeline = 320 => \A k \in 0 .. mDepth - 1 :
                shash * c.index * 2 ^ (c.origin + LineOfNumber(c.type, k)) + 1 < 2 ^ Narrow
    /\ \A w \in 0 .. SIZE - 1, type \in 0 .. 2 : \A start \in 0 .. LastStart(type) :
          (\E x \in w * WordBits .. w * WordBits + WordBits - 1 :
             \A p \in SievePrimes : \A k \in 0 .. Length(type, start) - 1 :
                /\ shash % p # 0
                /\ ~Divides(p, TypeOfNumber(type, k) + 1, start + LineOfNumber(type, k), x))
          => \E c \in found : /\ c.type = type /\ c.origin = start
                               /\ (c.index % Window) \div WordBits = w

\* The benchmark finds none of the device's candidates missing on the CPU, and an invalid
\* one only where a quotient was rounded; or when TARGET is odd, for a twin whose last
\* number would need one layer more than there are, which it tries and the sieve has not.
BenchmarkRight ==
    word = SIZE =>
    /\ diff = {}
    /\ (RangesFit /\ \A p \in SievePrimes : Exact(p)) /\ (\A j \in 0 .. first - 1 : shash % gPrimes[j] = 0)
       => \A c \in sieveResultsTest :
             invalid(c) => c.type = 2 /\ TARGET % 2 = 1 /\ c.firstLayer + (TARGET \div 2) = WIDTH
=============================================================================
