---------------------------- MODULE KernelInputs ----------------------------
(* What the instances of the algorithms are given. *)
EXTENDS Integers, Sequences

\* FermatTest: numbers of two and three limbs of 8 bits.  A limb of ones in the
\* middle makes sub lose its borrow.
MCModuli ==
    {[i \in 0 .. 11 |-> IF i > 2 THEN 0 ELSE (x \div 256 ^ i) % 256] :
        x \in {257 + 2 * 97 * k : k \in 0 .. 24}
              \cup {70001 + 2 * 36411 * k : k \in 0 .. 64}
              \cup {77 + 255 * 256 + 65536 * b : b \in {0, 100, 193}}}

\* Benchmarks: three limbs of 8 bits.
MCMulOperands ==
    {[k \in 0 .. 2 |-> x[k + 1]] : x \in {<<1, 2, 3>>, <<255, 255, 255>>, <<200, 17, 0>>,
                                       <<91, 0, 199>>, <<7, 128, 44>>}}

\* EquihashSolver: some hash functions of 16 indices to 4 digits below 8.
MCTable(seed) ==
    [x \in 0 .. 15 |-> [d \in 1 .. 4 |->
        (((seed * 7919 + x * x * (31 + d) + x * (17 * d + seed) + d * 101
           + x * x * x * seed * d) % 9973) \div 13) % 8]]

\* No tuple of two collides with another one.
MCNoneLeft == [x \in 0 .. 15 |-> <<x % 8, IF x < 8 THEN 0 ELSE x - 8, x % 5, x % 3>>]

MCTables == {MCTable(seed) : seed \in 1 .. 11} \cup {MCNoneLeft}

\* PrimeChain: 6, 90, 16650 and 211050 are origins of long chains, of twins the
\* first and the last.
MCHashes ==
    {[hash |-> 3, primorial |-> 2], [hash |-> 5, primorial |-> 6],
     [hash |-> 51, primorial |-> 10], [hash |-> 555, primorial |-> 6],
     [hash |-> 7035, primorial |-> 6]}

\* With four bits of fraction.
MCWorks ==
    {[bits |-> 6 * 16 + 2, minshare |-> 3], [bits |-> 6 * 16 + 9, minshare |-> 6],
     [bits |-> 7 * 16 + 4, minshare |-> 5]}

\* SieveKernel: four small primes, in one run or in two.
MCPrimes ==
    LET table == <<5, 7, 11, 13, 17, 19, 23, 29, 31, 37, 41, 43, 47, 53, 59, 61, 67, 71, 73,
                   79, 83, 89, 97, 101, 103, 107, 109, 113, 127>>
    IN  [i \in 0 .. 28 |-> table[i + 1]]

MCRuns == [NVIDIA |-> <<2>>, AMD |-> <<1, 1>>]

\* One of them is divisible by two primes of the sieve.
MCFixed == {300, 1024, 11 * 97, 4095}
\* HashMod: eight primes of levels 5 to 7 and one above them.  The inverses are
\* 2^(13 + offset) / divisor, rounded up; the weights of a prime are 2^(8k) % prime.
MCHashPrimes ==
    LET table == <<2, 3, 5, 7, 11, 17, 23, 29, 31>> IN [i \in 0 .. 8 |-> table[i + 1]]

MCDivisor(i, d, m, o, weights) ==
    [index |-> i, divisor |-> d, multiplier |-> m, offset |-> o,
     modulos |-> [k \in 0 .. 3 |-> weights[k + 1]]]

MCDivisorsOne ==
    <<MCDivisor(1, 3, 5462, 1, <<1, 1, 1, 1>>), MCDivisor(2, 5, 6554, 2, <<1, 1, 1, 1>>),
      MCDivisor(5, 17, 7711, 4, <<1, 1, 1, 1>>)>>

\* The sums of 29 can wrap around, as those of 53 and 67 can in the code.
MCDivisors ==
    <<MCDivisor(3, 7, 4682, 2, <<1, 4, 2, 1>>), MCDivisor(4, 11, 5958, 3, <<1, 3, 9, 5>>),
      MCDivisor(6, 23, 5699, 4, <<1, 3, 9, 4>>), MCDivisor(7, 29, 4520, 4, <<1, 24, 25, 20>>),
      MCDivisor(8, 31, 4229, 4, <<1, 8, 2, 16>>)>>

\* Any hashes, and such as have many or just some of the primes as factors.
MCHashNumbers ==
    {2 ^ 25 + i * 119973 : i \in 0 .. 120} \cup {39270 * i : i \in 854 .. 980}
    \cup {510 * 29 * i : i \in 2268 .. 2330} \cup {510 * (66000 + 101 * i) : i \in 0 .. 300}

MCLimits == <<9, 11, 13>>

\* Sha256: words of 12 bits.
MCSha256K == [i \in 0 .. 63 |-> (i * i * 37 + i * 611 + 1234) % 4096]
MCHInit == [i \in 1 .. 8 |-> (i * i * i * 97 + i * 733 + 91) % 4096]
MCF1 == <<2, 5, 9>>
MCF2 == <<1, 4, 7>>
MCF3 == <<3, 8, 1>>
MCF4 == <<6, 7, 4>>
MCHeaders == {[i \in 1 .. 76 |-> (i * i + s * i) % 8] : s \in {3, 4}}
MCMessage == [i \in 1 .. 140 |-> (i * i * i + 3 * i) % 8]

\* Blake2b: words of 16 bits.
MCBlakeIV == <<27145, 47975, 15470, 42319, 20750, 39685, 8067, 23520>>
MCParam == [j \in 1 .. 8 |-> IF j = 1 THEN 1034 ELSE IF j > 6 THEN 4711 * j ELSE 0]
MCBlakeMessage == [i \in 1 .. 300 |-> (i * i + ((3 * i) \div 5)) % 4]

\* IndexPacking: three indices of five bits.
MCSolutions == [1 .. 3 -> {0, 1, 10, 16, 21, 31}]

\* AdlMonitor: two chips with one fan (1 and 2) and a third; the second has another name;
\* the first card of the driver is not AMD; the logical adapters of two are mixed; a card
\* that the driver does not name.
MCLayouts ==
    LET all == [id |-> [c \in 1 .. 3 |-> c + 4], bus |-> [c \in 1 .. 3 |-> c],
                name |-> [c \in 1 .. 3 |-> "X"], fan |-> [c \in 1 .. 3 |-> c # 2],
                adapters |-> <<1, 1, 2, 3>>, opencl |-> <<1, 2, 3>>]
    IN  {all, [all EXCEPT !.adapters = <<1, 2, 2>>, !.opencl = <<1, 2>>, !.name[2] = "Y"],
         [all EXCEPT !.adapters = <<3, 1, 2>>, !.id[3] = 0, !.opencl = <<1, 2>>],
         [all EXCEPT !.adapters = <<1, 2, 1, 2>>, !.opencl = <<1, 2>>],
         [all EXCEPT !.adapters = <<2>>, !.opencl = <<1, 2>>]}

MCSetting(core, memory, power, fan) ==
    [core |-> core, memory |-> memory, power |-> power, fan |-> fan]
MCAdlSettings ==
    {[i \in 0 .. 2 |-> IF i = 1 THEN second ELSE others] :
        second \in {MCSetting(0, 0, 42, 0), MCSetting(2, 9, -3, 0)},
        others \in {MCSetting(9, 4, 42, 70), MCSetting(0, 0, 7, 0), MCSetting(0, 0, 0, 50)}}
MCFactory == <<[engine |-> 3, memory |-> 5], [engine |-> 8, memory |-> 6]>>
MCGarbage == <<[engine |-> 99, memory |-> 98], [engine |-> 97, memory |-> 96]>>

\* EquihashKernels: hashes of 16 indices that have one solution or more; for two of them
\* any one kernel is wide.  In the last one all indices go to one bucket.
MCEquiHashes(seed) ==
    [x \in 0 .. 15 |-> (((seed * 7919 + x * x * (31 + seed) + x * (17 * seed + 5)
                            + x * x * x * seed * 7) % 9973) \div 2) % 4096]

MCCases ==
    {[hashes |-> MCEquiHashes(seed), wide |-> 4] :
        seed \in {2, 8, 35, 72, 97, 148, 300}}
    \cup {[hashes |-> [x \in 0 .. 15 |-> 1024 + 37 * x], wide |-> 4]}
    \cup {[hashes |-> MCEquiHashes(seed), wide |-> w] : seed \in {4, 60}, w \in 0 .. 3}
MCOldWord(h, at) == (at * at * 5 + 3 * at + h + 7) % 16
=============================================================================
