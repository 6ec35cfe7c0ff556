------------------------------- MODULE Blake2b -------------------------------
(***************************************************************************)
(* BLAKE2b of the ZCash GPU miner.  The host hashes the header and the     *)
(* nonce with the rows of the state in vector registers                    *)
(* (zcash/blake2b.cpp), each device goes on from the state it is given     *)
(* with the index of a leaf and with single words (gpu/blake2bcl.h).       *)
(*                                                                         *)
(* A word has eight bytes of ByteBits bits each, so that the rotations by  *)
(* 32, 24, 16 and 63 are by four, three, two and almost eight bytes.       *)
(***************************************************************************)
EXTENDS Integers, Sequences, Bitwise

CONSTANTS
    ByteBits,           \* 8 in the code
    blake2b_IV,         \* eight words
    param,              \* the parameter block, as eight words
    BlakeMessage,       \* the bytes that are hashed
    BlakeLengths,       \* the lengths of the pieces they come in
    LeafBlocks          \* the numbers of the blocks of leaves

VARIABLES
    build,              \* the instructions the host is compiled for
    blake2bState,
    hashed,             \* how many bytes have gone in
    fromHost, fromDevice \* digests

blakeVars == <<build, blake2bState, hashed, fromHost, fromDevice>>

Byte == 2 ^ ByteBits
WordLimit == Byte ^ 8
BLOCKBYTES == 128

Add(x, y) == (x + y) % WordLimit
RotateRight(x, n) == x \div 2 ^ n + (x % 2 ^ n) * 2 ^ (8 * ByteBits - n)

\* Word j of a block, the lowest byte first.
WordAt(buf, j) ==
    LET w[k \in 0 .. 8] == IF k = 8 THEN 0 ELSE buf[8 * j + k + 1] + Byte * w[k + 1]
    IN  w[0]

MessageWords(buf) == [j \in 1 .. 16 |-> WordAt(buf, j - 1)]

Overwrite(buf, from, bytes) ==
    [i \in DOMAIN buf |-> IF i - from \in DOMAIN bytes THEN bytes[i - from] ELSE buf[i]]

-----------------------------------------------------------------------------
(* The kernel: a state of sixteen words *)

blake2b_sigma ==
    << <<0, 1, 2, 3, 4, 5, 6, 7, 8, 9, 10, 11, 12, 13, 14, 15>>,
       <<14, 10, 4, 8, 9, 15, 13, 6, 1, 12, 0, 2, 11, 7, 5, 3>>,
       <<11, 8, 12, 0, 5, 2, 15, 13, 10, 14, 3, 6, 7, 1, 9, 4>>,
       <<7, 9, 3, 1, 13, 12, 11, 14, 2, 6, 5, 10, 4, 0, 15, 8>>,
       <<9, 0, 5, 7, 2, 4, 10, 15, 14, 1, 11, 12, 6, 8, 3, 13>>,
       <<2, 12, 6, 10, 0, 11, 8, 3, 4, 13, 7, 5, 15, 14, 1, 9>>,
       <<12, 5, 1, 15, 14, 13, 4, 10, 0, 7, 6, 3, 9, 2, 8, 11>>,
       <<13, 11, 7, 14, 12, 1, 3, 9, 5, 0, 15, 4, 8, 6, 2, 10>>,
       <<6, 15, 14, 9, 11, 3, 0, 8, 12, 2, 13, 7, 1, 4, 10, 5>>,
       <<10, 2, 8, 4, 7, 6, 1, 5, 15, 11, 9, 14, 3, 12, 13, 0>>,
       <<0, 1, 2, 3, 4, 5, 6, 7, 8, 9, 10, 11, 12, 13, 14, 15>>,
       <<14, 10, 4, 8, 9, 15, 13, 6, 1, 12, 0, 2, 11, 7, 5, 3>> >>

\* The first rotation swaps the halves of a word.
G(a, b, c, d, x, y) ==
    LET a1 == Add(a, Add(b, x))
        d1 == RotateRight(d ^^ a1, 4 * ByteBits)
        c1 == Add(c, d1)
        b1 == RotateRight(b ^^ c1, 3 * ByteBits)
        a2 == Add(a1, Add(b1, y))
        d2 == RotateRight(d1 ^^ a2, 2 * ByteBits)
        c2 == Add(c1, d2)
    IN  <<a2, RotateRight(b1 ^^ c2, 8 * ByteBits - 1), c2, d2>>

\* The columns and the diagonals of a round: places in v.
Quads == << <<1, 5, 9, 13>>, <<2, 6, 10, 14>>, <<3, 7, 11, 15>>, <<4, 8, 12, 16>>,
            <<1, 6, 11, 16>>, <<2, 7, 12, 13>>, <<3, 8, 9, 14>>, <<4, 5, 10, 15>> >>

\* ROUND(r): G of one after the other.
DeviceRound(v0, r, m) ==
    LET word(k) == m[blake2b_sigma[r][k] + 1]
        mix[i \in 0 .. 8] ==
            IF i = 0 THEN v0
            ELSE LET v == mix[i - 1]
                     p == Quads[i]
                     g == G(v[p[1]], v[p[2]], v[p[3]], v[p[4]], word(2 * i - 1), word(2 * i))
                 IN  [v EXCEPT ![p[1]] = g[1], ![p[2]] = g[2], ![p[3]] = g[3], ![p[4]] = g[4]]
    IN  mix[8]

DeviceCompress(h, m, counter, last) ==
    LET start == h \o [blake2b_IV EXCEPT ![5] = @ ^^ counter,
                                         ![7] = IF last THEN @ ^^ (WordLimit - 1) ELSE @]
        loop[n \in 0 .. 12] ==
            IF n = 0 THEN [r |-> 1, v |-> start, m |-> m]
            ELSE LET x == loop[n - 1] IN [x EXCEPT !.r = @ + 1, !.v = DeviceRound(@, x.r, x.m)]
        end == loop[12]
    IN  [j \in 1 .. 8 |-> h[j] ^^ (end.v[j] ^^ end.v[j + 8])]

LittleEndian(n) == [k \in 1 .. 4 |-> (n \div Byte ^ (k - 1)) % Byte]

\* The state is copied for each leaf.  Whether the index still fits into the block is
\* not tested.
blake2b_gpu_hash(state, idx) ==
    LET buf == Overwrite(state.buf, state.buflen, LittleEndian(idx))
        buflen == state.buflen + 4
        counter == (state.counter + buflen) % WordLimit
        padded == Overwrite(buf, buflen, [i \in 1 .. BLOCKBYTES - buflen |-> 0])
    IN  DeviceCompress(state.h, MessageWords(padded), counter, TRUE)

-----------------------------------------------------------------------------
(* The host: four rows of four words, in eight registers of two words, l and h *)

unpacklo(x, y) == <<x[1], y[1]>>
unpackhi(x, y) == <<x[2], y[2]>>
alignr(x, y) == <<y[2], x[1]>>      \* by eight bytes
blend(x, y) == <<x[1], y[2]>>       \* with the mask 0xF0
shuffled(x) == <<x[2], x[1]>>       \* by 1, 0, 3, 2

\* Four words, calculated in this order.
Four(Op(_)) == <<Op(1), Op(2), Op(3), Op(4)>>

low(row) == <<row[1], row[2]>>
high(row) == <<row[3], row[4]>>

\* Which words of the message LOAD_MSG_r_1 to LOAD_MSG_r_4 put into b0 and b1.  The
\* loads of SSE2 come with the words one by one,
sse2Loads ==
    << << <<0, 2, 4, 6>>, <<1, 3, 5, 7>>, <<8, 10, 12, 14>>, <<9, 11, 13, 15>> >>,
       << <<14, 4, 9, 13>>, <<10, 8, 15, 6>>, <<1, 0, 11, 5>>, <<12, 2, 7, 3>> >>,
       << <<11, 12, 5, 15>>, <<8, 0, 2, 13>>, <<10, 3, 7, 9>>, <<14, 6, 1, 4>> >>,
       << <<7, 3, 13, 11>>, <<9, 1, 12, 14>>, <<2, 5, 4, 15>>, <<6, 10, 0, 8>> >>,
       << <<9, 5, 2, 10>>, <<0, 7, 4, 15>>, <<14, 11, 6, 3>>, <<1, 12, 8, 13>> >>,
       << <<2, 6, 0, 8>>, <<12, 10, 11, 3>>, <<4, 7, 15, 1>>, <<13, 5, 14, 9>> >>,
       << <<12, 1, 14, 4>>, <<5, 15, 13, 10>>, <<0, 6, 9, 8>>, <<7, 3, 2, 11>> >>,
       << <<13, 7, 12, 3>>, <<11, 14, 1, 9>>, <<5, 15, 8, 2>>, <<0, 4, 6, 10>> >>,
       << <<6, 14, 11, 0>>, <<15, 9, 3, 8>>, <<12, 13, 1, 10>>, <<2, 7, 4, 5>> >>,
       << <<10, 8, 7, 1>>, <<2, 4, 6, 5>>, <<15, 9, 3, 13>>, <<11, 14, 12, 0>> >> >>

\* and those of SSE4.1 from the eight registers of the block.
P(i) == <<2 * i, 2 * i + 1>>

sse41Loads0to3 ==
    << <<unpacklo(P(0), P(1)) \o unpacklo(P(2), P(3)), unpackhi(P(0), P(1)) \o unpackhi(P(2), P(3)),
         unpacklo(P(4), P(5)) \o unpacklo(P(6), P(7)), unpackhi(P(4), P(5)) \o unpackhi(P(6), P(7))>>,
       <<unpacklo(P(7), P(2)) \o unpackhi(P(4), P(6)), unpacklo(P(5), P(4)) \o alignr(P(3), P(7)),
         shuffled(P(0)) \o unpackhi(P(5), P(2)), unpacklo(P(6), P(1)) \o unpackhi(P(3), P(1))>>,
       <<alignr(P(6), P(5)) \o unpackhi(P(2), P(7)), unpacklo(P(4), P(0)) \o blend(P(1), P(6)),
         blend(P(5), P(1)) \o unpackhi(P(3), P(4)), unpacklo(P(7), P(3)) \o alignr(P(2), P(0))>>,
       <<unpackhi(P(3), P(1)) \o unpackhi(P(6), P(5)), unpackhi(P(4), P(0)) \o unpacklo(P(6), P(7)),
         blend(P(1), P(2)) \o blend(P(2), P(7)), unpacklo(P(3), P(5)) \o unpacklo(P(0), P(4))>> >>

sse41Loads4to7 ==
    << <<unpackhi(P(4), P(2)) \o unpacklo(P(1), P(5)), blend(P(0), P(3)) \o blend(P(2), P(7)),
         blend(P(7), P(5)) \o blend(P(3), P(1)), alignr(P(6), P(0)) \o blend(P(4), P(6))>>,
       <<unpacklo(P(1), P(3)) \o unpacklo(P(0), P(4)), unpacklo(P(6), P(5)) \o unpackhi(P(5), P(1)),
         blend(P(2), P(3)) \o unpackhi(P(7), P(0)), unpackhi(P(6), P(2)) \o blend(P(7), P(4))>>,
       <<blend(P(6), P(0)) \o unpacklo(P(7), P(2)), unpackhi(P(2), P(7)) \o alignr(P(5), P(6)),
         unpacklo(P(0), P(3)) \o shuffled(P(4)), unpackhi(P(3), P(1)) \o blend(P(1), P(5))>>,
       <<unpackhi(P(6), P(3)) \o blend(P(6), P(1)), alignr(P(7), P(5)) \o unpackhi(P(0), P(4)),
         unpackhi(P(2), P(7)) \o unpacklo(P(4), P(1)), unpacklo(P(0), P(2)) \o unpacklo(P(3), P(5))>> >>

sse41Loads8to9 ==
    << <<unpacklo(P(3), P(7)) \o alignr(P(0), P(5)), unpackhi(P(7), P(4)) \o alignr(P(4), P(1)),
         P(6) \o alignr(P(5), P(0)), blend(P(1), P(3)) \o P(2)>>,
       <<unpacklo(P(5), P(4)) \o unpackhi(P(3), P(0)), unpacklo(P(1), P(2)) \o blend(P(3), P(2)),
         unpackhi(P(7), P(4)) \o unpackhi(P(1), P(6)), alignr(P(7), P(5)) \o unpacklo(P(6), P(0))>> >>

\* The last two of the twelve rounds load what the first two do.
Loads ==
    [b \in {"SSE2", "SSE41"} |->
        LET ten == IF b = "SSE2" THEN sse2Loads ELSE sse41Loads0to3 \o sse41Loads4to7 \o sse41Loads8to9
        IN  ten \o SubSeq(ten, 1, 2)]

\* A step of all the columns: G1 and G2 differ in the rotations.
HalfOfG(rows0, b, first, second) ==
    LET half[k \in 0 .. 4] ==
            IF k = 0 THEN rows0
            ELSE LET rows == half[k - 1]
                     sum1(j) == Add(Add(rows[1][j], b[j]), rows[2][j])
                     turned4(j) == RotateRight(rows[4][j] ^^ rows[1][j], first)
                     sum3(j) == Add(rows[3][j], rows[4][j])
                     turned2(j) == RotateRight(rows[2][j] ^^ rows[3][j], second)
                 IN  CASE k = 1 -> [rows EXCEPT ![1] = Four(sum1)]
                       [] k = 2 -> [rows EXCEPT ![4] = Four(turned4)]
                       [] k = 3 -> [rows EXCEPT ![3] = Four(sum3)]
                       [] k = 4 -> [rows EXCEPT ![2] = Four(turned2)]
    IN  half[4]

G1(rows, b) == HalfOfG(rows, b, 4 * ByteBits, 3 * ByteBits)
G2(rows, b) == HalfOfG(rows, b, 2 * ByteBits, 8 * ByteBits - 1)

\* The diagonals become columns, with SSSE3 by alignr and without it by unpack; and back.
DIAGONALIZE(bld, rows) ==
    LET l2 == low(rows[2])
        h2 == high(rows[2])
        l4 == low(rows[4])
        h4 == high(rows[4])
    IN  <<rows[1],
          IF bld = "SSE41" THEN alignr(h2, l2) \o alignr(l2, h2)
          ELSE unpackhi(l2, unpacklo(h2, h2)) \o unpackhi(h2, unpacklo(l2, l2)),
          high(rows[3]) \o low(rows[3]),
          IF bld = "SSE41" THEN alignr(l4, h4) \o alignr(h4, l4)
          ELSE unpackhi(h4, unpacklo(l4, l4)) \o unpackhi(l4, unpacklo(h4, h4))>>

UNDIAGONALIZE(bld, rows) ==
    LET l2 == low(rows[2])
        h2 == high(rows[2])
        l4 == low(rows[4])
        h4 == high(rows[4])
    IN  <<rows[1],
          IF bld = "SSE41" THEN alignr(l2, h2) \o alignr(h2, l2)
          ELSE unpackhi(h2, unpacklo(l2, l2)) \o unpackhi(l2, unpacklo(h2, h2)),
          high(rows[3]) \o low(rows[3]),
          IF bld = "SSE41" THEN alignr(h4, l4) \o alignr(l4, h4)
          ELSE unpackhi(l4, unpacklo(h4, h4)) \o unpackhi(h4, unpacklo(l4, l4))>>

\* The words of a round, in the order of b0 and b1.
Loaded(load, m) ==
    LET b(i) == LET word(j) == m[load[i][j] + 1] IN Four(word) IN Four(b)

HostRound(bld, rows0, b) ==
    LET step[k \in 0 .. 6] ==
            IF k = 0 THEN rows0
            ELSE LET rows == step[k - 1]
                 IN  CASE k = 1 -> G1(rows, b[1])
                       [] k = 2 -> G2(rows, b[2])
                       [] k = 3 -> DIAGONALIZE(bld, rows)
                       [] k = 4 -> G1(rows, b[3])
                       [] k = 5 -> G2(rows, b[4])
                       [] k = 6 -> UNDIAGONALIZE(bld, rows)
    IN  step[6]

blake2b_compress(bld, h, m, counter, lastblock) ==
    LET start == <<SubSeq(h, 1, 4), SubSeq(h, 5, 8), SubSeq(blake2b_IV, 1, 4),
                   <<blake2b_IV[5] ^^ counter, blake2b_IV[6],
                     blake2b_IV[7] ^^ (IF lastblock THEN WordLimit - 1 ELSE 0), blake2b_IV[8]>> >>
        loop[n \in 0 .. 12] ==
            IF n = 0 THEN [r |-> 1, rows |-> start, m |-> m, loads |-> Loads[bld]]
            ELSE LET x == loop[n - 1]
                 IN  [x EXCEPT !.r = @ + 1,
                               !.rows = HostRound(bld, @, Loaded(x.loads[x.r], x.m))]
        end == loop[12].rows
        low4(j) == h[j] ^^ (end[3][j] ^^ end[1][j])
        high4(j) == h[j + 4] ^^ (end[4][j] ^^ end[2][j])
    IN  Four(low4) \o Four(high4)

blake2b_init_param ==
    [h |-> [j \in 1 .. 8 |-> blake2b_IV[j] ^^ param[j]], buf |-> [i \in 1 .. BLOCKBYTES |-> 0],
     counter |-> 0, buflen |-> 0]

\* A full buffer is compressed.
Absorb(bld, S, bytes) ==
    LET buf == Overwrite(S.buf, S.buflen, bytes)
        counter == (S.counter + BLOCKBYTES) % WordLimit
    IN  [h |-> blake2b_compress(bld, S.h, MessageWords(buf), counter, FALSE), buf |-> buf,
         counter |-> counter, buflen |-> 0]

\* A block is compressed only when a byte behind it is known to come.
blake2b_update(bld, state, in) ==
    LET fill == BLOCKBYTES - state.buflen
        n == IF Len(in) > fill THEN 1 + ((Len(in) - fill - 1) \div BLOCKBYTES) ELSE 0
        used(i) == IF i = 0 THEN 0 ELSE fill + BLOCKBYTES * (i - 1)
        run[i \in 0 .. n] ==
            IF i = 0 THEN state ELSE Absorb(bld, run[i - 1], SubSeq(in, used(i - 1) + 1, used(i)))
        left == SubSeq(in, used(n) + 1, Len(in))
    IN  [run[n] EXCEPT !.buf = Overwrite(@, IF n = 0 THEN state.buflen ELSE 0, left), !.buflen = @ + Len(left)]

\* Its first test, for more than a block, is from a larger buffer and never true.
blake2b_final(bld, state) ==
    LET counter == (state.counter + state.buflen) % WordLimit
        padded == Overwrite(state.buf, state.buflen,
                            [i \in 1 .. BLOCKBYTES - state.buflen |-> 0])
    IN  blake2b_compress(bld, state.h, MessageWords(padded), counter, TRUE)

-----------------------------------------------------------------------------
BlakeInit ==
    /\ build \in {"SSE2", "SSE41"}
    /\ blake2bState = blake2b_init_param
    /\ hashed = 0 /\ fromHost = <<>> /\ fromDevice = <<>>

\* The header and the nonce come in by setheader and setnonce.
HashPiece ==
    /\ fromHost = <<>>
    /\ \E len \in BlakeLengths :
          /\ hashed + len <= Len(BlakeMessage)
          /\ blake2bState' = blake2b_update(build, blake2bState,
                                            SubSeq(BlakeMessage, hashed + 1, hashed + len))
          /\ hashed' = hashed + len
    /\ UNCHANGED <<build, fromHost, fromDevice>>

\* A device and who checks its solutions hash a number of a block of leaves: header and
\* nonce leave room for it in their second block.
HashLeafBlock ==
    /\ fromHost = <<>> /\ blake2bState.buflen + 4 <= BLOCKBYTES
    /\ \E block \in LeafBlocks :
          /\ fromDevice' = blake2b_gpu_hash(blake2bState, block)
          /\ \E curr_state \in {blake2b_update(build, blake2bState, LittleEndian(block))} :
                fromHost' = blake2b_final(build, curr_state)
    /\ UNCHANGED <<build, blake2bState, hashed>>

\* The digest without a number; beside it that of all the bytes, block by block.
HashWhole ==
    /\ fromHost = <<>> /\ hashed > 0
    /\ fromHost' = blake2b_final(build, blake2bState)
    /\ LET bytes == SubSeq(BlakeMessage, 1, hashed)
           n == (hashed + BLOCKBYTES - 1) \div BLOCKBYTES
           block(i) == MessageWords([k \in 1 .. BLOCKBYTES |->
                                IF BLOCKBYTES * (i - 1) + k <= hashed
                                THEN bytes[BLOCKBYTES * (i - 1) + k] ELSE 0])
           h[i \in 0 .. n] ==
              IF i = 0 THEN blake2b_init_param.h
              ELSE DeviceCompress(h[i - 1], block(i), IF i = n THEN hashed ELSE BLOCKBYTES * i, i = n)
       IN  fromDevice' = h[n]
    /\ UNCHANGED <<build, blake2bState, hashed>>

BlakeNext == HashPiece \/ HashLeafBlock \/ HashWhole

BlakeSpec == BlakeInit /\ [][BlakeNext]_blakeVars

BlakeTypeOK ==
    /\ build \in DOMAIN Loads
    /\ blake2bState.buflen \in 0 .. BLOCKBYTES
    /\ blake2bState.counter + blake2bState.buflen = hashed
    /\ \A j \in 1 .. 8 : blake2bState.h[j] \in 0 .. WordLimit - 1

\* The device comes from the state the host gives it to the hash that the host comes to
\* with the same bytes, however they were cut into pieces; and both builds load the words
\* that sigma names.
BlakeAgrees ==
    /\ fromHost = fromDevice
    /\ hashed = 0 => \A r \in 1 .. 12 : \A i, j \in 1 .. 4 :
          Loads[build][r][i][j] = blake2b_sigma[r][8 * ((i - 1) \div 2) + 2 * j - (i % 2)]
=============================================================================
