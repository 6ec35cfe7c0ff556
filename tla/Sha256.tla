------------------------------- MODULE Sha256 -------------------------------
(***************************************************************************)
(* The three implementations of SHA-256: the kernel's with rounds          *)
(* calculated ahead by the host (gpu/sha256.cl, simplePrecalcSHA256 of     *)
(* sha256.cpp), the class SHA_256 with which the host hashes a header      *)
(* again (sha256.cpp), and CSHA256, with which the ZCash miner hashes      *)
(* blocks (zcash/sha256.cpp).                                              *)
(*                                                                         *)
(* A word has four bytes of ByteBits bits each.  The rotations, the number *)
(* of rounds and the tables are parameters; blocks have 16 words.          *)
(***************************************************************************)
EXTENDS Integers, Sequences, Bitwise, TLC

CONSTANTS
    ByteBits,               \* 8 in the code
    Rounds,                 \* 64, a multiple of 16
    sha256_k, h_init,       \* the constants of the rounds, the first state
    S0, S1, R0, R1,         \* the amounts of F1, F2 (to the right), F3 and F4 (and a shift)
    Headers, Nonces,        \* block_t without its nonce, as 76 bytes, and nonces
    Junk,                   \* what the uninitialised msg[3] of the host may hold
    MessageBytes,           \* the bytes hashed in pieces
    PieceLengths, MaxPieces

VARIABLES
    sha256Pc,
    blockheader,            \* the bytes of the header
    args,                   \* the arguments of the kernel that do not depend on the nonce
    nonce, deviceHash, hostHash,
    pieces,                 \* the lengths of the pieces written
    sha, csha,              \* the two contexts
    digests                 \* what the two have come to

sha256Vars == <<sha256Pc, blockheader, args, nonce, deviceHash, hostHash,
                pieces, sha, csha, digests>>

-----------------------------------------------------------------------------
(* Words.                                                                  *)

Byte == 2 ^ ByteBits
WordSize == 4 * ByteBits
WordLimit == 2 ^ WordSize

Xor3(x, y, z) == (x ^^ y) ^^ z

SHA2_ROTR(x, n) == x \div 2 ^ n + (x % 2 ^ n) * 2 ^ (WordSize - n)
SHA2_SHFR(x, n) == x \div 2 ^ n
SHA2_CH(x, y, z) == (x & y) ^^ ((WordLimit - 1 - x) & z)
SHA2_MAJ(x, y, z) == Xor3((x & y), (x & z), (y & z))
SHA256_F1(x) == Xor3(SHA2_ROTR(x, S0[1]), SHA2_ROTR(x, S0[2]), SHA2_ROTR(x, S0[3]))
SHA256_F2(x) == Xor3(SHA2_ROTR(x, S1[1]), SHA2_ROTR(x, S1[2]), SHA2_ROTR(x, S1[3]))
SHA256_F3(x) == Xor3(SHA2_ROTR(x, R0[1]), SHA2_ROTR(x, R0[2]), SHA2_SHFR(x, R0[3]))
SHA256_F4(x) == Xor3(SHA2_ROTR(x, R1[1]), SHA2_ROTR(x, R1[2]), SHA2_SHFR(x, R1[3]))

\* The kernel and sha256Export rotate to the left; 25 is 32 - 7, and so on.
Zrotr(x, y) == (x % 2 ^ (WordSize - y)) * 2 ^ y + x \div 2 ^ (WordSize - y)
left(x, n) == Zrotr(x, WordSize - n)
ZR25(n) == Xor3(left(n, R0[1]), left(n, R0[2]), SHA2_SHFR(n, R0[3]))
ZR15(n) == Xor3(left(n, R1[1]), left(n, R1[2]), SHA2_SHFR(n, R1[3]))
ZR26(n) == Xor3(left(n, S1[1]), left(n, S1[2]), left(n, S1[3]))
ZR30(n) == Xor3(left(n, S0[1]), left(n, S0[2]), left(n, S0[3]))
Ch(x, y, z) == z ^^ (x & (y ^^ z))
Ma(x, y, z) == (x & z) | (y & (x | z))

\* The bytes in the opposite order.
sha2_pack(x) ==
    (x % Byte) * Byte ^ 3 + ((x \div Byte) % Byte) * Byte ^ 2
        + ((x \div Byte ^ 2) % Byte) * Byte + x \div Byte ^ 3

\* Four bytes of a sequence, from position p + 1, as a word with the first byte on top.
SHA2_PACK32(bytes, p) ==
    ((bytes[p + 1] * Byte + bytes[p + 2]) * Byte + bytes[p + 3]) * Byte + bytes[p + 4]

\* The same bytes read by the processor, lowest byte first.
loaded(bytes, p) == sha2_pack(SHA2_PACK32(bytes, p))

SHA2_UNPACK32(x) ==
    <<x \div Byte ^ 3, (x \div Byte ^ 2) % Byte, (x \div Byte) % Byte, x % Byte>>

blockAt(bytes, p) == [j \in 1 .. 16 |-> SHA2_PACK32(bytes, p + 4 * (j - 1))]

\* The eight words of a round, moved on by one, with a new first and fifth.
rotated(v, a, e) ==
    [v EXCEPT ![1] = a % WordLimit, ![2] = v[1], ![3] = v[2], ![4] = v[3],
              ![5] = e % WordLimit, ![6] = v[5], ![7] = v[6], ![8] = v[7]]

addState(s, t) == [j \in 1 .. 8 |-> (s[j] + t[j]) % WordLimit]

-----------------------------------------------------------------------------
(* class SHA_256                                                           *)

\* w[0] to w[Rounds - 1] of transform, at positions one higher.
schedule(block) ==
    LET w[j \in 15 .. Rounds - 1] ==
            IF j = 15
            THEN block
            ELSE LET v == w[j - 1]
                 IN  Append(v, (SHA256_F4(v[j - 1]) + v[j - 6] + SHA256_F3(v[j - 14])
                                  + v[j - 15]) % WordLimit)
    IN  w[Rounds - 1]

transform(h, block) ==
    LET w == schedule(block)
        wv[j \in 0 .. Rounds] ==
            IF j = 0
            THEN h
            ELSE LET v == wv[j - 1]
                     t1 == v[8] + SHA256_F2(v[5]) + SHA2_CH(v[5], v[6], v[7])
                             + sha256_k[j - 1] + w[j]
                     t2 == SHA256_F1(v[1]) + SHA2_MAJ(v[1], v[2], v[3])
                 IN  rotated(v, t1 + t2, v[4] + t1)
    IN  addState(h, wv[Rounds])

\* transform of several blocks of a message.
transformBlocks(h, bytes, n) ==
    LET t[i \in 0 .. n] == IF i = 0 THEN h ELSE transform(t[i - 1], blockAt(bytes, 64 * (i - 1)))
    IN  t[n]

init == [m_h |-> h_init, m_len |-> 0, m_tot_len |-> 0, m_block |-> [i \in 1 .. 128 |-> 0]]

overwrite(buffer, from, bytes) ==
    [i \in DOMAIN buffer |->
        IF i - from \in 1 .. Len(bytes) THEN bytes[i - from] ELSE buffer[i]]

update(ctx, message) ==
    LET len == Len(message)
        tmp_len == 64 - ctx.m_len
        rem_len == IF len < tmp_len THEN len ELSE tmp_len
        filled == overwrite(ctx.m_block, ctx.m_len, SubSeq(message, 1, rem_len))
        new_len == len - rem_len
        block_nb == new_len \div 64
        shifted_message == SubSeq(message, rem_len + 1, len)
    IN  IF ctx.m_len + len < 64
        THEN [ctx EXCEPT !.m_block = filled, !.m_len = @ + len]
        ELSE [m_h |-> transformBlocks(transform(ctx.m_h, blockAt(filled, 0)),
                                      shifted_message, block_nb),
              m_block |-> overwrite(filled, 0,
                                    SubSeq(shifted_message, 64 * block_nb + 1, new_len)),
              m_len |-> new_len % 64,
              m_tot_len |-> ctx.m_tot_len + (block_nb + 1) * 64]

final(ctx) ==
    LET block_nb == IF 64 - 9 < ctx.m_len % 64 THEN 2 ELSE 1
        len_b == (ctx.m_tot_len + ctx.m_len) * 8
        pm_len == block_nb * 64
        zeroed == overwrite(ctx.m_block, ctx.m_len, [i \in 1 .. pm_len - ctx.m_len |-> 0])
        marked == overwrite(zeroed, ctx.m_len, <<Byte \div 2>>)
        padded == overwrite(marked, pm_len - 4, SHA2_UNPACK32(len_b % WordLimit))
        m_h == transformBlocks(ctx.m_h, padded, block_nb)
    IN  [i \in 1 .. 32 |-> SHA2_UNPACK32(m_h[(i + 3) \div 4])[((i - 1) % 4) + 1]]

-----------------------------------------------------------------------------
(* The kernel and what the host calculates ahead.                          *)

expand(msg) ==
    LET w[i \in 15 .. Rounds - 1] ==
            IF i = 15
            THEN msg
            ELSE LET v == w[i - 1]
                 IN  Append(v, (v[i - 15] + ZR25(v[i - 14]) + v[i - 6] + ZR15(v[i - 1]))
                                  % WordLimit)
    IN  w[Rounds - 1]

\* ROUND(num): what temp1, temp2 and the new a and e are is given by the caller.
temp1(v, w, num) == (v[8] + ZR26(v[5]) + Ch(v[5], v[6], v[7]) + sha256_k[num] + w[num + 1])
                        % WordLimit
temp2(v) == (ZR30(v[1]) + Ma(v[1], v[2], v[3])) % WordLimit

\* The states before each round, up to the one behind the last.
plainRounds(msg, s, n) ==
    LET w == expand(msg)
        v[num \in 0 .. n] ==
            IF num = 0
            THEN s
            ELSE LET u == v[num - 1]
                     t1 == temp1(u, w, num - 1)
                 IN  rotated(u, t1 + temp2(u), u[4] + t1)
    IN  v[n]

sha256(msg, s) == addState(s, plainRounds(msg, s, Rounds))

\* new1Data[num], new2Data[num] and temp2Data[num] of sha256Export.
sha256Export(msg, s) ==
    [new1 |-> [num \in 0 .. 3 |-> plainRounds(msg, s, num + 1)[1]],
     new2 |-> [num \in 0 .. 2 |-> plainRounds(msg, s, num + 1)[5]],
     temp2 |-> (3 :> temp2(plainRounds(msg, s, 3)))]

\* The round of the nonce is taken from the host, too.
Tmp1SizeFour == 4                                                  \* mutated form

\* For which rounds the kernel takes the results from the host.
new1Size == 3
new2Size == 3
tmp2Size == 4

sha256UsePrecalc(msg, s, data) ==
    LET w == expand(msg)
        v[num \in 0 .. Rounds] ==
            IF num = 0
            THEN s
            ELSE LET u == v[num - 1]
                     t1 == temp1(u, w, num - 1)
                 IN  rotated(u,
                             IF num - 1 < new1Size THEN data.new1[num - 1]
                             ELSE t1 + (IF num - 1 < tmp2Size THEN data.temp2[num - 1]
                                        ELSE temp2(u)),
                             IF num - 1 < new2Size THEN data.new2[num - 1] ELSE u[4] + t1)
    IN  addState(s, v[Rounds])

\* The words 16 to 31 of a header: what is left of it, one bit, zeros and the length.
lastBlock(merkle, time, bits, word3) ==
    <<merkle, time, bits, word3, sha2_pack(Byte \div 2)>>
        \o [i \in 1 .. 10 |-> 0] \o <<640 % WordLimit>>

simplePrecalcSHA256(header, junk) ==
    LET midstate == transform(h_init, blockAt(header, 0))
        msg_merkle == sha2_pack(loaded(header, 64))
        msg_time == sha2_pack(loaded(header, 68))
        msg_bits == sha2_pack(loaded(header, 72))
    IN  [midstate |-> midstate, merkle |-> msg_merkle, time |-> msg_time, bits |-> msg_bits,
         data |-> sha256Export(lastBlock(msg_merkle, msg_time, msg_bits, junk), midstate)]

\* The hashing of bhashmodUsePrecalc for the work item id: the words of the hash.
deviceHashOf(a, id) ==
    LET first == sha256UsePrecalc(lastBlock(a.merkle, a.time, a.bits, sha2_pack(id)),
                                  a.midstate, a.data)
        msg == first \o <<sha2_pack(Byte \div 2)>> \o [i \in 1 .. 6 |-> 0]
                   \o <<256 % WordLimit>>
        second == sha256(msg, h_init)
    IN  [i \in 1 .. 8 |-> sha2_pack(second[i])]

\* The nonce as the host stores it in the header.
stored(id) == SHA2_UNPACK32(sha2_pack(id))

\* xpmclient.cpp, "hashmod fetch": the hash as the words of a uint256.
hostHashOf(header, id) ==
    LET once == final(update(init, header \o stored(id)))
        twice == final(update(init, once))
    IN  [i \in 1 .. 8 |-> loaded(twice, 4 * (i - 1))]

-----------------------------------------------------------------------------
(* class CSHA256                                                           *)

\* Round j of Transform: the variables keep their places and change their parts, and the
\* words of the block are overwritten one after the other.
Transform(s, chunk, from) ==
    LET role(j, r) == ((r - j) % 8) + 1
        run[j \in 0 .. Rounds] ==
            IF j = 0
            THEN [r |-> s, w |-> blockAt(chunk, from)]
            ELSE LET i == j - 1
                     before == run[j - 1]
                     v == before.r
                     w == before.w
                     word(k) == w[((i + k) % 16) + 1]
                     wi == IF i < 16
                           THEN w[1 + i]
                           ELSE (word(0) + SHA256_F4(word(14)) + word(9)
                                   + SHA256_F3(word(1))) % WordLimit
                     at(r) == v[role(i, r)]
                     t1 == at(7) + SHA256_F2(at(4)) + Ch(at(4), at(5), at(6))
                             + sha256_k[i] + wi
                     t2 == SHA256_F1(at(0)) + Ma(at(0), at(2), at(1))
                 IN  [r |-> [v EXCEPT ![role(i, 3)] = (@ + t1) % WordLimit,
                                      ![role(i, 7)] = (t1 + t2) % WordLimit],
                      w |-> [w EXCEPT ![(i % 16) + 1] = wi]]
    IN  addState(s, run[Rounds].r)

CSHA256 == [s |-> h_init, bytes |-> 0, buf |-> [i \in 1 .. 64 |-> 0]]

Write(ctx, data) ==
    LET len == Len(data)
        bufsize == ctx.bytes % 64
        fills == bufsize # 0 /\ bufsize + len >= 64
        used == IF fills THEN 64 - bufsize ELSE 0
        s1 == IF fills
              THEN Transform(ctx.s, overwrite(ctx.buf, bufsize, SubSeq(data, 1, used)), 0)
              ELSE ctx.s
        chunks == (len - used) \div 64
        through[i \in 0 .. chunks] ==
            IF i = 0 THEN s1 ELSE Transform(through[i - 1], data, used + 64 * (i - 1))
        rest == SubSeq(data, used + 64 * chunks + 1, len)
        kept == IF fills THEN overwrite(ctx.buf, bufsize, SubSeq(data, 1, used)) ELSE ctx.buf
    IN  \* A rest after whole chunks comes with an empty buffer.
        [s |-> through[chunks], bytes |-> ctx.bytes + len,
         buf |-> overwrite(kept, IF fills THEN 0 ELSE bufsize, rest)]

Finalize(ctx) ==
    LET sizedesc == SHA2_UNPACK32(0) \o SHA2_UNPACK32((ctx.bytes * 8) % WordLimit)
        pad == <<Byte \div 2>> \o [i \in 1 .. 63 |-> 0]
        padded == Write(ctx, SubSeq(pad, 1, 1 + ((119 - (ctx.bytes % 64)) % 64)))
        s == Write(padded, sizedesc).s
    IN  [i \in 1 .. 32 |-> SHA2_UNPACK32(s[(i + 3) \div 4])[((i - 1) % 4) + 1]]

-----------------------------------------------------------------------------

Init ==
    /\ sha256Pc = "start"
    /\ blockheader \in Headers
    /\ args = <<>> /\ nonce = 0 /\ deviceHash = <<>> /\ hostHash = <<>>
    /\ pieces = <<>> /\ sha = init /\ csha = CSHA256 /\ digests = <<>>

\* New work, or a step of the time: the arguments of the kernel are set again.
Precalc ==
    /\ sha256Pc = "start"
    /\ \E junk \in Junk : args' = simplePrecalcSHA256(blockheader, junk)
    /\ sha256Pc' = "ready"
    /\ UNCHANGED <<blockheader, nonce, deviceHash, hostHash, pieces, sha, csha, digests>>

\* The kernel finds a nonce, and the host hashes the header again.
HashOnBoth ==
    /\ sha256Pc = "ready"
    /\ \E id \in Nonces :
          /\ nonce' = id
          /\ deviceHash' = deviceHashOf(args, id)
          /\ hostHash' = hostHashOf(blockheader, id)
    /\ sha256Pc' = "hashed"
    /\ UNCHANGED <<blockheader, args, pieces, sha, csha, digests>>

\* The message goes to both classes in pieces.
WritePiece ==
    /\ sha256Pc = "start" \/ sha256Pc = "writing"
    /\ Len(pieces) < MaxPieces
    /\ \E len \in PieceLengths :
          LET done == csha.bytes
              piece == SubSeq(MessageBytes, done + 1, done + len)
          IN  /\ done + len <= Len(MessageBytes)
              /\ pieces' = Append(pieces, len)
              /\ sha' = update(sha, piece)
              /\ csha' = Write(csha, piece)
    /\ sha256Pc' = "writing"
    /\ UNCHANGED <<blockheader, args, nonce, deviceHash, hostHash, digests>>

FinishMessage ==
    /\ sha256Pc = "writing"
    /\ digests' = <<final(sha), Finalize(csha)>>
    /\ sha256Pc' = "digested"
    /\ UNCHANGED <<blockheader, args, nonce, deviceHash, hostHash, pieces, sha, csha>>

Next == Precalc \/ HashOnBoth \/ WritePiece \/ FinishMessage

-----------------------------------------------------------------------------

TypeOK ==
    /\ sha256Pc \in {"start", "ready", "hashed", "writing", "digested"}
    /\ sha.m_len \in 0 .. 63
    /\ sha.m_tot_len + sha.m_len = csha.bytes
    /\ \A j \in 1 .. 8 : sha.m_h[j] \in 0 .. WordLimit - 1

\* The padded message: a bit, zeros, the length in bits in the last eight bytes.
paddedMessage(bytes) ==
    LET zeros == (119 - Len(bytes)) % 64
    IN  bytes \o <<Byte \div 2>> \o [i \in 1 .. zeros + 4 |-> 0]
            \o SHA2_UNPACK32((8 * Len(bytes)) % WordLimit)

\* The hash the kernel has found is the one the host calculates for the same nonce,
\* whatever the memory held that simplePrecalcSHA256 leaves uninitialised.
DeviceHashesAsHost == sha256Pc = "hashed" => deviceHash = hostHash

\* In whatever pieces a message comes, both classes come to the digest of the whole.
PiecesDoNotMatter ==
    sha256Pc = "digested" =>
        LET bytes == SubSeq(MessageBytes, 1, csha.bytes)
            padded == paddedMessage(bytes)
            s == transformBlocks(h_init, padded, Len(padded) \div 64)
        IN  \A k \in 1 .. 2 : \A i \in 1 .. 8 :
                SHA2_PACK32(digests[k], 4 * (i - 1)) = s[i]

=============================================================================
