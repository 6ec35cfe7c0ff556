---------------------------- MODULE IndexPacking ----------------------------
(***************************************************************************)
(* The indices of an Equihash solution, of bit_len bits each, packed into  *)
(* bytes without gaps for a share and unpacked again: GetIndices of the    *)
(* GPU miner, GetMinimalFromIndices and GetIndicesFromMinimal of the CPU   *)
(* solver, with CompressArray and ExpandArray, a byte at a time.           *)
(***************************************************************************)
EXTENDS Integers, Sequences

CONSTANTS
    bit_len,        \* 21
    PackByteBits,   \* 8
    IndexBytes,     \* sizeof(uint32_t)
    AccBits,        \* 32, the bits of acc_value
    Solutions       \* sequences of indices

VARIABLES
    indices,        \* the solution
    packing,        \* "swap", "compress", "expand", "read", "done"
    array,          \* four bytes for each index
    minimal,        \* the packed bytes
    acc_value, acc_bits, read

packVars == <<indices, packing, array, minimal, acc_value, acc_bits, read>>

Byte == 2 ^ PackByteBits
width == (bit_len + PackByteBits - 1) \div PackByteBits
byte_pad == IndexBytes - width
minLen == (bit_len * Len(indices)) \div PackByteBits

PackInit ==
    /\ indices \in Solutions
    /\ packing = "swap" /\ array = <<>> /\ minimal = <<>>
    /\ acc_value = 0 /\ acc_bits = 0 /\ read = 0

\* Byte k of a number from its highest byte, of n.
ByteOf(x, k, n) == (x \div Byte ^ (n - k)) % Byte

\* EhIndexToArray, or the swap of the bytes in place: the highest byte is first.
Swap ==
    /\ packing = "swap"
    /\ array' = [k \in 1 .. IndexBytes * Len(indices) |->
                    ByteOf(indices[(k - 1) \div IndexBytes + 1], ((k - 1) % IndexBytes) + 1, IndexBytes)]
    /\ packing' = "compress"
    /\ UNCHANGED <<indices, minimal, acc_value, acc_bits, read>>

\* The next index of the array without the bytes of padding, and without the bits
\* above bit_len.
Element(j) ==
    LET value[x \in byte_pad .. IndexBytes] ==
            IF x = byte_pad THEN 0 ELSE value[x - 1] * Byte + array[j + x]
    IN  value[IndexBytes] % 2 ^ bit_len

\* One byte of CompressArray: when fewer bits are left than it takes, the next
\* index comes in behind them.
Compress ==
    /\ packing = "compress" /\ Len(minimal) < minLen
    /\ LET fetch == acc_bits < PackByteBits
           value == IF fetch THEN (acc_value * 2 ^ bit_len + Element(read)) % 2 ^ AccBits ELSE acc_value
           bits  == acc_bits + (IF fetch THEN bit_len ELSE 0) - PackByteBits
       IN  /\ minimal' = Append(minimal, (value \div 2 ^ bits) % Byte)
           /\ acc_value' = value /\ acc_bits' = bits
           /\ read' = IF fetch THEN read + IndexBytes ELSE read
    /\ UNCHANGED <<indices, packing, array>>

Packed ==
    /\ packing = "compress" /\ Len(minimal) = minLen
    /\ packing' = "expand"
    /\ acc_value' = 0 /\ acc_bits' = 0 /\ read' = 0 /\ array' = <<>>
    /\ UNCHANGED <<indices, minimal>>

\* One byte of ExpandArray: an index leaves as soon as its bits are there.
Expand ==
    /\ packing = "expand" /\ read < Len(minimal)
    /\ LET value == (acc_value * Byte + minimal[read + 1]) % 2 ^ AccBits
           bits  == acc_bits + PackByteBits
       IN  /\ IF bits >= bit_len
              THEN /\ array' = array \o [x \in 1 .. byte_pad |-> 0]
                                \o [k \in 1 .. width |-> ByteOf((value \div 2 ^ (bits - bit_len)) % 2 ^ bit_len, k, width)]
                   /\ acc_bits' = bits - bit_len
              ELSE array' = array /\ acc_bits' = bits
           /\ acc_value' = value
    /\ read' = read + 1
    /\ UNCHANGED <<indices, packing, minimal>>

Expanded ==
    /\ packing = "expand" /\ read = Len(minimal)
    /\ packing' = "done"
    /\ UNCHANGED <<indices, array, minimal, acc_value, acc_bits, read>>

PackNext == Swap \/ Compress \/ Packed \/ Expand \/ Expanded

PackSpec == PackInit /\ [][PackNext]_packVars

\* ArrayToEhIndex
IndexAt(k) ==
    LET value[x \in 0 .. IndexBytes] ==
            IF x = 0 THEN 0 ELSE value[x - 1] * Byte + array[IndexBytes * k + x]
    IN  value[IndexBytes]

PackTypeOK ==
    /\ packing \in {"swap", "compress", "expand", "done"}
    /\ \A k \in DOMAIN array : array[k] \in 0 .. Byte - 1
    /\ acc_value \in 0 .. 2 ^ AccBits - 1 /\ acc_bits \in 0 .. bit_len + PackByteBits - 1

\* Bit b of the indices, of all of them one after the other from the highest bit.
BitOfIndices(b) == (indices[b \div bit_len + 1] \div 2 ^ (bit_len - 1 - (b % bit_len))) % 2

\* The bytes of a share are the bits of the indices without a gap, and who unpacks
\* them has the indices again; nothing is read behind the array although acc_value
\* is shifted over its end.
IndicesSurvive ==
    /\ \A k \in DOMAIN minimal : \A b \in 0 .. PackByteBits - 1 :
          (minimal[k] \div 2 ^ (PackByteBits - 1 - b)) % 2 = BitOfIndices((k - 1) * PackByteBits + b)
    /\ packing = "compress" => read <= Len(array)
    /\ packing = "done" =>
          /\ Len(array) = IndexBytes * Len(indices)
          /\ \A k \in 1 .. Len(indices) : IndexAt(k - 1) = indices[k]
=============================================================================
