--------------------------- MODULE EquihashLayout ---------------------------
(***************************************************************************)
(* How the Equihash kernels place trees and hashes in their two heaps of   *)
(* words: zcash/gpu/common.h and the helpers at the top of equihash.cl,    *)
(* with XINTREE, as the client builds them.                                *)
(***************************************************************************)
EXTENDS Integers

CONSTANTS
    WN, WK, RESTBITS,       \* 200, 9 and 4 in the client
    ByteBits, UnitBytes     \* 8 bits in a byte, 4 bytes in a hashunit

UnitBits == ByteBits * UnitBytes

DIGITBITS == WN \div (WK + 1)
PROOFSIZE == 2 ^ WK
NHASHES == 2 * 2 ^ DIGITBITS
BUCKBITS == DIGITBITS - RESTBITS
NBUCKETS == 2 ^ BUCKBITS
SLOTBITS == RESTBITS + 1 + 1
NSLOTS == 2 ^ SLOTBITS

DivideUp(a, b) == (a + b - 1) \div b

\* sizeof(slot0) and sizeof(slot1) in words: attr and the hash of the first round that
\* uses the heap.
HASHWORDS0 == DivideUp(WN - DIGITBITS + RESTBITS, UnitBits)
HASHWORDS1 == DivideUp(WN - 2 * DIGITBITS + RESTBITS, UnitBits)
slotWords(heap) == 1 + (IF heap = 0 THEN HASHWORDS0 ELSE HASHWORDS1)

\* The hash that a slot of round r keeps, without the digits up to r.
hashbits(r) == WN - (r + 1) * DIGITBITS
hashsize(r) == DivideUp(hashbits(r), ByteBits)
hashwords(bytes) == DivideUp(bytes, UnitBytes)

\* htlayout_create_2, where r - 1 is the round that wrote what r reads.
nexthashunits(r) == hashwords(hashsize(r))
prevhashunits(r) == hashwords(hashsize(r - 1))
prevbo(r) == prevhashunits(r) * UnitBytes - hashsize(r - 1)
dunits(r) == prevhashunits(r) - nexthashunits(r)

\* The bits of the first byte that are above the digit of round r.
skippedBits(r) == hashsize(r - 1) * ByteBits - hashbits(r - 1)

\* tree0_ptr and tree1_ptr: the slots of round r, each of which begins one word after
\* those that round r - 2 had in the same heap.
heapOf(r) == r % 2
treePtr(r) == r \div 2
slotAt(r, bucket, slot) == (bucket * NSLOTS + slot) * slotWords(heapOf(r)) + treePtr(r)

\* A tree: | xhash | slotid1 | slotid0 | bucketid |
tree_create4(bucketId, s0, s1, xhash) ==
    bucketId + s0 * 2 ^ BUCKBITS + s1 * 2 ^ (BUCKBITS + SLOTBITS)
        + xhash * 2 ^ (2 * SLOTBITS + BUCKBITS)
tree_create3(bucketId, s0, s1) == tree_create4(bucketId, s0, s1, 0)

tree_bucket(t) == t % NBUCKETS
tree_slotid0(t) == (t \div 2 ^ BUCKBITS) % NSLOTS
tree_slotid1(t) == (t \div 2 ^ (BUCKBITS + SLOTBITS)) % NSLOTS
tree_xhash(t) == t \div 2 ^ (2 * SLOTBITS + BUCKBITS)

\* The leaf of an index has it in bucketid and slotid0; slotid1 is what the
\* variable happened to have.
tree_getindex(t) == tree_bucket(t) * NSLOTS + tree_slotid0(t)
tree_setindex(idx, slotid1) == tree_create3(idx \div NSLOTS, idx % NSLOTS, slotid1)
tree_setxhash(t, xhash) == t + xhash * 2 ^ (2 * SLOTBITS + BUCKBITS)

\* A slot of round r is no longer than the slots are apart, and leaves what earlier
\* rounds wrote into attr in place.
FitsInPlace ==
    \A r \in 0 .. WK - 1 : treePtr(r) + 1 + nexthashunits(r) <= slotWords(heapOf(r))
=============================================================================
