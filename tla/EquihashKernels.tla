-------------------------- MODULE EquihashKernels --------------------------
(***************************************************************************)
(* The Equihash solver of the GPU miner, zcash/gpu/equihash.cl: digitH     *)
(* sorts the hashes of all indices into buckets, the kernels of the rounds *)
(* 1 to WK - 1 make trees of two that collide in a digit, digitK those of  *)
(* the last round, which are the solutions.  Even rounds write heap 0, odd *)
(* rounds heap 1; each leaves the trees of all earlier rounds in place     *)
(* and writes over their hashes.                                           *)
(*                                                                         *)
(* The work items of a kernel go through the blocks or buckets id, id +    *)
(* Items, ...; one step is one slot that is claimed with atomic_inc and    *)
(* written, or one candidate.  In kernel `wide` the items run in any       *)
(* order, in the others one after another: a bound of the runs, as all     *)
(* orders in all kernels are out of reach.                                 *)
(***************************************************************************)
EXTENDS EquihashLayout, Sequences, FiniteSets, SequencesExt, Bitwise, TLC

CONSTANTS
    HASHESPERBLAKE,
    XFULL,          \* 16: slots of a bucket that are compared, per xhash
    MAXSOLS,        \* 8: solutions that fit the buffer
    Items,          \* get_global_size(0)
    Cases,          \* hashes of some headers, as functions of the index, and which kernel
                    \* is wide: [hashes, wide]
    OldWord(_, _)   \* the words of the heaps that nobody has written yet

NBLOCKS == DivideUp(NHASHES, HASHESPERBLAKE)

VARIABLES
    blake2bState,   \* the hashes of this header
    wide,
    round,          \* the kernel: 0 is digitH, WK is digitK, after which all is done
    heap,           \* heap0 and heap1: the words that have been written
    nslots,         \* the counters of the buckets, those of even and of odd rounds
    next,           \* per item: the bucketid or block of its loop
    todo,           \* per item: what is left of the last block or bucket it has begun
    sols, nsols,
    left            \* ghost: a slot was left out, for want of room

equiVars == <<blake2bState, wide, round, heap, nslots, next, todo, sols, nsols, left>>

-----------------------------------------------------------------------------
(* Slots.                                                                  *)

Word(h, at) == IF at \in DOMAIN heap[h] THEN heap[h][at] ELSE OldWord(h, at)

\* attr and hash[unit] of a slot that round r wrote.
attr(r, bucket, slot) == Word(heapOf(r), slotAt(r, bucket, slot))
hashUnit(r, bucket, slot, unit) == Word(heapOf(r), slotAt(r, bucket, slot) + 1 + unit)

\* The words from .. to of the XOR of two slots of the round before r, as one number.
XorUnits(r, bucket, s0, s1, from, to) ==
    FoldLeft(LAMBDA x, unit : x * 2 ^ UnitBits
                 + (hashUnit(r - 1, bucket, s0, unit) ^^ hashUnit(r - 1, bucket, s1, unit)),
             0, [k \in 1 .. to - from + 1 |-> from + k - 1])

\* The next digit of it: xorbucketid and xhash.
DigitOf(r, x) == (x % 2 ^ hashbits(r - 1)) \div 2 ^ hashbits(r)

htlayout_equal(r, bucket, s0, s1) ==
    LET last == prevhashunits(r) - 1
    IN  hashUnit(r - 1, bucket, s0, last) = hashUnit(r - 1, bucket, s1, last)

\* collisiondata: the slots before s1 with its xhash, none if it is not among the first.
collisions(r, bucket, s1) ==
    LET same == SelectSeq([k \in 1 .. s1 |-> k - 1],
                    LAMBDA s0 : tree_xhash(attr(r - 1, bucket, s0))
                                    = tree_xhash(attr(r - 1, bucket, s1)))
    IN  IF Len(same) >= XFULL THEN << >> ELSE same

\* The indices of a tree of round r, from the slots of all rounds before: of two
\* subtrees the one with the lower first index comes first.
RECURSIVE listindices(_, _)
listindices(r, t) ==
    LET child(slot) == attr(r - 1, tree_bucket(t), slot)
        of(slot) == IF r = 1 THEN <<tree_getindex(child(slot))>>
                    ELSE listindices(r - 1, child(slot))
        a == of(tree_slotid0(t))
        b == of(tree_slotid1(t))
    IN  IF a[1] > b[1] THEN b \o a ELSE a \o b

\* Of the indices seen in a bin only the last is remembered.
equi_probdupe(prf) ==
    \E j \in DOMAIN prf :
        LET sameBin == {i \in 1 .. j - 1 : prf[i] % PROOFSIZE = prf[j] % PROOFSIZE}
        IN  /\ sameBin # {}
            /\ prf[CHOOSE i \in sameBin : \A k \in sameBin : k <= i] = prf[j]

-----------------------------------------------------------------------------
(* The kernels.                                                            *)

EquiInit ==
    /\ \E c \in Cases : blake2bState = c.hashes /\ wide = c.wide
    /\ round = 0
    /\ heap = [h \in 0 .. 1 |-> << >>]
    /\ nslots = [h \in 0 .. 1 |-> [b \in 0 .. NBUCKETS - 1 |-> 0]]
    /\ next = [i \in 0 .. Items - 1 |-> i]
    /\ todo = [i \in 0 .. Items - 1 |-> << >>]
    /\ sols = << >> /\ nsols = 0 /\ left = FALSE

LastOfLoop == IF round = 0 THEN NBLOCKS - 1 ELSE NBUCKETS - 1
Finished(i) == todo[i] = << >> /\ next[i] > LastOfLoop

MayRun(i) ==
    /\ round <= WK /\ ~Finished(i)
    /\ round = wide \/ \A j \in 0 .. i - 1 : Finished(j)

\* digitH: the hashes of a block.
NextBlock(i) ==
    /\ round = 0 /\ MayRun(i) /\ todo[i] = << >>
    /\ todo' = [todo EXCEPT ![i] =
                    [k \in 1 .. HASHESPERBLAKE |-> <<next[i] * HASHESPERBLAKE + k - 1>>]]
    /\ next' = [next EXCEPT ![i] = @ + Items]
    /\ UNCHANGED <<blake2bState, wide, round, heap, nslots, sols, nsols, left>>

\* The slots in a bucket, whose counter is left zero for the round after this.
equi_getnslots(counters, bucket) ==
    IF nslots[counters][bucket] < NSLOTS THEN nslots[counters][bucket] ELSE NSLOTS
keepCounter(counters, bucket) == nslots                             \* mutated form
clearCounter(counters, bucket) == [nslots EXCEPT ![counters][bucket] = 0]

\* The other kernels: the pairs of slots of a bucket, in the order of the loops.
NextBucket(i) ==
    /\ round > 0 /\ MayRun(i) /\ todo[i] = << >>
    /\ LET counters == heapOf(round - 1)
           bsize == equi_getnslots(counters, next[i])
           pairsOf(s1) == [k \in DOMAIN collisions(round, next[i], s1) |->
                              <<next[i], collisions(round, next[i], s1)[k], s1>>]
       IN  /\ nslots' = clearCounter(counters, next[i])
           /\ todo' = [todo EXCEPT ![i] =
                           FoldLeft(LAMBDA acc, s1 : acc \o pairsOf(s1), << >>,
                                    [k \in 1 .. bsize |-> k - 1])]
           /\ left' = (left \/ \E s1 \in 0 .. bsize - 1 :
                                 Cardinality({s0 \in 0 .. s1 - 1 :
                                     tree_xhash(attr(round - 1, next[i], s0))
                                         = tree_xhash(attr(round - 1, next[i], s1))}) >= XFULL)
    /\ next' = [next EXCEPT ![i] = @ + Items]
    /\ UNCHANGED <<blake2bState, wide, round, heap, sols, nsols>>

\* atomic_inc on the counter of a bucket, and the slot is written unless there is none.
Claim(digit, tree, units) ==
    LET bucket == digit \div 2 ^ RESTBITS
        slot == nslots[heapOf(round)][bucket]
        at == slotAt(round, bucket, slot)
        written == [k \in at .. at + nexthashunits(round) |->
                        IF k = at THEN tree ELSE units[k - at - 1]]
    IN  /\ nslots' = [nslots EXCEPT ![heapOf(round)][bucket] = @ + 1]
        /\ IF slot >= NSLOTS THEN left' = TRUE /\ UNCHANGED heap
           ELSE /\ heap' = [heap EXCEPT ![heapOf(round)] = written @@ @]
                /\ UNCHANGED left

Done(i) == todo' = [todo EXCEPT ![i] = Tail(@)]

\* digitH, one hash: the leaf, whose slotid1 is never set, and the bytes of the hash after
\* nextbo.  Of the first word the bytes before nextbo stay what they are.
digitH(i) ==
    /\ round = 0 /\ MayRun(i) /\ todo[i] # << >>
    /\ LET idx == Head(todo[i])[1]
           digit == blake2bState[idx] \div 2 ^ hashbits(0)
           bucket == digit \div 2 ^ RESTBITS
           old == Word(0, slotAt(0, bucket, nslots[0][bucket]) + 1)
           bytes == blake2bState[idx] % 2 ^ (ByteBits * hashsize(0))
           stale == old - (old % 2 ^ (ByteBits * (UnitBytes - prevbo(1))))
           unit(u) == (bytes \div 2 ^ (UnitBits * (nexthashunits(0) - 1 - u))) % 2 ^ UnitBits
       IN  Claim(digit, tree_setxhash(tree_setindex(idx, old % NSLOTS), digit % 2 ^ RESTBITS),
                 [u \in 0 .. nexthashunits(0) - 1 |->
                     IF u = 0 THEN unit(u) + stale ELSE unit(u)])
    /\ Done(i)
    /\ UNCHANGED <<blake2bState, wide, round, next, sols, nsols>>

\* One pair of slots in round r: unless their last words are equal, the tree of both and
\* the words of the XOR that the next rounds need.
Collide(i) ==
    LET pair == Head(todo[i])
        bucket == pair[1]
        s0 == pair[2]
        s1 == pair[3]
        digit == DigitOf(round, XorUnits(round, bucket, s0, s1, 0, prevhashunits(round) - 1))
    IN  /\ IF htlayout_equal(round, bucket, s0, s1) THEN UNCHANGED <<heap, nslots, left>>
           ELSE Claim(digit, tree_create4(bucket, s0, s1, digit % 2 ^ RESTBITS),
                       [u \in 0 .. nexthashunits(round) - 1 |->
                           XorUnits(round, bucket, s0, s1, u + dunits(round), u + dunits(round))])
        /\ Done(i)
        /\ UNCHANGED <<blake2bState, wide, round, next, sols, nsols>>

\* Rounds that read heap 0 and write heap 1, and the other way round.
digitOdd(i) == round \in 1 .. WK - 1 /\ round % 2 = 1 /\ MayRun(i) /\ todo[i] # << >> /\ Collide(i)
digitEven(i) == round \in 1 .. WK - 1 /\ round % 2 = 0 /\ MayRun(i) /\ todo[i] # << >> /\ Collide(i)

\* The candidates of a solution: what is certainly a duplicate is left out.
equi_candidate(t) ==
    LET prf == listindices(WK, t)
    IN  IF equi_probdupe(prf) THEN UNCHANGED <<sols, nsols>>
        ELSE /\ nsols' = nsols + 1
             /\ sols' = IF nsols < MAXSOLS THEN Append(sols, prf) ELSE sols

digitK(i) ==
    /\ round = WK /\ MayRun(i) /\ todo[i] # << >>
    /\ LET pair == Head(todo[i])
       IN  IF htlayout_equal(WK, pair[1], pair[2], pair[3])
           THEN equi_candidate(tree_create3(pair[1], pair[2], pair[3]))
           ELSE UNCHANGED <<sols, nsols>>
    /\ Done(i)
    /\ UNCHANGED <<blake2bState, wide, round, heap, nslots, next, left>>

\* The command queue starts the kernel of the next round when that of this one has ended.
NextKernel ==
    /\ round <= WK /\ \A i \in 0 .. Items - 1 : Finished(i)
    /\ round' = round + 1
    /\ next' = [i \in 0 .. Items - 1 |-> i]
    /\ UNCHANGED <<blake2bState, wide, heap, nslots, todo, sols, nsols, left>>

EquiNext ==
    \/ \E i \in 0 .. Items - 1 :
          NextBlock(i) \/ NextBucket(i) \/ digitH(i) \/ digitOdd(i) \/ digitEven(i) \/ digitK(i)
    \/ NextKernel

EquiSpec == EquiInit /\ [][EquiNext]_equiVars
-----------------------------------------------------------------------------
(* The unrolled kernels, which the client runs with WN = 200: the slots    *)
(* that each of them reads and writes, the bits it skips before a digit,   *)
(* and the words of the XOR that it keeps.                                 *)

Real == INSTANCE EquihashLayout WITH WN <- 200, WK <- 9, RESTBITS <- 4, ByteBits <- 8,
                                     UnitBytes <- 4

digit_1 == [reads |-> <<0, 0>>, writes |-> <<1, 0>>, skips |-> 4, keeps |-> 1 .. 5]
digit_2 == [reads |-> <<1, 0>>, writes |-> <<0, 1>>, skips |-> 0, keeps |-> 0 .. 4]
digit_3 == [reads |-> <<0, 1>>, writes |-> <<1, 1>>, skips |-> 4, keeps |-> 1 .. 4]
digit_4 == [reads |-> <<1, 1>>, writes |-> <<0, 2>>, skips |-> 0, keeps |-> 0 .. 3]
digit_5 == [reads |-> <<0, 2>>, writes |-> <<1, 2>>, skips |-> 4, keeps |-> 1 .. 3]
digit_6 == [reads |-> <<1, 2>>, writes |-> <<0, 3>>, skips |-> 0, keeps |-> 1 .. 2]
digit_7 == [reads |-> <<0, 3>>, writes |-> <<1, 3>>, skips |-> 4, keeps |-> 0 .. 1]
digit_8 == [reads |-> <<1, 3>>, writes |-> <<0, 4>>, skips |-> 0, keeps |-> {1}]

\* The unrolled kernels do what digitOdd and digitEven do for their rounds, and the slots
\* of WN = 200 fit the space of those that they are written over.
UnrolledAsGeneric ==
    /\ \A r \in 1 .. 8 :
          <<digit_1, digit_2, digit_3, digit_4, digit_5, digit_6, digit_7, digit_8>>[r] =
              [reads |-> <<Real!heapOf(r - 1), Real!treePtr(r - 1)>>,
               writes |-> <<Real!heapOf(r), Real!treePtr(r)>>,
               skips |-> Real!skippedBits(r),
               keeps |-> Real!dunits(r) .. Real!prevhashunits(r) - 1]
    /\ Real!FitsInPlace

-----------------------------------------------------------------------------
(* Properties.                                                             *)

EquiTypeOK ==
    /\ round \in 0 .. WK + 1
    /\ \A h \in 0 .. 1 :
          /\ \A at \in DOMAIN heap[h] :
                at \in 0 .. NBUCKETS * NSLOTS * slotWords(h) - 1 /\ heap[h][at] \in Nat
          /\ nslots[h] \in [0 .. NBUCKETS - 1 -> Nat]
    /\ DOMAIN next = 0 .. Items - 1 /\ DOMAIN todo = 0 .. Items - 1
    /\ Len(sols) <= MAXSOLS /\ nsols >= Len(sols) /\ left \in BOOLEAN

XorOf(indices) == FoldLeft(LAMBDA x, idx : x ^^ blake2bState[idx], 0, indices)

\* When a round begins, each slot of the last one has trees from which the indices can be
\* found again, whose hashes have the XOR that the bucket, the xhash and the words of the
\* slot say, although the heaps are written over in place: digits of the rounds done
\* are zero, the next is the bucket and the xhash, and the words have the rest.
RowsRight ==
    round \in 1 .. WK /\ (\A i \in 0 .. Items - 1 : next[i] = i /\ todo[i] = << >>) =>
        \A bucket \in 0 .. NBUCKETS - 1 : \A slot \in 0 .. NSLOTS - 1 :
            LET r == round - 1
                t == attr(r, bucket, slot)
                indices == IF r = 0 THEN <<tree_getindex(t)>> ELSE listindices(r, t)
                x == XorOf(indices)
                kept == FoldLeft(LAMBDA acc, unit :
                                     acc * 2 ^ UnitBits + hashUnit(r, bucket, slot, unit),
                                 0, [k \in 1 .. nexthashunits(r) |-> k - 1])
            IN  slot < nslots[heapOf(r)][bucket] =>
                    /\ \A k \in DOMAIN indices : indices[k] < NHASHES
                    /\ x \div 2 ^ hashbits(r) = bucket * 2 ^ RESTBITS + tree_xhash(t)
                    /\ x % 2 ^ hashbits(r) = kept % 2 ^ hashbits(r)

\* The trees of 2^l distinct indices, in order, whose first l digits collide at each level.
\* Trees whose XOR ends with a word of zeros are left out below the root, since
\* htlayout_equal takes them for pairs of equal trees.
RECURSIVE ValidTrees(_)
ValidTrees(l) ==
    IF l = 0 THEN {<<idx>> : idx \in 0 .. NHASHES - 1}
    ELSE {a \o b : <<a, b>> \in
             {pair \in ValidTrees(l - 1) \X ValidTrees(l - 1) :
                LET x == XorOf(pair[1] \o pair[2])
                IN  /\ pair[1][1] < pair[2][1]
                    /\ ToSet(pair[1]) \cap ToSet(pair[2]) = {}
                    /\ IF l = WK THEN x = 0
                       ELSE x \div 2 ^ hashbits(l - 1) = 0 /\ x % 2 ^ UnitBits # 0}}

\* duped, which the host asks of each solution.
duped(prf) == Cardinality(ToSet(prf)) # Len(prf)

\* At the end the solutions that the host does not drop are valid and different, and
\* all there are, unless the buffer was full or slots had been left out.
SolutionsRight ==
    round = WK + 1 =>
        LET kept == SelectSeq(sols, LAMBDA prf : ~duped(prf))
        IN  /\ ToSet(kept) \subseteq ValidTrees(WK) /\ IsInjective(kept)
            /\ ~left /\ nsols <= MAXSOLS => ValidTrees(WK) \subseteq ToSet(kept)

EquihashRight == RowsRight /\ SolutionsRight /\ (round = 0 => UnrolledAsGeneric)
============================================================================
