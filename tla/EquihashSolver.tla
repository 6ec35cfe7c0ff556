--------------------------- MODULE EquihashSolver ---------------------------
(***************************************************************************)
(* The Equihash solver of the CPU miner, zcash/equihash_original.cpp:      *)
(* BasicSolve, and OptimisedSolve, which first works with truncated        *)
(* indices and then recreates the full ones.                               *)
(*                                                                         *)
(* A row is a hash, here the sequence of its digits of CollisionBitLength  *)
(* bits (the code expands them to bytes, so that memcmp compares them),    *)
(* and the indices it was made from.  std::sort leaves open the order of   *)
(* rows that compare as equal; the model takes that of SortSeq.            *)
(***************************************************************************)
EXTENDS Integers, FiniteSets, SequencesExt, Bitwise, TLC

CONSTANTS
    Ks,                     \* the supported values of K, 3, 5 and 9
    CollisionBitLength,
    TruncatedBits,          \* 8: bits of a truncated index
    Tables                  \* GenerateHash for some headers, as functions of
                            \* the index to K + 1 digits or more

init_size == 2 ^ (CollisionBitLength + 1)
recreate_size == 2 ^ (CollisionBitLength + 1 - TruncatedBits)

VARIABLES
    K, table,       \* the parameters and the hash state of this call
    solver,         \* "Basic" or "Optimised"
    pc,
    round,          \* r of the rounds
    X, Xc,          \* the table of rows, and the rows that do not fit in it yet
    i, posFree,     \* rows of the table read, and rows written again
    partialSolns,   \* truncated indices of possible solutions
    leaf,           \* culling: the number of the index being recreated
    tree,           \* X of the culling: a list of rows or << >> per level
    ic, level, rti, \* the list being merged upward, r, and rti
    judged,         \* the solutions given to validBlock
    \* ghost
    sorted          \* the table as it was when the round began to collide

vars == <<K, table, solver, pc, round, X, Xc, i, posFree, partialSolns,
          leaf, tree, ic, level, rti, judged, sorted>>
culling == <<leaf, tree, ic, level, rti>>
fixed == <<K, table, solver>>

-----------------------------------------------------------------------------
(* Rows.                                                                   *)

MinOf(a, b) == IF a < b THEN a ELSE b

\* memcmp < 0
Less(s, t) == \E k \in DOMAIN s : s[k] < t[k] /\ \A l \in 1 .. k - 1 : s[l] = t[l]
SortRows(rows, l) ==
    SortSeq(rows, LAMBDA a, b : Less(SubSeq(a.hash, 1, l), SubSeq(b.hash, 1, l)))
HasCollision(a, b, l) == SubSeq(a.hash, 1, l) = SubSeq(b.hash, 1, l)
IsZero(row) == \A d \in DOMAIN row.hash : row.hash[d] = 0

TruncateIndex(index) == index \div recreate_size
UntruncateDropsRest(t, r) == t * recreate_size                     \* mutated form
UntruncateIndex(t, r) == t * recreate_size + r

Row(index) == [hash |-> SubSeq(table[index], 1, K + 1), indices |-> <<index>>]
TruncatedRow(index) == [Row(index) EXCEPT !.indices = <<TruncateIndex(index)>>]

IndicesBefore(a, b) == Less(a.indices, b.indices)
Combine(a, b, trim) ==
    [hash |-> [d \in 1 .. Len(a.hash) - trim |-> a.hash[d + trim] ^^ b.hash[d + trim]],
     indices |-> IF IndicesBefore(a, b) THEN a.indices \o b.indices
                 ELSE b.indices \o a.indices]

DistinctIndices(a, b) == ToSet(a.indices) \cap ToSet(b.indices) = {}
IsValidBranch(a, t) == TruncateIndex(a.indices[1]) = t

\* Every index can be paired with an equal one.
IsProbablyDuplicate(indices) ==
    \A x \in ToSet(indices) : Cardinality({k \in DOMAIN indices : indices[k] = x}) % 2 = 0

-----------------------------------------------------------------------------
(* One group of a sorted table: the rows after row i that collide with     *)
(* row i + 1, and the tuples made of them.                                 *)

\* j: the rows of the group that begins after row i.
GroupSize(rows, at, l) ==
    CHOOSE j \in 1 .. Len(rows) - at :
        /\ \A k \in 2 .. j : HasCollision(rows[at + 1], rows[at + k], l)
        /\ at + j = Len(rows) \/ ~HasCollision(rows[at + 1], rows[at + j + 1], l)

\* The pairs l < m of a group, in the order of the loops.
Pairs(j) ==
    FoldLeft(LAMBDA acc, l : acc \o [m \in 1 .. j - l |-> <<l, l + m>>],
             << >>, [l \in 1 .. j |-> l])

\* The truncated solver cannot tell whether indices are distinct; it drops rows that
\* are zero and look like a pair of equal trees.
Keeps(a, b) ==
    IF solver = "Basic" THEN DistinctIndices(a, b)
    ELSE LET xi == Combine(a, b, 1) IN ~(IsZero(xi) /\ IsProbablyDuplicate(xi.indices))

NewTuples(rows, at, j) ==
    LET kept == SelectSeq(Pairs(j), LAMBDA p : Keeps(rows[at + p[1]], rows[at + p[2]]))
    IN  [k \in DOMAIN kept |-> Combine(rows[at + kept[k][1]], rows[at + kept[k][2]], 1)]

\* 2d and 2e: tuples go back into the rows up to limit that have been read, from
\* the end of Xc.
StoreInPlace(rows, free, tuples, limit) ==
    LET count == MinOf(limit - free, Len(tuples))
    IN  [X |-> [k \in DOMAIN rows |->
                  IF k \in free + 1 .. free + count THEN tuples[Len(tuples) + 1 - (k - free)]
                  ELSE rows[k]],
         posFree |-> free + count,
         Xc |-> SubSeq(tuples, 1, Len(tuples) - count)]

FinishedDropsRest(stored) == SubSeq(stored.X, 1, stored.posFree)   \* mutated form

\* 2f and 2g: what does not fit is appended, rows not written again are removed.
Finished(stored) ==
    IF stored.Xc # << >> THEN stored.X \o stored.Xc ELSE SubSeq(stored.X, 1, stored.posFree)

\* One turn of the loop over the groups: j rows are read, their tuples stored.
AfterGroup(s, j, tuples) ==
    StoreInPlace(s.X, s.posFree, s.Xc \o tuples, s.i + j) @@ [i |-> s.i + j]
AllGroupsRead(s) == s.i >= Len(s.X) - 1
AfterLastGroup(s) == Finished(StoreInPlace(s.X, s.posFree, s.Xc, Len(s.X)))

\* The pairs that are branches of the two truncated indices, in that order.
BranchTuples(rows, at, j, lt, rt) ==
    LET branch(a, b) ==
          IF ~DistinctIndices(a, b) THEN << >>
          ELSE IF IsValidBranch(a, lt) /\ IsValidBranch(b, rt) THEN <<Combine(a, b, 1)>>
          ELSE IF IsValidBranch(b, lt) /\ IsValidBranch(a, rt) THEN <<Combine(b, a, 1)>>
          ELSE << >>
    IN  FoldLeft(LAMBDA acc, p : acc \o branch(rows[at + p[1]], rows[at + p[2]]),
                 << >>, Pairs(j))

RECURSIVE CollideFrom(_, _, _)
CollideFrom(s, lt, rt) ==
    IF AllGroupsRead(s) THEN AfterLastGroup(s)
    ELSE LET j == GroupSize(s.X, s.i, 1)
         IN  CollideFrom(AfterGroup(s, j, BranchTuples(s.X, s.i, j, lt, rt)), lt, rt)
CollideBranches(rows, lt, rt) ==
    CollideFrom([X |-> rows, Xc |-> << >>, i |-> 0, posFree |-> 0], lt, rt)

-----------------------------------------------------------------------------
(* The rounds, for full and for truncated indices.                         *)

Init ==
    /\ K \in Ks /\ table \in Tables /\ solver \in {"Basic", "Optimised"}
    /\ pc = "list" /\ round = 1
    /\ X = << >> /\ Xc = << >> /\ i = 0 /\ posFree = 0
    /\ partialSolns = << >>
    /\ leaf = 0 /\ tree = << >> /\ ic = << >> /\ level = 0 /\ rti = 0
    /\ judged = {} /\ sorted = << >>

NextPhaseAnyway(rows, r) ==                                        \* mutated form
    IF r < K /\ rows # << >> THEN "sort" ELSE "final sort"

\* What follows when the table is rows and the next round is r.
NextPhase(rows, r) ==
    IF r < K /\ rows # << >> THEN "sort"
    ELSE IF Len(rows) > 1 THEN "final sort"
    ELSE "end"

FirstList ==
    /\ pc = "list"
    /\ X' = [k \in 1 .. init_size |->
               IF solver = "Basic" THEN Row(k - 1) ELSE TruncatedRow(k - 1)]
    /\ pc' = NextPhase(X', round)
    /\ UNCHANGED <<fixed, round, Xc, i, posFree, partialSolns, culling, judged, sorted>>

SortList ==
    /\ pc = "sort"
    /\ X' = SortRows(X, 1) /\ sorted' = X'
    /\ Xc' = << >> /\ i' = 0 /\ posFree' = 0
    /\ pc' = "collide"
    /\ UNCHANGED <<fixed, round, partialSolns, culling, judged>>

Groups == [X |-> X, Xc |-> Xc, i |-> i, posFree |-> posFree]

CollideGroup ==
    /\ pc = "collide" /\ ~AllGroupsRead(Groups)
    /\ LET j == GroupSize(X, i, 1)
           next == AfterGroup(Groups, j, NewTuples(X, i, j))
       IN  X' = next.X /\ Xc' = next.Xc /\ i' = next.i /\ posFree' = next.posFree
    /\ UNCHANGED <<fixed, pc, round, partialSolns, culling, judged, sorted>>

EndRound ==
    /\ pc = "collide" /\ AllGroupsRead(Groups)
    /\ X' = AfterLastGroup(Groups)
    /\ round' = round + 1
    /\ pc' = NextPhase(X', round')
    /\ UNCHANGED <<fixed, Xc, i, posFree, partialSolns, culling, judged, sorted>>

\* The last two digits have to collide.
FinalSort ==
    /\ pc = "final sort"
    /\ X' = SortRows(X, Len(X[1].hash))
    /\ i' = 0 /\ pc' = "final"
    /\ UNCHANGED <<fixed, round, Xc, posFree, partialSolns, culling, judged, sorted>>

\* validBlock is asked for one solution after the other, until it accepts one.
Judge(solns, rejected) ==
    \/ /\ judged' = judged \cup ToSet(solns)
       /\ pc' = rejected
    \/ \E k \in DOMAIN solns :
          /\ judged' = judged \cup ToSet(SubSeq(solns, 1, k))
          /\ pc' = "found"

FinalGroup ==
    /\ pc = "final" /\ ~AllGroupsRead(Groups)
    /\ LET j == GroupSize(X, i, Len(X[1].hash))
           pair(p) == Combine(X[i + p[1]], X[i + p[2]], 0).indices
           distinct == SelectSeq(Pairs(j), LAMBDA p : DistinctIndices(X[i + p[1]], X[i + p[2]]))
           likely == SelectSeq(Pairs(j), LAMBDA p : ~IsProbablyDuplicate(pair(p)))
       IN  /\ i' = i + j
           /\ IF solver = "Basic"
              THEN /\ Judge([k \in DOMAIN distinct |-> pair(distinct[k])], "final")
                   /\ UNCHANGED partialSolns
              ELSE /\ partialSolns' = partialSolns \o [k \in DOMAIN likely |-> pair(likely[k])]
                   /\ UNCHANGED <<judged, pc>>
    /\ UNCHANGED <<fixed, round, X, Xc, posFree, culling, sorted>>

EndFinal ==
    /\ pc = "final" /\ AllGroupsRead(Groups)
    /\ X' = << >>
    /\ pc' = IF partialSolns = << >> THEN "end" ELSE "leaf"
    /\ UNCHANGED <<fixed, round, Xc, i, posFree, partialSolns, culling, judged, sorted>>

-----------------------------------------------------------------------------
(* Culling: from each partial solution its leaves are made again, with all *)
(* indices that truncate to the same value, and the lists are merged as    *)
(* soon as a subtree is complete.  An empty list in tree is boost::none.   *)

NextPartial ==
    /\ partialSolns' = Tail(partialSolns)
    /\ pc' = IF Len(partialSolns) = 1 THEN "end" ELSE "leaf"
    /\ leaf' = 0 /\ tree' = << >> /\ ic' = << >> /\ level' = 0 /\ rti' = 0

Leaf ==
    /\ pc = "leaf"
    /\ ic' = [k \in 1 .. recreate_size |->
                Row(UntruncateIndex(partialSolns[1][leaf + 1], k - 1))]
    /\ level' = 0 /\ rti' = leaf
    /\ pc' = "merge"
    /\ UNCHANGED <<fixed, round, X, Xc, i, posFree, partialSolns, leaf, tree, judged, sorted>>

Complete == level < Len(tree) /\ tree[level + 1] # << >>

Merge ==
    /\ pc = "merge" /\ Complete
    /\ LET lti == rti - 2 ^ level
           list == SortRows(ic \o tree[level + 1], Len(ic[1].hash))
           merged == CollideBranches(list, partialSolns[1][lti + 1], partialSolns[1][rti + 1])
       IN  IF merged = << >> THEN NextPartial
           ELSE /\ ic' = merged
                /\ tree' = [tree EXCEPT ![level + 1] = << >>]
                /\ level' = level + 1 /\ rti' = lti
                /\ UNCHANGED <<partialSolns, pc, leaf>>
    /\ UNCHANGED <<fixed, round, X, Xc, i, posFree, judged, sorted>>

\* The other half of the subtree is not there yet.
Place ==
    /\ pc = "merge" /\ ~Complete
    /\ tree' = IF level < Len(tree) THEN [tree EXCEPT ![level + 1] = ic] ELSE Append(tree, ic)
    /\ leaf' = leaf + 1
    /\ pc' = IF leaf' = 2 ^ K THEN "top" ELSE "leaf"
    /\ UNCHANGED <<fixed, round, X, Xc, i, posFree, partialSolns, ic, level, rti,
                   judged, sorted>>

\* The set of solutions is ordered as the compressed indices are; a solution that
\* is there twice is judged once.
Top ==
    /\ pc = "top"
    /\ LET solns == SortSeq([k \in DOMAIN tree[K + 1] |-> tree[K + 1][k].indices], Less)
       IN  \/ /\ judged' = judged \cup ToSet(solns)
              /\ NextPartial
           \/ \E k \in DOMAIN solns :
                 /\ judged' = judged \cup ToSet(SubSeq(solns, 1, k))
                 /\ pc' = "found"
                 /\ UNCHANGED <<partialSolns, culling>>
    /\ UNCHANGED <<fixed, round, X, Xc, i, posFree, sorted>>

\* A newer work: the next test of the flag throws.
Cancelled ==
    /\ pc \notin {"list", "end", "found", "cancelled"}
    /\ pc' = "cancelled"
    /\ UNCHANGED <<fixed, round, X, Xc, i, posFree, partialSolns, culling, judged, sorted>>

Next ==
    \/ FirstList \/ SortList \/ CollideGroup \/ EndRound
    \/ FinalSort \/ FinalGroup \/ EndFinal
    \/ Leaf \/ Merge \/ Place \/ Top
    \/ Cancelled

Spec == Init /\ [][Next]_vars

-----------------------------------------------------------------------------
(* IsValidSolution, which the pool's side uses, on the tree of indices.    *)

\* The row of a tree of indices, or none where a test fails.
Invalid == [hash |-> << >>, indices |-> << >>]
IsValidSolution(indices) ==
    LET merged(a, b) ==
          IF a = Invalid \/ b = Invalid \/ ~HasCollision(a, b, 1)
             \/ IndicesBefore(b, a) \/ ~DistinctIndices(a, b)
          THEN Invalid ELSE Combine(a, b, 1)
        \* rows[l][k]: node k of level l
        rows[l \in 0 .. K] ==
          IF l = 0 THEN [k \in 1 .. 2 ^ K |-> Row(indices[k])]
          ELSE LET below == rows[l - 1]
               IN  [k \in 1 .. 2 ^ (K - l) |-> merged(below[2 * k - 1], below[2 * k])]
        root == rows[K][1]
    IN  root # Invalid /\ IsZero(root)

-----------------------------------------------------------------------------
(* What the solver is for, by definition: the trees of 2^(r-1) distinct    *)
(* indices whose halves collide at each level.                             *)

Trees[r \in 1 .. 4] ==
    IF r = 1 THEN {Row(index) : index \in 0 .. init_size - 1}
    ELSE LET below == Trees[r - 1]
             pairs == {p \in below \X below : /\ IndicesBefore(p[1], p[2])
                                             /\ HasCollision(p[1], p[2], 1)
                                             /\ ToSet(p[1].indices) \cap ToSet(p[2].indices) = {}}
         IN  {Combine(p[1], p[2], 1) : p \in pairs}

Solutions == {t.indices : t \in {t \in Trees[K + 1] : IsZero(t)}}

Digit == 0 .. 2 ^ CollisionBitLength - 1
IsRow(row) == row.hash \in Seq(Digit) /\ row.indices \in Seq(0 .. init_size - 1)

\* Rows have the shape of their round, and positions stay within the table: none
\* of the loops runs on an empty list, where size() - 1 would wrap.
TypeOK ==
    /\ pc \in {"list", "sort", "collide", "final sort", "final", "leaf", "merge", "top",
                "end", "found", "cancelled"}
    /\ round \in 1 .. K /\ i \in Nat /\ posFree \in Nat
    /\ \A k \in DOMAIN X : IsRow(X[k])
    /\ pc \in {"sort", "collide", "final sort", "final"} => X # << >>
    /\ pc = "collide" => i <= Len(X) /\ posFree <= i
    /\ pc \in {"leaf", "merge", "top"} => partialSolns # << >> /\ Len(tree) <= K + 1
    /\ pc = "merge" => ic # << >> /\ level <= Len(tree) /\ rti \in 0 .. leaf

\* Writing tuples over rows of the same table loses nothing: while a round collides
\* the rows not read yet are as they were sorted, and the rows written plus those
\* that wait are the tuples of all pairs of the rows read, each once.
NothingLostInPlace ==
    LET pairs == {p \in (1 .. i) \X (1 .. i) :
                     /\ p[1] < p[2]
                     /\ HasCollision(sorted[p[1]], sorted[p[2]], 1)
                     /\ Keeps(sorted[p[1]], sorted[p[2]])}
        kept == SubSeq(X, 1, posFree) \o Xc
    IN  pc = "collide" =>
          /\ SubSeq(X, i + 1, Len(X)) = SubSeq(sorted, i + 1, Len(sorted))
          /\ Len(kept) = Cardinality(pairs)
          /\ ToSet(kept) = {Combine(sorted[p[1]], sorted[p[2]], 1) : p \in pairs}

\* BasicSolve gives validBlock solutions only, and when it ends without a block it
\* has given it all of them.
BasicFindsAll ==
    solver = "Basic" => /\ judged \subseteq Solutions
                        /\ \A s \in judged : IsValidSolution(s)
                        /\ pc = "end" => judged = Solutions

\* OptimisedSolve loses only solutions with indices that are equal when truncated.
OptimisedFindsMost ==
    solver = "Optimised" /\ pc = "end" =>
        \A s \in Solutions :
            \/ s \in judged
            \/ \E k, l \in DOMAIN s : k < l /\ TruncateIndex(s[k]) = TruncateIndex(s[l])

\* What it gives validBlock collides at every level of the tree, with distinct
\* indices in order: only the last digit may be other than zero.
CulledNearlyValid ==
    \A s \in judged : s \in {t.indices : t \in Trees[K + 1]}

\* The comments of culling, lines 630 to 697, have it reach the top of the tree with
\* solutions only.  The merge at the top compares one digit and not two.
CulledValid == \A s \in judged : IsValidSolution(s)
=============================================================================
