---------------------------- MODULE LoopTheorems ----------------------------
(***************************************************************************)
(* Lemmas about loops: induction over a range of numbers, and functions    *)
(* that are defined from one number to the next, for the proofs about what *)
(* the program computes in a loop.                                         *)
(***************************************************************************)
EXTENDS Integers, Sequences, WellFoundedInduction, TLAPS

LessThan == {ss \in Nat \X Nat : ss[1] < ss[2]}

LEMMA LeastNumber ==
    ASSUME NEW S \in SUBSET Nat, S # {}
    PROVE  \E n \in S : \A m \in S : n <= m
<1>1. IsWellFoundedOn(LessThan, Nat)
      BY NatLessThanWellFounded DEF OpToRel, LessThan
<1>2. PICK n \in S : \A m \in S : <<m, n>> \notin LessThan
      BY <1>1, WFMin
<1>3. \A m \in S : m < n <=> <<m, n>> \in LessThan
      BY DEF LessThan
<1>4. \A m \in S : n <= m
  <2> TAKE m \in S
  <2>1. m \in Nat /\ n \in Nat  OBVIOUS
  <2>2. ~ (m < n)  BY <1>2, <1>3
  <2> QED BY <2>1, <2>2
<1> QED BY <1>4

\* What holds of 0 and goes on from each k < n to k + 1 holds up to n.
LEMMA InductionUpTo ==
    ASSUME NEW n \in Nat, NEW S, 0 \in S,
           \A k \in 0 .. n : k < n /\ k \in S => k + 1 \in S
    PROVE  \A k \in 0 .. n : k \in S
<1> DEFINE Missing == {k \in 0 .. n : k \notin S}
<1> SUFFICES ASSUME Missing # {} PROVE FALSE
    OBVIOUS
<1>1. PICK m \in Missing : \A k \in Missing : m <= k
  <2>1. Missing \in SUBSET Nat  OBVIOUS
  <2> QED BY <2>1, LeastNumber
<1>2. m \in 0 .. n /\ m \notin S /\ m # 0
      BY <1>1
<1>3. m - 1 \in 0 .. n /\ m - 1 < n /\ m - 1 + 1 = m
      BY <1>2
<1>4. m - 1 \in S
      BY <1>1, <1>3
<1> QED BY <1>2, <1>3, <1>4

\* f[i] is what a loop that begins with a has made in S after i of its n turns; turn i
\* makes G[i][x] of x.
IsLoop(f, n, S, a, G) ==
    /\ f \in [0 .. n -> S] /\ f[0] = a
    /\ \A i \in 1 .. n : f[i] = G[i][f[i - 1]]

LEMMA LoopExists ==
    ASSUME NEW n \in Nat, NEW S, NEW a \in S, NEW G \in [1 .. n -> [S -> S]]
    PROVE  \E f : IsLoop(f, n, S, a, G)
<1> DEFINE Done == {m \in 0 .. n : \E f : IsLoop(f, m, S, a, G)}
<1>1. 0 \in Done
  <2> DEFINE f == [i \in 0 .. 0 |-> a]
  <2>1. IsLoop(f, 0, S, a, G)  BY DEF IsLoop
  <2> HIDE DEF f
  <2> QED BY <2>1
<1>2. ASSUME NEW k \in 0 .. n, k < n, k \in Done  PROVE k + 1 \in Done
  <2>1. PICK f : IsLoop(f, k, S, a, G)  BY <1>2
  <2> DEFINE g == [i \in 0 .. k + 1 |-> IF i <= k THEN f[i] ELSE G[k + 1][f[k]]]
  <2>2. f[k] \in S /\ k + 1 \in 1 .. n
        BY <1>2, <2>1 DEF IsLoop
  <2>3. G[k + 1][f[k]] \in S  BY <2>2
  <2>4. g \in [0 .. k + 1 -> S] /\ g[0] = a
        BY <2>1, <2>3 DEF IsLoop
  <2>5. ASSUME NEW i \in 1 .. k + 1  PROVE g[i] = G[i][g[i - 1]]
    <3>1. CASE i <= k
      <4>1. g[i] = f[i] /\ g[i - 1] = f[i - 1] /\ i \in 1 .. k  BY <3>1
      <4> QED BY <2>1, <4>1 DEF IsLoop
    <3>2. CASE i = k + 1
      <4>1. g[i] = G[k + 1][f[k]] /\ g[i - 1] = f[k]  BY <3>2
      <4> QED BY <3>2, <4>1
    <3> QED BY <3>1, <3>2
  <2> HIDE DEF g
  <2>6. IsLoop(g, k + 1, S, a, G)  BY <2>4, <2>5 DEF IsLoop
  <2>7. k + 1 \in 0 .. n  BY <1>2
  <2> QED BY <2>6, <2>7
<1>3. n \in 0 .. n  OBVIOUS
<1> HIDE DEF Done
<1>4. n \in Done  BY <1>1, <1>2, <1>3, InductionUpTo
<1> QED BY <1>4 DEF Done
=============================================================================
