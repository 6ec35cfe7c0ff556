------------------------ MODULE FermatPipeline_proofs ------------------------
(***************************************************************************)
(* Proofs about FermatPipeline, for any number of pipelines and any block  *)
(* size, depth and supply of candidates.                                   *)
(***************************************************************************)
EXTENDS FermatPipeline, SequenceTheorems, FiniteSetTheorems, TLAPS

\* A dispatch never covers more than there is.
LEMMA WholeBlocksBound ==
    ASSUME NEW n \in Nat
    PROVE  WholeBlocks(n) \in Nat /\ WholeBlocks(n) <= n
<1>1. n % BlockSize \in 0 .. (BlockSize - 1)
      BY BlockSizeAssumption
<1>2. CASE n > BlockSize
  <2>1. n % BlockSize < n  BY <1>1, <1>2, BlockSizeAssumption
  <2> QED BY <1>1, <1>2, <2>1, BlockSizeAssumption DEF WholeBlocks
<1>3. CASE ~(n > BlockSize)
      BY <1>3 DEF WholeBlocks
<1> QED BY <1>2, <1>3

LEMMA Parity ==
    ASSUME TypeOK
    PROVE  /\ ridx \in {0, 1} /\ widx \in {0, 1} /\ ridx # widx
           /\ 1 - ridx = widx /\ 1 - widx = ridx
BY DEF TypeOK, ridx, widx

LEMMA JoinedType ==
    ASSUME TypeOK, NEW p \in Pipe
    PROVE  Joined(p) \in Seq(Cand)
<1>1. /\ buf[p][ridx] \in Seq(Cand) /\ buf[p][widx] \in Seq(Cand)
      /\ sieve[p][ridx] \in Seq(Cand) /\ bsize[p] \in Nat
      BY Parity DEF TypeOK
<1>2. Left(p) \in Seq(Cand)
  <2>1. /\ bsize[p] + 1 \in Int /\ Len(buf[p][widx]) \in Int
        /\ \A i \in (bsize[p] + 1) .. Len(buf[p][widx]) : buf[p][widx][i] \in Cand
        BY <1>1, ElementOfSeq
  <2> QED BY <2>1, SubSeqProperties DEF Left
<1>3. buf[p][ridx] \o Left(p) \in Seq(Cand)
      BY <1>1, <1>2, ConcatProperties
<1> QED BY <1>1, <1>3, ConcatProperties DEF Joined

-----------------------------------------------------------------------------
(* The inductive invariant: the types (which say that a candidate that is  *)
(* still to be tested has passed fewer than Depth tests and one in `final' *)
(* exactly Depth) and the bounds of the dispatch.                          *)

IInv == TypeOK /\ DispatchInBounds

LEMMA InitIInv == Init => IInv
<1> SUFFICES ASSUME Init PROVE IInv
    OBVIOUS
<1>1. Emptied \in [{0, 1} -> Seq(Cand)] /\ Emptied[0] = << >> /\ Emptied[1] = << >>
      BY DEF Emptied
<1>2. TypeOK
      BY <1>1 DEF Init, TypeOK
<1>3. DispatchInBounds
      BY <1>1 DEF Init, DispatchInBounds, ridx, widx
<1> QED BY <1>2, <1>3 DEF IInv

LEMMA DispatchIInv ==
    ASSUME IInv, Dispatch
    PROVE  IInv'
<1>1. /\ TypeOK /\ phase' = "device" /\ parity' = parity
      /\ ridx \in {0, 1} /\ widx \in {0, 1} /\ ridx # widx
      BY Parity DEF IInv, Dispatch
<1>2. /\ \A p \in Pipe : Joined(p) \in Seq(Cand) /\ Len(Joined(p)) \in Nat
      BY <1>1, JoinedType
<1>3. buf' \in [Pipe -> [{0, 1} -> Seq(Cand)]]
      BY <1>1, <1>2 DEF TypeOK, Dispatch
<1>4. bsize' \in [Pipe -> Nat]
      BY <1>2, WholeBlocksBound DEF Dispatch
<1>5. sieve' \in [Pipe -> [{0, 1} -> Seq(Cand)]]
      BY <1>1 DEF TypeOK, Dispatch
<1>6. TypeOK'
      BY <1>1, <1>3, <1>4, <1>5 DEF TypeOK, Dispatch
<1>7. ASSUME NEW p \in Pipe
      PROVE  bsize'[p] <= Len(buf'[p][ridx])
  <2>1. buf'[p][ridx] = Joined(p)
        BY <1>1 DEF TypeOK, Dispatch
  <2>2. bsize'[p] = WholeBlocks(Len(Joined(p)))
        BY DEF Dispatch
  <2> QED BY <1>2, <2>1, <2>2, WholeBlocksBound
<1>8. DispatchInBounds'
      BY <1>1, <1>7 DEF DispatchInBounds, ridx, widx
<1> QED BY <1>6, <1>8 DEF IInv

LEMMA ResetIInv ==
    ASSUME IInv, Reset
    PROVE  IInv'
<1>1. Emptied \in [{0, 1} -> Seq(Cand)] /\ \A i \in {0, 1} : Len(Emptied[i]) = 0
      BY DEF Emptied
<1>2. TypeOK'
      BY <1>1 DEF IInv, TypeOK, Reset
<1>3. \A p \in Pipe, i \in {0, 1} : bsize'[p] <= Len(buf'[p][i])
      BY <1>1 DEF Reset
<1>4. DispatchInBounds'
      BY <1>2, <1>3 DEF DispatchInBounds, TypeOK, ridx, widx
<1> QED BY <1>2, <1>4 DEF IInv

LEMMA SieveFindsIInv ==
    ASSUME IInv, NEW p \in Pipe, NEW id \in Id, SieveFinds(p, id)
    PROVE  IInv'
<1>1. [id |-> id, chainpos |-> 0] \in Cand
      BY DepthAssumption DEF Cand
<1>2. widx \in {0, 1} /\ sieve[p][widx] \in Seq(Cand)
      BY Parity DEF IInv, TypeOK
<1>3. Append(sieve[p][widx], [id |-> id, chainpos |-> 0]) \in Seq(Cand)
      BY <1>1, <1>2, AppendProperties
<1>4. sieve' \in [Pipe -> [{0, 1} -> Seq(Cand)]]
      BY <1>2, <1>3 DEF IInv, TypeOK, SieveFinds
<1>5. TypeOK'
      BY <1>4 DEF IInv, TypeOK, SieveFinds
<1>6. DispatchInBounds'
      BY DEF IInv, SieveFinds, DispatchInBounds, ridx, widx
<1> QED BY <1>5, <1>6 DEF IInv

LEMMA TestItemIInv ==
    ASSUME IInv, NEW p \in Pipe, NEW i \in 1 .. bsize[p], NEW prime \in BOOLEAN,
           TestItem(p, i, prime)
    PROVE  IInv'
<1> DEFINE c == buf[p][ridx][i]
<1>1. /\ TypeOK /\ DispatchInBounds /\ phase = "device" /\ bsize[p] \in Nat
      /\ ridx \in {0, 1} /\ widx \in {0, 1} /\ ridx # widx
      /\ ridx' = ridx /\ widx' = widx
      /\ i \in Nat \ {0}
      BY Parity DEF IInv, TypeOK, TestItem, ridx, widx
<1>2. /\ buf[p][ridx] \in Seq(Cand) /\ buf[p][widx] \in Seq(Cand)
      /\ bsize[p] <= Len(buf[p][ridx])
      BY <1>1 DEF TypeOK, DispatchInBounds
<1>3. c \in Cand
  <2>1. i \in 1 .. Len(buf[p][ridx])  BY <1>1, <1>2
  <2> QED BY <1>2, <2>1, ElementOfSeq
<1>4. /\ Advanced(c).chainpos = c.chainpos + 1 /\ Advanced(c).id = c.id
      /\ c.id \in Id /\ c.chainpos \in 0 .. (Depth - 1)
      /\ Done(Advanced(c)) => Advanced(c) \in Proven
      /\ ~Done(Advanced(c)) => Advanced(c) \in Cand
      BY <1>3, DepthAssumption DEF Cand, Proven, Advanced, Done
<1>5. ran' \in [Pipe -> SUBSET (Nat \ {0})]
      BY <1>1 DEF TypeOK, TestItem
<1>6. CASE ~prime
  <2>1. UNCHANGED <<buf, bsize, final, passed, sieve, parity, phase>> /\ live' \subseteq Id
        BY <1>1, <1>6 DEF TestItem, TypeOK
  <2> QED BY <1>1, <1>5, <2>1 DEF IInv, TypeOK, DispatchInBounds, ridx, widx
<1>7. CASE prime
  <2>1. /\ UNCHANGED <<bsize, live, sieve, parity, phase>>
        /\ passed' = [passed EXCEPT ![c.id] = @ + 1]
        BY <1>7 DEF TestItem
  <2>2. passed' \in [Id -> Nat]
        BY <1>1, <1>4, <2>1 DEF TypeOK
  <2>3. CASE Done(Advanced(c))
    <3>1. buf' = buf /\ final' = Append(final, Advanced(c))
          BY <1>7, <2>3 DEF TestItem
    <3>2. final' \in Seq(Proven)
          BY <1>1, <1>4, <2>3, <3>1, AppendProperties DEF TypeOK
    <3> QED BY <1>1, <1>5, <2>1, <2>2, <3>1, <3>2
            DEF IInv, TypeOK, DispatchInBounds, ridx, widx
  <2>4. CASE ~Done(Advanced(c))
    <3>1. /\ buf' = [buf EXCEPT ![p][widx] = Append(@, Advanced(c))]
          /\ final' = final
          BY <1>7, <2>4 DEF TestItem
    <3>2. Append(buf[p][widx], Advanced(c)) \in Seq(Cand)
          BY <1>2, <1>4, <2>4, AppendProperties
    <3>3. buf' \in [Pipe -> [{0, 1} -> Seq(Cand)]]
          BY <1>1, <3>1, <3>2 DEF TypeOK
    <3>4. \A q \in Pipe : buf'[q][ridx] = buf[q][ridx]
          BY <1>1, <3>1 DEF TypeOK
    <3>5. TypeOK'
          BY <1>1, <1>5, <2>1, <2>2, <3>1, <3>3 DEF TypeOK
    <3>6. DispatchInBounds'
          BY <1>1, <2>1, <3>4 DEF DispatchInBounds
    <3> QED BY <3>5, <3>6 DEF IInv
  <2> QED BY <2>3, <2>4
<1> QED BY <1>6, <1>7

LEMMA FinishIInv ==
    ASSUME IInv, Finish
    PROVE  IInv'
<1>1. TypeOK'
      BY DEF IInv, TypeOK, Finish
<1>2. DispatchInBounds'
      BY Parity DEF IInv, Finish, DispatchInBounds, ridx, widx
<1> QED BY <1>1, <1>2 DEF IInv

LEMMA NextIInv == IInv /\ [Next]_vars => IInv'
<1> SUFFICES ASSUME IInv, [Next]_vars PROVE IInv'
    OBVIOUS
<1>1. CASE Dispatch  BY <1>1, DispatchIInv
<1>2. CASE Reset  BY <1>2, ResetIInv
<1>3. CASE Finish  BY <1>3, FinishIInv
<1>4. ASSUME NEW p \in Pipe, NEW id \in Id, SieveFinds(p, id) PROVE IInv'
      BY <1>4, SieveFindsIInv
<1>5. ASSUME NEW p \in Pipe, NEW i \in 1 .. bsize[p], NEW prime \in BOOLEAN,
             TestItem(p, i, prime)
      PROVE IInv'
      BY <1>5, TestItemIInv
<1>6. CASE UNCHANGED vars
      BY <1>6 DEF vars, IInv, TypeOK, DispatchInBounds, ridx, widx
<1> QED BY <1>1, <1>2, <1>3, <1>4, <1>5, <1>6 DEF Next

LEMMA AlwaysIInv == Spec => []IInv
BY InitIInv, NextIInv, PTL DEF Spec

\* The buffers hold candidates that have passed fewer than Depth tests, and
\* `final' holds candidates whose chain position is exactly Depth
\* (check_fermat, fermat.cl lines 1379-1393).
THEOREM TypeCorrect == Spec => []TypeOK
BY AlwaysIInv, PTL DEF IInv

\* The unsigned subtraction of line 168 of FermatDispatch never wraps around and
\* a dispatch never covers entries beyond the counter, whatever the kernels
\* decide, whenever new work resets the pipelines and whatever the block size.
THEOREM DispatchSafe == Spec => []DispatchInBounds
BY AlwaysIInv, PTL DEF IInv

-----------------------------------------------------------------------------
(* Where the candidates are.  A spot is a position of a list in one of the *)
(* two kinds of buffers, the lists `buf' and the lists `sieve'; a          *)
(* candidate waits there until its test is done, or it waits in `final'.   *)

Store == {"buf", "sieve"}

Waiting(s, p, i) == IF s = "buf" THEN {k \in DOMAIN buf[p][i] : ~Tested(p, i, k)}
                                 ELSE DOMAIN sieve[p][i]

Entry(s, p, i, k) == IF s = "buf" THEN buf[p][i][k] ELSE sieve[p][i][k]

\* No candidate waits at two spots,
OneSpot ==
    \A s, t \in Store, p, q \in Pipe, i, j \in {0, 1} :
        \A k \in Waiting(s, p, i), l \in Waiting(t, q, j) :
            Entry(s, p, i, k).id = Entry(t, q, j, l).id
                => s = t /\ p = q /\ i = j /\ k = l

\* nor at a spot and in `final',
NotFinal ==
    \A s \in Store, p \in Pipe, i \in {0, 1} :
        \A k \in Waiting(s, p, i), m \in DOMAIN final :
            Entry(s, p, i, k).id # final[m].id

\* nor twice in `final'.
FinalOnce ==
    \A m, n \in DOMAIN final : final[m].id = final[n].id => m = n

AtSpot(id) ==
    \E s \in Store, p \in Pipe, i \in {0, 1} :
        \E k \in Waiting(s, p, i) : Entry(s, p, i, k).id = id

AtFinal(id) == \E m \in DOMAIN final : final[m].id = id

\* The live candidates are those that wait somewhere.
LiveWaits == \A id \in Id : id \in live <=> AtSpot(id) \/ AtFinal(id)

\* The chain position is the number of tests passed so far.
ChainposTrue ==
    /\ \A s \in Store, p \in Pipe, i \in {0, 1} :
          \A k \in Waiting(s, p, i) :
              passed[Entry(s, p, i, k).id] = Entry(s, p, i, k).chainpos
    /\ \A m \in DOMAIN final : passed[final[m].id] = final[m].chainpos

\* Between two iterations no work item runs.
NoneRuns == phase = "host" => \A p \in Pipe : ran[p] = {}

Kept == /\ OneSpot
        /\ NotFinal
        /\ FinalOnce
        /\ LiveWaits
        /\ ChainposTrue
        /\ NoneRuns

LEMMA StoreTypes ==
    ASSUME TypeOK, NEW s \in Store, NEW p \in Pipe, NEW i \in {0, 1}
    PROVE  /\ buf[p][i] \in Seq(Cand) /\ sieve[p][i] \in Seq(Cand)
           /\ DOMAIN buf[p][i] = 1 .. Len(buf[p][i])
           /\ DOMAIN sieve[p][i] = 1 .. Len(sieve[p][i])
           /\ Len(buf[p][i]) \in Nat /\ Len(sieve[p][i]) \in Nat
           /\ \A k \in Waiting(s, p, i) :
                 k \in Nat \ {0} /\ Entry(s, p, i, k) \in Cand
<1>1. /\ buf[p][i] \in Seq(Cand) /\ sieve[p][i] \in Seq(Cand)
      BY DEF TypeOK
<1>2. /\ DOMAIN buf[p][i] = 1 .. Len(buf[p][i])
      /\ DOMAIN sieve[p][i] = 1 .. Len(sieve[p][i])
      /\ Len(buf[p][i]) \in Nat /\ Len(sieve[p][i]) \in Nat
      BY <1>1, LenProperties
<1>3. /\ \A k \in DOMAIN buf[p][i] : buf[p][i][k] \in Cand
      /\ \A k \in DOMAIN sieve[p][i] : sieve[p][i][k] \in Cand
      BY <1>1, <1>2, ElementOfSeq
<1> QED BY <1>1, <1>2, <1>3 DEF Waiting, Entry

LEMMA InitKept == Init => Kept
<1> SUFFICES ASSUME Init PROVE Kept
    OBVIOUS
<1>1. \A s \in Store, p \in Pipe, i \in {0, 1} : Waiting(s, p, i) = {}
      BY DEF Init, Emptied, Waiting
<1>2. DOMAIN final = {}
      BY DEF Init
<1> QED BY <1>1, <1>2 DEF Kept, Init, OneSpot, NotFinal, FinalOnce, LiveWaits, AtSpot,
           AtFinal, ChainposTrue, NoneRuns

LEMMA ResetKept ==
    ASSUME IInv, Kept, Reset
    PROVE  Kept'
<1>1. \A s \in Store, p \in Pipe, i \in {0, 1} : Waiting(s, p, i)' = {}
      BY DEF Reset, Emptied, Waiting
<1>2. DOMAIN final' = {}
      BY DEF Reset
<1> QED BY <1>1, <1>2 DEF Kept, Reset, OneSpot, NotFinal, FinalOnce, LiveWaits, AtSpot,
           AtFinal, ChainposTrue, NoneRuns

\* The end of an iteration changes what `tested' means, not what is tested.
LEMMA FinishKept ==
    ASSUME IInv, Kept, Finish
    PROVE  Kept'
<1>1. ASSUME NEW s \in Store, NEW p \in Pipe, NEW i \in {0, 1}
      PROVE  Waiting(s, p, i)' = Waiting(s, p, i)
  <2>1. UNCHANGED <<buf, sieve, bsize>> /\ ran[p] = 1 .. bsize[p] /\ bsize[p] \in Nat
        BY DEF Finish, IInv, TypeOK
  <2>2. phase = "device" /\ phase' = "host" /\ widx' = ridx
        BY Parity DEF Finish, IInv, TypeOK, ridx, widx
  <2>3. \A k \in DOMAIN buf[p][i] : k \in Nat \ {0}
        BY StoreTypes DEF IInv
  <2>4. \A k \in DOMAIN buf[p][i] : Tested(p, i, k)' <=> Tested(p, i, k)
        BY <2>1, <2>2, <2>3 DEF Tested
  <2> QED BY <2>1, <2>4 DEF Waiting
<1>2. \A s, p, i, k : Entry(s, p, i, k)' = Entry(s, p, i, k)
      BY DEF Finish, Entry
<1>3. UNCHANGED <<final, live, passed>> /\ \A p \in Pipe : ran'[p] = {}
      BY DEF Finish
<1> QED BY <1>1, <1>2, <1>3 DEF Kept, OneSpot, NotFinal, FinalOnce, LiveWaits, AtSpot,
           AtFinal, ChainposTrue, NoneRuns

LEMMA SieveFindsKept ==
    ASSUME IInv, Kept, NEW p \in Pipe, NEW id \in Id, SieveFinds(p, id)
    PROVE  Kept'
<1>0. PICK w \in {0, 1}, n \in Nat : w = widx /\ n = Len(sieve[p][widx]) + 1
  <2>1. widx \in {0, 1} /\ Len(sieve[p][widx]) \in Nat
        BY Parity, StoreTypes DEF IInv, Store
  <2> QED BY <2>1
<1> DEFINE new == [id |-> id, chainpos |-> 0]
           Here(s, q, i) == s = "sieve" /\ q = p /\ i = w
<1>1. /\ TypeOK /\ w \in {0, 1} /\ sieve[p][w] \in Seq(Cand) /\ new \in Cand
      /\ UNCHANGED <<parity, phase, buf, bsize, ran, final>>
      /\ id \notin live /\ live' = live \cup {id}
      /\ passed' = [passed EXCEPT ![id] = 0] /\ passed \in [Id -> Nat]
      /\ "sieve" \in Store
  <2>1. 0 \in 0 .. (Depth - 1)  BY DepthAssumption
  <2> QED BY <1>0, <2>1, Parity DEF IInv, TypeOK, SieveFinds, Cand, Store
<1>2. /\ \A q \in Pipe, i \in {0, 1} :
            ~ Here("sieve", q, i) => sieve'[q][i] = sieve[q][i]
      /\ sieve'[p][w] = Append(sieve[p][w], new)
      BY <1>0, <1>1 DEF TypeOK, SieveFinds
<1>3. /\ DOMAIN sieve[p][w] = 1 .. Len(sieve[p][w]) /\ Len(sieve[p][w]) \in Nat
      /\ DOMAIN sieve'[p][w] = 1 .. n
      /\ \A k \in 1 .. Len(sieve[p][w]) : sieve'[p][w][k] = sieve[p][w][k]
      /\ sieve'[p][w][n] = new
  <2>1. /\ sieve'[p][w] \in Seq(Cand) /\ Len(sieve'[p][w]) = n
        /\ \A k \in 1 .. Len(sieve[p][w]) : sieve'[p][w][k] = sieve[p][w][k]
        /\ sieve'[p][w][n] = new
        BY <1>0, <1>1, <1>2, AppendProperties
  <2> QED BY <1>1, <2>1, LenProperties
<1>4. ASSUME NEW s \in Store, NEW q \in Pipe, NEW i \in {0, 1}
      PROVE  /\ Waiting(s, q, i)' = IF Here(s, q, i) THEN Waiting(s, q, i) \cup {n}
                                    ELSE Waiting(s, q, i)
             /\ Here(s, q, i) => n \notin Waiting(s, q, i)
             /\ \A k \in Waiting(s, q, i) : Entry(s, q, i, k)' = Entry(s, q, i, k)
  <2>1. CASE s = "buf"
        BY <1>1, <2>1 DEF Waiting, Entry, Tested, ridx, widx
  <2>2. CASE s = "sieve" /\ ~ Here(s, q, i)
        BY <1>2, <2>2 DEF Waiting, Entry
  <2>3. CASE Here(s, q, i)
    <3>1. Waiting(s, q, i) = 1 .. Len(sieve[p][w]) /\ Waiting(s, q, i)' = 1 .. n
          BY <1>3, <2>3 DEF Waiting
    <3>2. n = Len(sieve[p][w]) + 1
          BY <1>0
    <3>3. /\ 1 .. n = (1 .. Len(sieve[p][w])) \cup {n}
          /\ n \notin 1 .. Len(sieve[p][w])
          BY <1>3, <3>2
    <3>4. \A k \in Waiting(s, q, i) : Entry(s, q, i, k)' = Entry(s, q, i, k)
          BY <1>3, <2>3, <3>1 DEF Entry
    <3> QED BY <2>3, <3>1, <3>3, <3>4
  <2> QED BY <2>1, <2>2, <2>3 DEF Store
<1>5. Entry("sieve", p, w, n)' = new
      BY <1>1, <1>3 DEF Entry
<1>6. /\ \A s \in Store, q \in Pipe, i \in {0, 1} :
            \A k \in Waiting(s, q, i) : Entry(s, q, i, k).id \in Id \ {id}
      /\ \A m \in DOMAIN final : final[m].id \in Id \ {id}
  <2>1. \A s \in Store, q \in Pipe, i \in {0, 1} :
            \A k \in Waiting(s, q, i) : Entry(s, q, i, k).id \in Id
        BY <1>1, StoreTypes DEF Cand
  <2>2. \A m \in DOMAIN final : final[m].id \in Id
    <3>1. final \in Seq(Proven) /\ DOMAIN final = 1 .. Len(final)
          BY <1>1, LenProperties DEF TypeOK
    <3>2. \A m \in DOMAIN final : final[m] \in Proven
          BY <3>1, ElementOfSeq
    <3> QED BY <3>2 DEF Proven
  <2> QED BY <1>1, <2>1, <2>2 DEF Kept, LiveWaits, AtSpot, AtFinal
<1>7. OneSpot'
      BY <1>4, <1>5, <1>6 DEF Kept, OneSpot
<1>8. NotFinal' /\ FinalOnce'
      BY <1>1, <1>4, <1>5, <1>6 DEF Kept, NotFinal, FinalOnce
<1>9. LiveWaits'
  <2>1. ASSUME NEW x \in Id, x # id
        PROVE  AtSpot(x)' <=> AtSpot(x)
        BY <2>1, <1>4, <1>5 DEF AtSpot
  <2>2. AtSpot(id)'
        BY <1>1, <1>4, <1>5 DEF AtSpot
  <2>3. \A x \in Id : AtFinal(x)' <=> AtFinal(x)
        BY <1>1 DEF AtFinal
  <2> QED BY <1>1, <2>1, <2>2, <2>3 DEF Kept, LiveWaits
<1>10. ChainposTrue'
      BY <1>1, <1>4, <1>5, <1>6 DEF Kept, ChainposTrue
<1>11. NoneRuns'
      BY <1>1 DEF Kept, NoneRuns
<1> QED BY <1>7, <1>8, <1>9, <1>10, <1>11 DEF Kept

\* The candidate leaves its spot and, when it passes, waits somewhere else.
LEMMA TestItemKept ==
    ASSUME IInv, Kept, NEW p \in Pipe, NEW i \in 1 .. bsize[p], NEW prime \in BOOLEAN,
           TestItem(p, i, prime)
    PROVE  Kept'
<1>0. PICK r \in {0, 1}, w \in {0, 1}, c \in Cand, n \in Nat :
          r = ridx /\ w = widx /\ c = buf[p][ridx][i] /\ n = Len(buf[p][widx]) + 1
  <2>1. ridx \in {0, 1} /\ widx \in {0, 1} /\ bsize[p] \in Nat
        BY Parity DEF IInv, TypeOK
  <2>2. buf[p][ridx] \in Seq(Cand) /\ Len(buf[p][widx]) \in Nat
        BY <2>1, StoreTypes DEF IInv, Store
  <2>3. i \in 1 .. Len(buf[p][ridx])
        BY <2>1, <2>2 DEF IInv, DispatchInBounds, TestItem
  <2> QED BY <2>1, <2>2, <2>3, ElementOfSeq
<1> DEFINE Moves(s, q, j) == prime /\ ~Done(Advanced(c)) /\ s = "buf" /\ q = p /\ j = w
           Here(s, q, j) == s = "buf" /\ q = p /\ j = r
<1>1. /\ TypeOK /\ DispatchInBounds /\ phase = "device" /\ bsize[p] \in Nat
      /\ r # w
      /\ UNCHANGED <<parity, phase, sieve, bsize>> /\ r = ridx' /\ w = widx'
      /\ i \in Nat \ {0} /\ i \notin ran[p] /\ ran' = [ran EXCEPT ![p] = @ \cup {i}]
      /\ i <= bsize[p] /\ "buf" \in Store
  <2>1. TypeOK /\ DispatchInBounds  BY DEF IInv
  <2> QED BY <1>0, <2>1, Parity DEF TypeOK, TestItem, ridx, widx, Store
<1>2. /\ buf[p][r] \in Seq(Cand) /\ buf[p][w] \in Seq(Cand)
      /\ bsize[p] <= Len(buf[p][r])
      /\ DOMAIN buf[p][r] = 1 .. Len(buf[p][r])
      /\ DOMAIN buf[p][w] = 1 .. Len(buf[p][w]) /\ Len(buf[p][w]) \in Nat
  <2>1. buf[p][r] \in Seq(Cand) /\ buf[p][w] \in Seq(Cand)
        BY <1>1 DEF TypeOK
  <2> QED BY <1>0, <1>1, <2>1, LenProperties DEF DispatchInBounds
<1>3. c \in Cand /\ i \in Waiting("buf", p, r) /\ Entry("buf", p, r, i) = c
  <2>1. i \in 1 .. Len(buf[p][r])  BY <1>1, <1>2
  <2>2. ~ Tested(p, r, i)  BY <1>0, <1>1 DEF Tested
  <2> QED BY <1>0, <1>2, <2>1, <2>2, ElementOfSeq DEF Waiting, Entry
<1>4. /\ Advanced(c).chainpos = c.chainpos + 1 /\ Advanced(c).id = c.id
      /\ c.id \in Id /\ c.chainpos \in 0 .. (Depth - 1)
      /\ Done(Advanced(c)) => Advanced(c) \in Proven
      /\ ~Done(Advanced(c)) => Advanced(c) \in Cand
      BY <1>3, DepthAssumption DEF Cand, Proven, Advanced, Done
<1>5. /\ \A q \in Pipe, j \in {0, 1} :
            ~ Moves("buf", q, j) => buf'[q][j] = buf[q][j]
      /\ Moves("buf", p, w) =>
            /\ DOMAIN buf'[p][w] = 1 .. n
            /\ \A k \in 1 .. Len(buf[p][w]) : buf'[p][w][k] = buf[p][w][k]
            /\ buf'[p][w][n] = Advanced(c)
  <2>1. CASE ~ Moves("buf", p, w)
    <3>1. buf' = buf  BY <1>0, <2>1 DEF TestItem
    <3> QED BY <2>1, <3>1
  <2>2. CASE Moves("buf", p, w)
    <3>1. buf' = [buf EXCEPT ![p][w] = Append(@, Advanced(c))]
          BY <1>0, <2>2 DEF TestItem
    <3>2. /\ \A q \in Pipe, j \in {0, 1} : ~ Moves("buf", q, j) => buf'[q][j] = buf[q][j]
          /\ buf'[p][w] = Append(buf[p][w], Advanced(c))
          BY <1>1, <2>2, <3>1 DEF TypeOK
    <3>3. /\ buf'[p][w] \in Seq(Cand) /\ Len(buf'[p][w]) = n
          /\ \A k \in 1 .. Len(buf[p][w]) : buf'[p][w][k] = buf[p][w][k]
          /\ buf'[p][w][n] = Advanced(c)
          BY <1>0, <1>2, <1>4, <2>2, <3>2, AppendProperties
    <3> QED BY <3>2, <3>3, LenProperties
  <2> QED BY <2>1, <2>2
<1>6. ASSUME NEW s \in Store, NEW q \in Pipe, NEW j \in {0, 1}
      PROVE  /\ Waiting(s, q, j)' = CASE Here(s, q, j) -> Waiting(s, q, j) \ {i}
                                      [] Moves(s, q, j) -> Waiting(s, q, j) \cup {n}
                                      [] OTHER -> Waiting(s, q, j)
             /\ \A k \in Waiting(s, q, j) : Entry(s, q, j, k)' = Entry(s, q, j, k)
  <2>1. CASE s = "sieve"
        BY <1>1, <2>1 DEF Waiting, Entry
  <2>2. CASE s = "buf" /\ Here(s, q, j)
    <3>1. \A k : Tested(p, r, k)' <=> Tested(p, r, k) \/ k = i
          BY <1>0, <1>1 DEF Tested, TypeOK
    <3>2. buf'[p][r] = buf[p][r]
          BY <1>1, <1>5
    <3> QED BY <1>1, <2>2, <3>1, <3>2 DEF Waiting, Entry
  <2>3. CASE s = "buf" /\ ~ Here(s, q, j) /\ ~ Moves(s, q, j)
    <3>1. \A k : Tested(q, j, k)' <=> Tested(q, j, k)
          BY <1>0, <1>1, <2>3 DEF Tested, TypeOK
    <3>2. buf'[q][j] = buf[q][j]
          BY <1>5, <2>3
    <3> QED BY <2>3, <3>1, <3>2 DEF Waiting, Entry
  <2>4. CASE Moves(s, q, j)
    <3>1. \A k : ~ Tested(p, w, k)' /\ ~ Tested(p, w, k)
          BY <1>0, <1>1 DEF Tested
    <3>2. DOMAIN buf'[p][w] = DOMAIN buf[p][w] \cup {n}
      <4>1. DOMAIN buf'[p][w] = 1 .. n  BY <1>5, <2>4
      <4>2. n = Len(buf[p][w]) + 1  BY <1>0
      <4> QED BY <1>2, <4>1, <4>2
    <3> QED BY <1>0, <1>1, <1>2, <1>5, <2>4, <3>1, <3>2 DEF Waiting, Entry
  <2> QED BY <2>1, <2>2, <2>3, <2>4 DEF Store
<1>7. Moves("buf", p, w) => Entry("buf", p, w, n)' = Advanced(c)
      BY <1>1, <1>5 DEF Entry
<1>8. /\ \A s \in Store, q \in Pipe, j \in {0, 1} : \A k \in Waiting(s, q, j) :
            /\ Entry(s, q, j, k).id \in Id
            /\ Entry(s, q, j, k).id = c.id => s = "buf" /\ q = p /\ j = r /\ k = i
      /\ \A m \in DOMAIN final : final[m].id \in Id /\ final[m].id # c.id
  <2>1. \A s \in Store, q \in Pipe, j \in {0, 1} : \A k \in Waiting(s, q, j) :
            Entry(s, q, j, k).id \in Id
        BY <1>1, StoreTypes DEF Cand
  <2>2. \A m \in DOMAIN final : final[m].id \in Id
    <3>1. final \in Seq(Proven) /\ DOMAIN final = 1 .. Len(final)
          BY <1>1, LenProperties DEF TypeOK
    <3>2. \A m \in DOMAIN final : final[m] \in Proven
          BY <3>1, ElementOfSeq
    <3> QED BY <3>2 DEF Proven
  <2>3. \A s \in Store, q \in Pipe, j \in {0, 1} : \A k \in Waiting(s, q, j) :
            Entry(s, q, j, k).id = c.id => s = "buf" /\ q = p /\ j = r /\ k = i
        BY <1>1, <1>3 DEF Kept, OneSpot
  <2>4. \A m \in DOMAIN final : final[m].id # c.id
        BY <1>1, <1>3 DEF Kept, NotFinal
  <2> QED BY <2>1, <2>2, <2>3, <2>4
\* What is known of the spots after the step.
<1>9. ASSUME NEW s \in Store, NEW q \in Pipe, NEW j \in {0, 1}, NEW k \in Waiting(s, q, j)'
      PROVE  \/ /\ k \in Waiting(s, q, j) /\ Entry(s, q, j, k)' = Entry(s, q, j, k)
                /\ Entry(s, q, j, k).id # c.id
             \/ Moves(s, q, j) /\ k = n /\ Entry(s, q, j, k)' = Advanced(c)
  <2>1. CASE k \in Waiting(s, q, j)
    <3>1. ~ (s = "buf" /\ q = p /\ j = r /\ k = i)
      <4>1. CASE Here(s, q, j)
        <5>1. Waiting(s, q, j)' = Waiting(s, q, j) \ {i}  BY <1>1, <1>6, <4>1
        <5> QED BY <5>1
      <4> QED BY <4>1
    <3> QED BY <1>6, <1>8, <2>1, <3>1
  <2>2. CASE k \notin Waiting(s, q, j)
        BY <1>1, <1>6, <1>7, <2>2
  <2> QED BY <2>1, <2>2
<1>10. OneSpot'
      BY <1>4, <1>9 DEF Kept, OneSpot
<1>11. /\ \/ final' = final
          \/ prime /\ Done(Advanced(c)) /\ final' = Append(final, Advanced(c))
       /\ live' = IF prime THEN live ELSE live \ {c.id}
       /\ passed' = IF prime THEN [passed EXCEPT ![c.id] = @ + 1] ELSE passed
       /\ prime /\ Done(Advanced(c)) => final' = Append(final, Advanced(c))
      BY <1>0 DEF TestItem
<1>12. ASSUME NEW m \in DOMAIN final'
       PROVE  \/ m \in DOMAIN final /\ final'[m] = final[m]
              \/ /\ prime /\ Done(Advanced(c))
                 /\ m = Len(final) + 1 /\ final'[m] = Advanced(c)
  <2>1. final \in Seq(Proven)  BY <1>1 DEF TypeOK
  <2>2. CASE final' = final  BY <2>2
  <2>3. CASE prime /\ Done(Advanced(c)) /\ final' = Append(final, Advanced(c))
    <3>1. /\ final' \in Seq(Proven) /\ Len(final') = Len(final) + 1 /\ Len(final) \in Nat
          /\ \A k \in 1 .. Len(final) : final'[k] = final[k]
          /\ final'[Len(final) + 1] = Advanced(c)
          BY <1>4, <2>1, <2>3, AppendProperties, LenProperties
    <3>2. DOMAIN final' = 1 .. (Len(final) + 1) /\ DOMAIN final = 1 .. Len(final)
          BY <2>1, <3>1, LenProperties
    <3> QED BY <2>3, <3>1, <3>2
  <2> QED BY <1>11, <2>2, <2>3
<1>13. /\ \A m \in DOMAIN final : m \in DOMAIN final' /\ final'[m] = final[m]
       /\ prime /\ Done(Advanced(c)) => \E m \in DOMAIN final' : final'[m] = Advanced(c)
  <2>1. final \in Seq(Proven)  BY <1>1 DEF TypeOK
  <2>2. CASE final' = final /\ ~ (prime /\ Done(Advanced(c)))  BY <2>2
  <2>3. CASE prime /\ Done(Advanced(c)) /\ final' = Append(final, Advanced(c))
    <3>1. /\ final' \in Seq(Proven) /\ Len(final') = Len(final) + 1 /\ Len(final) \in Nat
          /\ \A k \in 1 .. Len(final) : final'[k] = final[k]
          /\ final'[Len(final) + 1] = Advanced(c)
          BY <1>4, <2>1, <2>3, AppendProperties, LenProperties
    <3>2. DOMAIN final' = 1 .. (Len(final) + 1) /\ DOMAIN final = 1 .. Len(final)
          BY <2>1, <3>1, LenProperties
    <3> QED BY <3>1, <3>2
  <2> QED BY <1>11, <2>2, <2>3
<1>14. NotFinal'
  <2> SUFFICES ASSUME NEW s \in Store, NEW q \in Pipe, NEW j \in {0, 1},
                      NEW k \in Waiting(s, q, j)', NEW m \in DOMAIN final'
               PROVE  Entry(s, q, j, k)'.id # final'[m].id
      BY DEF NotFinal
  <2> QED BY <1>4, <1>8, <1>9, <1>12 DEF Kept, NotFinal
<1>15. FinalOnce'
      BY <1>4, <1>8, <1>12 DEF Kept, FinalOnce
<1>16. LiveWaits'
  <2>1. ASSUME NEW x \in Id, x # c.id
        PROVE  (AtSpot(x)' \/ AtFinal(x)') <=> (AtSpot(x) \/ AtFinal(x))
    <3>1. AtSpot(x)' => AtSpot(x)
          BY <1>4, <1>9, <2>1 DEF AtSpot
    <3>2. AtSpot(x) => AtSpot(x)'
      <4> SUFFICES ASSUME NEW s \in Store, NEW q \in Pipe, NEW j \in {0, 1},
                          NEW k \in Waiting(s, q, j), Entry(s, q, j, k).id = x
                   PROVE  AtSpot(x)'
          BY DEF AtSpot
      <4>1. ~ (s = "buf" /\ q = p /\ j = r /\ k = i)
            BY <1>3, <2>1
      <4>2. k \in Waiting(s, q, j)' /\ Entry(s, q, j, k)' = Entry(s, q, j, k)
            BY <1>6, <4>1
      <4> QED BY <4>2 DEF AtSpot
    <3>3. AtFinal(x)' <=> AtFinal(x)
          BY <1>4, <1>12, <1>13, <2>1 DEF AtFinal
    <3> QED BY <3>1, <3>2, <3>3
  <2>2. (AtSpot(c.id)' \/ AtFinal(c.id)') <=> prime
    <3>1. ASSUME prime, Done(Advanced(c))  PROVE AtFinal(c.id)'
          BY <1>4, <1>13, <3>1 DEF AtFinal
    <3>2. ASSUME prime, ~Done(Advanced(c))  PROVE AtSpot(c.id)'
      <4>1. Moves("buf", p, w)  BY <3>2
      <4>2. n \in Waiting("buf", p, w)'  BY <1>1, <1>6, <4>1
      <4> QED BY <1>1, <1>4, <1>7, <4>1, <4>2 DEF AtSpot
    <3>3. ASSUME ~ prime  PROVE ~ AtSpot(c.id)' /\ ~ AtFinal(c.id)'
          BY <1>8, <1>9, <1>12, <3>3 DEF AtSpot, AtFinal
    <3> QED BY <3>1, <3>2, <3>3
  <2>3. c.id \in live
        BY <1>1, <1>3, <1>4 DEF Kept, LiveWaits, AtSpot
  <2> QED BY <1>11, <2>1, <2>2, <2>3 DEF Kept, LiveWaits
<1>17. ChainposTrue'
  <2>1. passed \in [Id -> Nat] /\ passed[c.id] = c.chainpos
        BY <1>1, <1>3 DEF TypeOK, Kept, ChainposTrue
  <2>2. /\ \A x \in Id : x # c.id => passed'[x] = passed[x]
        /\ prime => passed'[c.id] = c.chainpos + 1
        BY <1>4, <1>11, <2>1
  <2>3. ASSUME NEW s \in Store, NEW q \in Pipe, NEW j \in {0, 1}, NEW k \in Waiting(s, q, j)'
        PROVE  passed'[Entry(s, q, j, k)'.id] = Entry(s, q, j, k)'.chainpos
        BY <1>4, <1>8, <1>9, <2>2 DEF Kept, ChainposTrue
  <2>4. ASSUME NEW m \in DOMAIN final'
        PROVE  passed'[final'[m].id] = final'[m].chainpos
        BY <1>4, <1>8, <1>12, <2>2 DEF Kept, ChainposTrue
  <2> QED BY <2>3, <2>4 DEF ChainposTrue
<1>18. NoneRuns'
      BY <1>1 DEF NoneRuns
<1> QED BY <1>10, <1>14, <1>15, <1>16, <1>17, <1>18 DEF Kept

-----------------------------------------------------------------------------
(* What FermatDispatch copies.  Each entry of the joined list comes from a *)
(* spot of its own, and each spot whose buffer is read is copied.          *)

OriginStore(p, k) == IF k <= Len(buf[p][ridx]) + Len(Left(p)) THEN "buf" ELSE "sieve"

OriginList(p, k) ==
    IF k > Len(buf[p][ridx]) /\ k <= Len(buf[p][ridx]) + Len(Left(p)) THEN widx ELSE ridx

OriginPos(p, k) ==
    IF k <= Len(buf[p][ridx]) THEN k
    ELSE IF k <= Len(buf[p][ridx]) + Len(Left(p)) THEN k - Len(buf[p][ridx]) + bsize[p]
    ELSE k - Len(buf[p][ridx]) - Len(Left(p))

\* j is a, then what w holds behind its first b entries, then c.
Parts(a, w, c, b, j, na, nl, nc) ==
    /\ na = Len(a) /\ nc = Len(c) /\ Len(w) = b + nl /\ nl = Len(SubSeq(w, b + 1, Len(w)))
    /\ Len(j) = na + nl + nc
    /\ DOMAIN a = 1 .. na /\ DOMAIN w = 1 .. b + nl /\ DOMAIN c = 1 .. nc
    /\ \A m \in 1 .. na : j[m] = a[m]
    /\ \A k, m \in Nat : b < k /\ k <= b + nl /\ m + b = k + na => j[m] = w[k]
    /\ \A k, m \in Nat : 1 <= k /\ k <= nc /\ m = k + na + nl => j[m] = c[k]

LEMMA ThreeParts ==
    ASSUME NEW T, NEW a \in Seq(T), NEW w \in Seq(T), NEW c \in Seq(T),
           NEW b \in Nat, b <= Len(w), NEW j, j = a \o SubSeq(w, b + 1, Len(w)) \o c
    PROVE  \E na, nl, nc \in Nat : Parts(a, w, c, b, j, na, nl, nc)
<1> DEFINE l == SubSeq(w, b + 1, Len(w))
<1>1. PICK na \in Nat, nw \in Nat, nc \in Nat, nl \in Nat :
         na = Len(a) /\ nw = Len(w) /\ nc = Len(c) /\ nl = nw - b
      BY LenProperties
<1>2. /\ l \in Seq(T) /\ Len(l) = nl
      /\ \A k \in 1 .. nl : l[k] = w[b + k]
  <2>1. /\ b + 1 \in Int /\ nw \in Int
        /\ \A k \in (b + 1) .. nw : w[k] \in T
    <3>1. \A k \in (b + 1) .. nw : k \in 1 .. Len(w)
          BY <1>1
    <3> QED BY <3>1, ElementOfSeq
  <2>2. /\ l \in Seq(T)
        /\ Len(l) = IF b + 1 <= nw THEN nw - (b + 1) + 1 ELSE 0
        /\ \A k \in 1 .. nw - (b + 1) + 1 : l[k] = w[(b + 1) + k - 1]
        BY <1>1, <2>1, SubSeqProperties
  <2> HIDE DEF l
  <2>3. Len(l) = nl  BY <1>1, <2>2
  <2>4. ASSUME NEW k \in 1 .. nl PROVE l[k] = w[b + k]
    <3>1. k \in 1 .. nw - (b + 1) + 1 /\ (b + 1) + k - 1 = b + k  BY <1>1
    <3> QED BY <2>2, <3>1
  <2> QED BY <2>2, <2>3, <2>4
<1>0. j = (a \o l) \o c  OBVIOUS
<1>3. nl = Len(SubSeq(w, b + 1, Len(w)))  BY <1>2
<1> HIDE DEF l
<1>4. /\ a \o l \in Seq(T) /\ Len(a \o l) = na + nl
      /\ \A k \in 1 .. na + nl : (a \o l)[k] = IF k <= na THEN a[k] ELSE l[k - na]
  <2>1. /\ a \o l \in Seq(T) /\ Len(a \o l) = Len(a) + Len(l)
        /\ \A k \in 1 .. Len(a) + Len(l) :
              (a \o l)[k] = IF k <= Len(a) THEN a[k] ELSE l[k - Len(a)]
        BY <1>2, ConcatProperties
  <2> QED BY <1>1, <1>2, <2>1
<1>5. /\ Len(j) = na + nl + nc
      /\ \A k \in 1 .. na + nl + nc :
            j[k] = IF k <= na + nl THEN (a \o l)[k] ELSE c[k - (na + nl)]
  <2> DEFINE x == a \o l
  <2>2. x \in Seq(T) /\ j = x \o c  BY <1>0, <1>4
  <2> HIDE DEF x
  <2>3. /\ Len(x \o c) = Len(x) + Len(c)
        /\ \A k \in 1 .. Len(x) + Len(c) :
              (x \o c)[k] = IF k <= Len(x) THEN x[k] ELSE c[k - Len(x)]
        BY <2>2, ConcatProperties
  <2>1. /\ Len(j) = Len(a \o l) + Len(c)
        /\ \A k \in 1 .. Len(a \o l) + Len(c) :
              j[k] = IF k <= Len(a \o l) THEN (a \o l)[k] ELSE c[k - Len(a \o l)]
        BY <2>2, <2>3 DEF x
  <2> QED BY <1>1, <1>4, <2>1
<1>6. ASSUME NEW m \in 1 .. na PROVE j[m] = a[m]
  <2>1. m \in 1 .. na + nl + nc /\ m \in 1 .. na + nl /\ m <= na + nl /\ m <= na  BY <1>1
  <2> QED BY <1>4, <1>5, <2>1
<1>7. ASSUME NEW k \in Nat, NEW m \in Nat, b < k, k <= b + nl, m + b = k + na
      PROVE  j[m] = w[k]
  <2>1. /\ m \in 1 .. na + nl + nc /\ m \in 1 .. na + nl /\ m <= na + nl /\ ~ (m <= na)
        /\ m - na \in 1 .. nl /\ b + (m - na) = k
        BY <1>1, <1>7
  <2>2. j[m] = l[m - na]  BY <1>4, <1>5, <2>1
  <2> QED BY <1>2, <2>1, <2>2
<1>8. ASSUME NEW k \in Nat, NEW m \in Nat, 1 <= k, k <= nc, m = k + na + nl
      PROVE  j[m] = c[k]
  <2>1. m \in 1 .. na + nl + nc /\ ~ (m <= na + nl) /\ m - (na + nl) = k
        BY <1>1, <1>8
  <2>2. j[m] = c[m - (na + nl)]  BY <1>5, <2>1
  <2> QED BY <2>1, <2>2
<1>9. /\ DOMAIN a = 1 .. na /\ DOMAIN c = 1 .. nc /\ Len(w) = b + nl
      /\ DOMAIN w = 1 .. b + nl
  <2>1. Len(w) = b + nl  BY <1>1
  <2>2. DOMAIN a = 1 .. Len(a) /\ DOMAIN c = 1 .. Len(c) /\ DOMAIN w = 1 .. Len(w)
        BY LenProperties
  <2>3. DOMAIN a = 1 .. na /\ DOMAIN c = 1 .. nc  BY <1>1, <2>2
  <2>4. DOMAIN w = 1 .. b + nl  BY <2>1, <2>2
  <2> QED BY <2>1, <2>3, <2>4
<1>10. Parts(a, w, c, b, j, na, nl, nc)
       BY <1>1, <1>3, <1>5, <1>6, <1>7, <1>8, <1>9, Zenon DEF Parts
<1> QED BY <1>10

JoinedAs(p, na, nl, nc, b) ==
    /\ b = bsize[p]
    /\ Parts(buf[p][ridx], buf[p][widx], sieve[p][ridx], b, Joined(p), na, nl, nc)

LEMMA JoinedParts ==
    ASSUME IInv, phase = "host", NEW p \in Pipe
    PROVE  \E na, nl, nc, b \in Nat : JoinedAs(p, na, nl, nc, b)
<1>1. PICK a \in Seq(Cand), w \in Seq(Cand), c \in Seq(Cand), b \in Nat, j \in {Joined(p)} :
         /\ a = buf[p][ridx] /\ w = buf[p][widx] /\ c = sieve[p][ridx] /\ b = bsize[p]
         /\ j = Joined(p)
         /\ b <= Len(w) /\ j = a \o SubSeq(w, b + 1, Len(w)) \o c
  <2>1. /\ buf[p][ridx] \in Seq(Cand) /\ buf[p][widx] \in Seq(Cand)
        /\ sieve[p][ridx] \in Seq(Cand) /\ bsize[p] \in Nat
        BY Parity DEF IInv, TypeOK
  <2>2. bsize[p] <= Len(buf[p][widx])
        BY DEF IInv, DispatchInBounds
  <2> QED BY <2>1, <2>2 DEF Left, Joined
<1>2. PICK na \in Nat, nl \in Nat, nc \in Nat : Parts(a, w, c, b, j, na, nl, nc)
      BY <1>1, ThreeParts
<1> QED BY <1>1, <1>2 DEF JoinedAs

\* What JoinedAs says, a part at a time.
LEMMA JoinedFacts ==
    ASSUME NEW p, NEW na, NEW nl, NEW nc, NEW b, JoinedAs(p, na, nl, nc, b)
    PROVE  /\ na = Len(buf[p][ridx]) /\ nl = Len(Left(p)) /\ b = bsize[p]
           /\ Len(Joined(p)) = na + nl + nc
           /\ DOMAIN buf[p][ridx] = 1 .. na /\ DOMAIN buf[p][widx] = 1 .. b + nl
           /\ DOMAIN sieve[p][ridx] = 1 .. nc
BY DEF JoinedAs, Parts, Left

LEMMA OldEntries ==
    ASSUME NEW p \in Pipe, NEW na \in Nat, NEW nl \in Nat, NEW nc \in Nat, NEW b \in Nat,
           JoinedAs(p, na, nl, nc, b), NEW k \in 1 .. na
    PROVE  Joined(p)[k] = buf[p][ridx][k]
BY DEF JoinedAs, Parts

LEMMA NewEntries ==
    ASSUME NEW p \in Pipe, NEW na \in Nat, NEW nl \in Nat, NEW nc \in Nat, NEW b \in Nat,
           JoinedAs(p, na, nl, nc, b)
    PROVE  /\ \A k, m \in Nat : b < k /\ k <= b + nl /\ m + b = k + na
                                  => Joined(p)[m] = buf[p][widx][k]
           /\ \A k, m \in Nat : 1 <= k /\ k <= nc /\ m = k + na + nl
                                  => Joined(p)[m] = sieve[p][ridx][k]
BY DEF JoinedAs, Parts

LEMMA OriginWaits ==
    ASSUME IInv, phase = "host", NEW p \in Pipe, NEW k \in 1 .. Len(Joined(p))
    PROVE  /\ OriginStore(p, k) \in Store /\ OriginList(p, k) \in {0, 1}
           /\ OriginPos(p, k) \in Waiting(OriginStore(p, k), p, OriginList(p, k))
           /\ Joined(p)[k] = Entry(OriginStore(p, k), p, OriginList(p, k), OriginPos(p, k))
           /\ ~ (OriginStore(p, k) = "sieve" /\ OriginList(p, k) = widx)
<1>1. /\ ridx \in {0, 1} /\ widx \in {0, 1} /\ ridx # widx
      BY Parity DEF IInv
<1>2. PICK na \in Nat, nl \in Nat, nc \in Nat, b \in Nat : JoinedAs(p, na, nl, nc, b)
      BY JoinedParts
<1>3. /\ na = Len(buf[p][ridx]) /\ nl = Len(Left(p)) /\ b = bsize[p]
      /\ Len(Joined(p)) = na + nl + nc
      /\ DOMAIN buf[p][ridx] = 1 .. na /\ DOMAIN buf[p][widx] = 1 .. b + nl
      /\ DOMAIN sieve[p][ridx] = 1 .. nc
      BY <1>2, JoinedFacts
<1>4. k \in 1 .. na + nl + nc
      BY <1>3
<1>5. k \in Nat /\ 1 <= k /\ k <= na + nl + nc
      BY <1>2, <1>4
<1>6. \A i, m : Tested(p, i, m) => i = widx /\ m <= b
      BY <1>3 DEF Tested
<1>10. /\ \A x, y \in Nat : b < x /\ x <= b + nl /\ y + b = x + na
                              => Joined(p)[y] = buf[p][widx][x]
       /\ \A x, y \in Nat : 1 <= x /\ x <= nc /\ y = x + na + nl
                              => Joined(p)[y] = sieve[p][ridx][x]
       BY <1>2, NewEntries
<1>7. CASE k <= na
  <2>1. OriginStore(p, k) = "buf" /\ OriginList(p, k) = ridx /\ OriginPos(p, k) = k
    <3>1. k <= na + nl  BY <1>2, <1>5, <1>7
    <3> QED BY <1>3, <1>7, <3>1 DEF OriginStore, OriginList, OriginPos
  <2>2. k \in 1 .. na  BY <1>2, <1>5, <1>7
  <2>3. k \in Waiting("buf", p, ridx)
        BY <1>1, <1>3, <1>6, <2>2 DEF Waiting
  <2>4. Joined(p)[k] = buf[p][ridx][k]
        BY <1>2, <2>2, OldEntries
  <2> QED BY <1>1, <2>1, <2>3, <2>4 DEF Store, Entry
<1>8. CASE ~ (k <= na) /\ k <= na + nl
  <2>1. PICK m \in Nat : k + b = m + na
    <3>1. k - na + b \in Nat /\ k + b = (k - na + b) + na
          BY <1>2, <1>5, <1>8
    <3> QED BY <3>1
  <2>2. m = k - na + b /\ b < m /\ m <= b + nl /\ m \in 1 .. b + nl /\ ~ (m <= b)
        BY <1>2, <1>5, <1>8, <2>1
  <2>3. OriginStore(p, k) = "buf" /\ OriginList(p, k) = widx /\ OriginPos(p, k) = m
    <3>1. k > na  BY <1>2, <1>5, <1>8
    <3> QED BY <1>3, <1>8, <2>2, <3>1 DEF OriginStore, OriginList, OriginPos
  <2>4. m \in Waiting("buf", p, widx)
        BY <1>1, <1>3, <1>6, <2>2 DEF Waiting
  <2>5. Joined(p)[k] = buf[p][widx][m]
        BY <1>5, <1>10, <2>1, <2>2
  <2> QED BY <1>1, <2>3, <2>4, <2>5 DEF Store, Entry
<1>9. CASE ~ (k <= na + nl)
  <2>1. PICK m \in Nat : m + na + nl = k
    <3>1. k - na - nl \in Nat /\ (k - na - nl) + na + nl = k
          BY <1>2, <1>5, <1>9
    <3> QED BY <3>1
  <2>2. /\ m = k - na - nl /\ 1 <= m /\ m <= nc /\ m \in 1 .. nc /\ ~ (k <= na)
        /\ k = m + na + nl
        BY <1>2, <1>5, <1>9, <2>1
  <2>3. OriginStore(p, k) = "sieve" /\ OriginList(p, k) = ridx /\ OriginPos(p, k) = m
        BY <1>3, <1>9, <2>2 DEF OriginStore, OriginList, OriginPos
  <2>4. m \in Waiting("sieve", p, ridx)
        BY <1>3, <2>2 DEF Waiting
  <2>5. Joined(p)[k] = sieve[p][ridx][m]
        BY <1>5, <1>10, <2>1, <2>2
  <2> QED BY <1>1, <2>3, <2>4, <2>5 DEF Store, Entry
<1> QED BY <1>7, <1>8, <1>9

LEMMA OriginUnique ==
    ASSUME IInv, phase = "host", NEW p \in Pipe,
           NEW k \in 1 .. Len(Joined(p)), NEW l \in 1 .. Len(Joined(p)),
           OriginStore(p, k) = OriginStore(p, l), OriginList(p, k) = OriginList(p, l),
           OriginPos(p, k) = OriginPos(p, l)
    PROVE  k = l
<1>1. PICK na \in Nat, nl \in Nat, nc \in Nat, b \in Nat : JoinedAs(p, na, nl, nc, b)
      BY JoinedParts
<1>2. /\ na = Len(buf[p][ridx]) /\ nl = Len(Left(p)) /\ b = bsize[p]
      /\ Len(Joined(p)) = na + nl + nc
      BY <1>1, JoinedFacts
<1>3. ridx # widx /\ k \in 1 .. na + nl + nc /\ l \in 1 .. na + nl + nc
      BY <1>2, Parity DEF IInv
<1>4. k \in Nat /\ l \in Nat
      BY <1>3
<1>5. CASE OriginStore(p, k) = "sieve"
  <2>1. ~ (k <= na + nl) /\ ~ (l <= na + nl)
        BY <1>2, <1>5 DEF OriginStore
  <2>2. OriginPos(p, k) = k - na - nl /\ OriginPos(p, l) = l - na - nl
        BY <1>2, <1>4, <2>1 DEF OriginPos
  <2>3. k - na - nl = l - na - nl
        BY <2>2
  <2>4. na \in Int /\ nl \in Int
        BY <1>1
  <2> QED BY <1>4, <2>3, <2>4
<1>6. CASE OriginStore(p, k) # "sieve" /\ OriginList(p, k) = ridx
  <2>1. k <= na /\ l <= na
        BY <1>2, <1>3, <1>4, <1>6 DEF OriginStore, OriginList
  <2> QED BY <1>2, <1>4, <2>1 DEF OriginPos
<1>7. CASE OriginStore(p, k) # "sieve" /\ OriginList(p, k) # ridx
  <2>1. /\ ~ (k <= na) /\ k <= na + nl /\ ~ (l <= na) /\ l <= na + nl
        BY <1>2, <1>3, <1>4, <1>7 DEF OriginStore, OriginList
  <2>2. OriginPos(p, k) = k - na + b /\ OriginPos(p, l) = l - na + b
        BY <1>2, <2>1 DEF OriginPos
  <2>3. k - na + b = l - na + b
        BY <2>2
  <2>4. na \in Int /\ b \in Int
        BY <1>1
  <2> QED BY <1>4, <2>3, <2>4
<1> QED BY <1>5, <1>6, <1>7

LEMMA OriginOnto ==
    ASSUME IInv, phase = "host", NEW p \in Pipe,
           NEW s \in Store, NEW i \in {0, 1}, NEW k \in Waiting(s, p, i),
           ~ (s = "sieve" /\ i = widx)
    PROVE  \E l \in 1 .. Len(Joined(p)) : Joined(p)[l] = Entry(s, p, i, k)
<1>1. /\ ridx \in {0, 1} /\ widx \in {0, 1} /\ ridx # widx /\ (i = ridx \/ i = widx)
      BY Parity DEF IInv, TypeOK, ridx, widx
<1>2. PICK na \in Nat, nl \in Nat, nc \in Nat, b \in Nat : JoinedAs(p, na, nl, nc, b)
      BY JoinedParts
<1>3. /\ b = bsize[p] /\ Len(Joined(p)) = na + nl + nc
      /\ DOMAIN buf[p][ridx] = 1 .. na /\ DOMAIN buf[p][widx] = 1 .. b + nl
      /\ DOMAIN sieve[p][ridx] = 1 .. nc
      BY <1>2, JoinedFacts
<1>4. ASSUME NEW m \in Nat, 1 <= m, m <= na + nl + nc, Joined(p)[m] = Entry(s, p, i, k)
      PROVE  \E l \in 1 .. Len(Joined(p)) : Joined(p)[l] = Entry(s, p, i, k)
  <2>1. m \in 1 .. na + nl + nc
        BY <1>2, <1>4
  <2> QED BY <1>3, <1>4, <2>1
<1>10. /\ \A x, y \in Nat : b < x /\ x <= b + nl /\ y + b = x + na
                              => Joined(p)[y] = buf[p][widx][x]
       /\ \A x, y \in Nat : 1 <= x /\ x <= nc /\ y = x + na + nl
                              => Joined(p)[y] = sieve[p][ridx][x]
       BY <1>2, NewEntries
<1>5. CASE s = "buf" /\ i = ridx
  <2>1. k \in 1 .. na /\ Entry(s, p, i, k) = buf[p][ridx][k]
        BY <1>3, <1>5 DEF Waiting, Entry
  <2>2. k \in Nat /\ 1 <= k /\ k <= na + nl + nc
        BY <1>2, <2>1
  <2>3. Joined(p)[k] = buf[p][ridx][k]
        BY <1>2, <2>1, OldEntries
  <2> QED BY <1>4, <2>1, <2>2, <2>3
<1>6. CASE s = "buf" /\ i = widx
  <2>1. k \in 1 .. b + nl /\ Entry(s, p, i, k) = buf[p][widx][k] /\ ~ Tested(p, widx, k)
        BY <1>3, <1>6 DEF Waiting, Entry
  <2>2. ~ (k <= b)
        BY <1>1, <1>3, <2>1 DEF Tested
  <2>3. PICK m \in Nat : m + b = k + na
    <3>1. k - b + na \in Nat /\ (k - b + na) + b = k + na
          BY <1>2, <2>1, <2>2
    <3> QED BY <3>1
  <2>4. k \in Nat /\ b < k /\ k <= b + nl /\ 1 <= m /\ m <= na + nl + nc
        BY <1>2, <2>1, <2>2, <2>3
  <2>5. Joined(p)[m] = buf[p][widx][k]
        BY <1>10, <2>3, <2>4
  <2> QED BY <1>4, <2>1, <2>3, <2>4, <2>5
<1>7. CASE s = "sieve" /\ i = ridx
  <2>1. k \in 1 .. nc /\ Entry(s, p, i, k) = sieve[p][ridx][k]
        BY <1>3, <1>7 DEF Waiting, Entry
  <2>2. PICK m \in Nat : m = k + na + nl
        BY <1>2, <2>1
  <2>3. k \in Nat /\ 1 <= k /\ k <= nc /\ 1 <= m /\ m <= na + nl + nc
        BY <1>2, <2>1, <2>2
  <2>4. Joined(p)[m] = sieve[p][ridx][k]
        BY <1>10, <2>2, <2>3
  <2> QED BY <1>4, <2>1, <2>2, <2>3, <2>4
<1> QED BY <1>1, <1>5, <1>6, <1>7 DEF Store

LEMMA DispatchKept ==
    ASSUME IInv, Kept, Dispatch
    PROVE  Kept'
<1>1. PICK r \in {0, 1}, w \in {0, 1} : r = ridx /\ w = widx /\ r # w
      BY Parity DEF IInv
<1>2. /\ TypeOK /\ phase = "host" /\ phase' = "device"
      /\ UNCHANGED <<parity, ran, passed>> /\ r = ridx' /\ w = widx'
      /\ final' = << >> /\ live' = live \ {final[m].id : m \in 1 .. Len(final)}
      /\ \A p \in Pipe : ran[p] = {}
      BY <1>1 DEF IInv, Dispatch, Kept, NoneRuns, ridx, widx
<1>3. ASSUME NEW p \in Pipe
      PROVE  /\ buf'[p][r] = Joined(p) /\ buf'[p][w] = << >>
             /\ sieve'[p][r] = << >> /\ sieve'[p][w] = sieve[p][w]
             /\ DOMAIN Joined(p) = 1 .. Len(Joined(p))
  <2>1. /\ buf'[p] = [buf[p] EXCEPT ![r] = Joined(p), ![w] = << >>]
        /\ sieve'[p] = [sieve[p] EXCEPT ![r] = << >>]
        /\ DOMAIN buf[p] = {0, 1} /\ DOMAIN sieve[p] = {0, 1}
        BY <1>1, <1>2 DEF Dispatch, TypeOK
  <2>2. DOMAIN Joined(p) = 1 .. Len(Joined(p))
        BY <1>2, JoinedType, LenProperties
  <2> QED BY <1>1, <2>1, <2>2
<1>4. ASSUME NEW p \in Pipe
      PROVE  /\ Waiting("buf", p, r)' = 1 .. Len(Joined(p))
             /\ Waiting("buf", p, w)' = {} /\ Waiting("sieve", p, r)' = {}
             /\ Waiting("sieve", p, w)' = Waiting("sieve", p, w)
             /\ \A k : Entry("buf", p, r, k)' = Joined(p)[k]
             /\ \A k : Entry("sieve", p, w, k)' = Entry("sieve", p, w, k)
  <2>1. \A i, k : ~ Tested(p, i, k)'
        BY <1>2 DEF Tested
  <2> QED BY <1>1, <1>3, <2>1 DEF Waiting, Entry
<1>5. ASSUME NEW p \in Pipe, NEW k \in 1 .. Len(Joined(p))
      PROVE  /\ OriginStore(p, k) \in Store /\ OriginList(p, k) \in {0, 1}
             /\ OriginPos(p, k) \in Waiting(OriginStore(p, k), p, OriginList(p, k))
             /\ Joined(p)[k] = Entry(OriginStore(p, k), p, OriginList(p, k), OriginPos(p, k))
             /\ ~ (OriginStore(p, k) = "sieve" /\ OriginList(p, k) = w)
      BY <1>1, <1>2, OriginWaits
\* The spots after the step are those of the joined list and of the sieve's other list.
<1>6. ASSUME NEW s \in Store, NEW p \in Pipe, NEW i \in {0, 1}, NEW k \in Waiting(s, p, i)'
      PROVE  \/ /\ s = "buf" /\ i = r /\ k \in 1 .. Len(Joined(p))
                /\ Entry(s, p, i, k)' = Joined(p)[k]
             \/ /\ s = "sieve" /\ i = w /\ k \in Waiting("sieve", p, w)
                /\ Entry(s, p, i, k)' = Entry("sieve", p, w, k)
      BY <1>1, <1>4 DEF Store
<1>7. OneSpot'
  <2>1. ASSUME NEW p \in Pipe, NEW q \in Pipe,
               NEW k \in 1 .. Len(Joined(p)), NEW l \in 1 .. Len(Joined(q)),
               Joined(p)[k].id = Joined(q)[l].id
        PROVE  p = q /\ k = l
    <3>1. /\ OriginStore(p, k) = OriginStore(q, l) /\ p = q
          /\ OriginList(p, k) = OriginList(q, l) /\ OriginPos(p, k) = OriginPos(q, l)
          BY <1>5, <2>1 DEF Kept, OneSpot
    <3> QED BY <1>2, <3>1, OriginUnique
  <2>2. ASSUME NEW p \in Pipe, NEW q \in Pipe,
               NEW k \in 1 .. Len(Joined(p)), NEW l \in Waiting("sieve", q, w)
        PROVE  Joined(p)[k].id # Entry("sieve", q, w, l).id
    <3>1. "sieve" \in Store  BY DEF Store
    <3> QED BY <1>5, <3>1 DEF Kept, OneSpot
  <2>3. ASSUME NEW p \in Pipe, NEW q \in Pipe,
               NEW k \in Waiting("sieve", p, w), NEW l \in Waiting("sieve", q, w),
               Entry("sieve", p, w, k).id = Entry("sieve", q, w, l).id
        PROVE  p = q /\ k = l
    <3>1. "sieve" \in Store  BY DEF Store
    <3> QED BY <2>3, <3>1 DEF Kept, OneSpot
  <2> SUFFICES ASSUME NEW s \in Store, NEW t \in Store, NEW p \in Pipe, NEW q \in Pipe,
                      NEW i \in {0, 1}, NEW j \in {0, 1},
                      NEW k \in Waiting(s, p, i)', NEW l \in Waiting(t, q, j)',
                      Entry(s, p, i, k)'.id = Entry(t, q, j, l)'.id
               PROVE  s = t /\ p = q /\ i = j /\ k = l
      BY DEF OneSpot
  <2>4. CASE s = "buf" /\ t = "buf"  BY <1>6, <2>1, <2>4
  <2>5. CASE s = "buf" /\ t = "sieve"  BY <1>6, <2>2, <2>5
  <2>6. CASE s = "sieve" /\ t = "buf"  BY <1>6, <2>2, <2>6
  <2>7. CASE s = "sieve" /\ t = "sieve"  BY <1>6, <2>3, <2>7
  <2> QED BY <2>4, <2>5, <2>6, <2>7 DEF Store
<1>8. NotFinal' /\ FinalOnce'
  <2>1. DOMAIN final' = {}  BY <1>2
  <2> QED BY <2>1 DEF NotFinal, FinalOnce
<1>9. LiveWaits'
  <2> SUFFICES ASSUME NEW x \in Id
               PROVE  x \in live' <=> AtSpot(x)' \/ AtFinal(x)'
      BY DEF LiveWaits
  <2>1. ~ AtFinal(x)'
        BY <1>2 DEF AtFinal
  <2>2. x \in live' <=> x \in live /\ ~ AtFinal(x)
    <3>1. DOMAIN final = 1 .. Len(final)
          BY <1>2, LenProperties DEF TypeOK
    <3> QED BY <1>2, <3>1 DEF AtFinal
  <2>3. ASSUME AtSpot(x) PROVE AtSpot(x)'
    <3>1. PICK s \in Store, p \in Pipe, i \in {0, 1} :
             \E k \in Waiting(s, p, i) : Entry(s, p, i, k).id = x
          BY <2>3 DEF AtSpot
    <3>2. PICK k \in Waiting(s, p, i) : Entry(s, p, i, k).id = x
          BY <3>1
    <3>3. CASE s = "sieve" /\ i = w
          BY <1>4, <3>2, <3>3 DEF AtSpot
    <3>4. CASE ~ (s = "sieve" /\ i = w)
      <4>1. PICK l \in 1 .. Len(Joined(p)) : Joined(p)[l] = Entry(s, p, i, k)
            BY <1>1, <1>2, <3>4, OriginOnto
      <4>2. "buf" \in Store /\ l \in Waiting("buf", p, r)' /\ Entry("buf", p, r, l)'.id = x
            BY <1>4, <3>2, <4>1 DEF Store
      <4> QED BY <4>2 DEF AtSpot
    <3> QED BY <3>3, <3>4
  <2>4. ASSUME AtSpot(x)' PROVE AtSpot(x) /\ ~ AtFinal(x)
    <3>1. PICK s \in Store, p \in Pipe, i \in {0, 1} :
             \E k \in Waiting(s, p, i)' : Entry(s, p, i, k)'.id = x
          BY <2>4 DEF AtSpot
    <3>2. PICK k \in Waiting(s, p, i)' : Entry(s, p, i, k)'.id = x
          BY <3>1
    <3>3. \E t \in Store, j \in {0, 1} : \E l \in Waiting(t, p, j) : Entry(t, p, j, l).id = x
          BY <1>5, <1>6, <3>2
    <3> QED BY <3>3 DEF AtSpot, AtFinal, Kept, NotFinal
  <2> QED BY <2>1, <2>2, <2>3, <2>4 DEF Kept, LiveWaits
<1>10. ChainposTrue'
  <2>1. ASSUME NEW s \in Store, NEW p \in Pipe, NEW i \in {0, 1}, NEW k \in Waiting(s, p, i)'
        PROVE  passed'[Entry(s, p, i, k)'.id] = Entry(s, p, i, k)'.chainpos
    <3>1. \E t \in Store, j \in {0, 1} : \E l \in Waiting(t, p, j) :
             Entry(s, p, i, k)' = Entry(t, p, j, l)
          BY <1>5, <1>6
    <3> QED BY <1>2, <3>1 DEF Kept, ChainposTrue
  <2>2. DOMAIN final' = {}  BY <1>2
  <2> QED BY <2>1, <2>2 DEF ChainposTrue
<1>11. NoneRuns'
      BY <1>2 DEF NoneRuns
<1> QED BY <1>7, <1>8, <1>9, <1>10, <1>11 DEF Kept

LEMMA NextKept == IInv /\ Kept /\ [Next]_vars => Kept'
<1> SUFFICES ASSUME IInv, Kept, [Next]_vars PROVE Kept'
    OBVIOUS
<1>1. CASE Dispatch  BY <1>1, DispatchKept
<1>2. CASE Reset  BY <1>2, ResetKept
<1>3. CASE Finish  BY <1>3, FinishKept
<1>4. ASSUME NEW p \in Pipe, NEW id \in Id, SieveFinds(p, id) PROVE Kept'
      BY <1>4, SieveFindsKept
<1>5. ASSUME NEW p \in Pipe, NEW i \in 1 .. bsize[p], NEW prime \in BOOLEAN,
             TestItem(p, i, prime)
      PROVE Kept'
      BY <1>5, TestItemKept
<1>6. CASE UNCHANGED vars
      BY <1>6 DEF vars, Kept, OneSpot, NotFinal, FinalOnce, LiveWaits, AtSpot, AtFinal,
         ChainposTrue, NoneRuns, Waiting, Entry, Tested, ridx, widx
<1> QED BY <1>1, <1>2, <1>3, <1>4, <1>5, <1>6 DEF Next

LEMMA AlwaysKept == Spec => []Kept
BY InitKept, NextKept, AlwaysIInv, PTL DEF Spec

-----------------------------------------------------------------------------
(* From the spots to the places that EachCandidateOnce counts.             *)

LEMMA PlacesAreSpots ==
    ASSUME NEW id \in Id, NEW x
    PROVE  x \in Places(id) <=>
              \/ \E s \in Store, p \in Pipe, i \in {0, 1} : \E k \in Waiting(s, p, i) :
                    Entry(s, p, i, k).id = id /\ x = <<s, p, i, k>>
              \/ \E m \in DOMAIN final : final[m].id = id /\ x = <<"final", m>>
<1>1. x \in Places(id) <=>
         \/ \E p \in Pipe, i \in {0, 1} : \E k \in DOMAIN buf[p][i] :
               buf[p][i][k].id = id /\ ~ Tested(p, i, k) /\ x = <<"buf", p, i, k>>
         \/ \E p \in Pipe, i \in {0, 1} : \E k \in DOMAIN sieve[p][i] :
               sieve[p][i][k].id = id /\ x = <<"sieve", p, i, k>>
         \/ \E m \in DOMAIN final : final[m].id = id /\ x = <<"final", m>>
  <2>1. x \in Places(id) <=>
           \/ \E p \in Pipe, i \in {0, 1} : x \in InBuf(id, p, i) \/ x \in InSieve(id, p, i)
           \/ x \in InFinal(id)
    <3> DEFINE A == (UNION {InLists(id, p, i) : p \in Pipe, i \in {0, 1}})
    <3>3. Places(id) = A \cup InFinal(id)
          BY DEF Places
    <3>4. x \in A <=> \E p \in Pipe, i \in {0, 1} : x \in InLists(id, p, i)
          OBVIOUS
    <3> HIDE DEF A
    <3>1. x \in Places(id) <=> (\E p \in Pipe, i \in {0, 1} : x \in InLists(id, p, i))
                                  \/ x \in InFinal(id)
          BY <3>3, <3>4
    <3>2. \A p, i : x \in InLists(id, p, i) <=> x \in InBuf(id, p, i) \/ x \in InSieve(id, p, i)
          BY DEF InLists
    <3> QED BY <3>1, <3>2
  <2>2. ASSUME NEW p \in Pipe, NEW i \in {0, 1}
        PROVE  /\ x \in InBuf(id, p, i) <=> \E k \in DOMAIN buf[p][i] :
                     buf[p][i][k].id = id /\ ~ Tested(p, i, k) /\ x = <<"buf", p, i, k>>
               /\ x \in InSieve(id, p, i) <=> \E k \in DOMAIN sieve[p][i] :
                     sieve[p][i][k].id = id /\ x = <<"sieve", p, i, k>>
        BY DEF InBuf, InSieve
  <2>3. x \in InFinal(id) <=> \E m \in DOMAIN final : final[m].id = id /\ x = <<"final", m>>
        BY DEF InFinal
  <2> QED BY <2>1, <2>2, <2>3
<1>2. (\E s \in Store, p \in Pipe, i \in {0, 1} : \E k \in Waiting(s, p, i) :
          Entry(s, p, i, k).id = id /\ x = <<s, p, i, k>>)
      <=> \/ \E p \in Pipe, i \in {0, 1} : \E k \in DOMAIN buf[p][i] :
               buf[p][i][k].id = id /\ ~ Tested(p, i, k) /\ x = <<"buf", p, i, k>>
          \/ \E p \in Pipe, i \in {0, 1} : \E k \in DOMAIN sieve[p][i] :
               sieve[p][i][k].id = id /\ x = <<"sieve", p, i, k>>
      BY DEF Store, Waiting, Entry
<1> QED BY <1>1, <1>2

LEMMA KeptSuffices == TypeOK /\ Kept => EachCandidateOnce /\ FinalPassedAllTests
<1> SUFFICES ASSUME TypeOK, Kept PROVE EachCandidateOnce /\ FinalPassedAllTests
    OBVIOUS
<1>1. ASSUME NEW id \in Id
      PROVE  Cardinality(Places(id)) = IF id \in live THEN 1 ELSE 0
  <2>1. \A x, y \in Places(id) : x = y
        BY PlacesAreSpots DEF Kept, OneSpot, NotFinal, FinalOnce
  <2>2. Places(id) # {} <=> id \in live
    <3>1. (\E x : x \in Places(id)) <=> AtSpot(id) \/ AtFinal(id)
      <4>1. ASSUME AtSpot(id) PROVE \E x : x \in Places(id)
        <5>1. PICK s \in Store, p \in Pipe, i \in {0, 1} :
                 \E k \in Waiting(s, p, i) : Entry(s, p, i, k).id = id
              BY <4>1 DEF AtSpot
        <5>2. PICK k \in Waiting(s, p, i) : Entry(s, p, i, k).id = id
              BY <5>1
        <5>3. <<s, p, i, k>> \in Places(id)
              BY <5>2, PlacesAreSpots
        <5> QED BY <5>3
      <4>2. ASSUME AtFinal(id) PROVE \E x : x \in Places(id)
            BY <4>2, PlacesAreSpots DEF AtFinal
      <4>3. ASSUME NEW x \in Places(id) PROVE AtSpot(id) \/ AtFinal(id)
            BY <4>3, PlacesAreSpots DEF AtSpot, AtFinal
      <4> QED BY <4>1, <4>2, <4>3
    <3> QED BY <3>1 DEF Kept, LiveWaits
  <2>3. CASE id \in live
    <3>1. PICK x : Places(id) = {x}
          BY <2>1, <2>2, <2>3
    <3> QED BY <2>3, <3>1, FS_Singleton
  <2>4. CASE id \notin live
        BY <2>2, <2>4, FS_EmptySet
  <2> QED BY <2>3, <2>4
<1>2. ASSUME NEW m \in DOMAIN final
      PROVE  passed[final[m].id] = Depth
  <2>1. final[m] \in Proven
    <3>1. final \in Seq(Proven) /\ m \in 1 .. Len(final)
          BY LenProperties DEF TypeOK
    <3> QED BY <3>1, ElementOfSeq
  <2> QED BY <2>1 DEF Proven, Kept, ChainposTrue
<1> QED BY <1>1, <1>2 DEF EachCandidateOnce, FinalPassedAllTests

\* Whatever the kernels decide and in whichever order they end, the copies between
\* the two buffers (FermatDispatch) neither lose nor double a candidate, and a
\* reset leaves none: each one found by a sieve waits in one place until it fails
\* or is delivered.
THEOREM NoneLostOrDoubled == Spec => []EachCandidateOnce
BY AlwaysIInv, AlwaysKept, KeptSuffices, PTL DEF IInv

\* What check_fermat puts into `final' has passed Depth tests since its sieve
\* found it, through however many dispatches and swaps of the buffers it waited.
THEOREM FinalFullyTested == Spec => []FinalPassedAllTests
BY AlwaysIInv, AlwaysKept, KeptSuffices, PTL DEF IInv
=============================================================================
