-------------------------- MODULE PrimeMining_proofs --------------------------
(***************************************************************************)
(* Proofs about HashRing, PrimeMining and NonceSpace, for every size of the*)
(* ring, any number of pipelines, threads and works, every batch size and  *)
(* every sieve output: the ring is a bounded queue whose released slots    *)
(* keep their hashes for long enough, it has always room for what is found,*)
(* all stages work on the header in use, and no header is ever hashed      *)
(* twice, by one thread or by two.                                         *)
(***************************************************************************)
EXTENDS HashRing, PrimeMining, NonceSpace, FiniteSets, SequenceTheorems, LoopTheorems

-----------------------------------------------------------------------------
(* The ring.                                                               *)

\* NextPos without the modulus.
LEMMA NextPosValue ==
    ASSUME NEW pos \in Slots
    PROVE  /\ NextPos(pos) = IF pos = Size - 1 THEN 0 ELSE pos + 1
           /\ NextPos(pos) \in Slots
<1> USE SizeAssumption DEF Slots
<1>1. CASE pos = Size - 1
  <2>1. pos + 1 = Size  BY <1>1
  <2>2. Size % Size = 0  OBVIOUS
  <2> QED BY <1>1, <2>1, <2>2 DEF NextPos
<1>2. CASE pos # Size - 1
  <2>1. pos + 1 \in 0 .. (Size - 1)  BY <1>2
  <2>2. (pos + 1) % Size = pos + 1  BY <2>1
  <2> QED BY <1>2, <2>1, <2>2 DEF NextPos
<1> QED BY <1>1, <1>2

LEMMA RemainingBound ==
    ASSUME NEW T, NEW r \in RingOf(T)
    PROVE  /\ Remaining(r) \in Slots
           /\ (Remaining(r) = 0) <=> IsEmpty(r)
           /\ (Remaining(r) = Size - 1) <=> IsFull(r)
<1>1. r.rd \in Slots /\ r.wr \in Slots  BY DEF RingOf
<1>2. NextPos(r.wr) = IF r.wr = Size - 1 THEN 0 ELSE r.wr + 1
      BY <1>1, NextPosValue
<1> QED BY <1>1, <1>2, SizeAssumption DEF Remaining, IsEmpty, IsFull, Slots

-----------------------------------------------------------------------------
(* The inductive invariant.  RingTypeOK alone is not inductive: that a pop *)
(* delivers a hash needs WaitingIsHash.  ReleasedSlotKeepsHash is not      *)
(* either: it needs to know that the margin of the released slot is the    *)
(* distance the write position still has to go to reach it.                *)

Gap(s) == IF s >= ring.wr THEN s - ring.wr ELSE Size - (ring.wr - s)

MarginIsGap == sieved.pushes > 0 => sieved.pushes = Gap(sieved.slot)

RingIInv == RingTypeOK /\ WaitingIsHash /\ MarginIsGap /\ ReleasedSlotKeepsHash

LEMMA RingParts ==
    ASSUME RingTypeOK
    PROVE  /\ ring.rd \in Slots
           /\ ring.wr \in Slots
           /\ ring.data \in [Slots -> Hash \cup {NoHash}]
           /\ ring \in RingOf(Hash \cup {NoHash})
           /\ sieved.slot \in Slots
           /\ sieved.pushes \in Slots
BY SizeAssumption DEF RingTypeOK, RingOf, Released, NoRelease, Slots

LEMMA InitRingIInv == RingInit => RingIInv
BY SizeAssumption DEF RingInit, RingIInv, RingTypeOK, RingOf, EmptyRing, WaitingIsHash, Waiting,
   MarginIsGap, ReleasedSlotKeepsHash, NoRelease, Slots

LEMMA PushIInv ==
    ASSUME RingIInv, NEW h \in Hash, PushHash(h)
    PROVE  RingIInv'
<1>1. /\ ring.rd \in Slots /\ ring.wr \in Slots
      /\ ring.data \in [Slots -> Hash \cup {NoHash}]
      /\ sieved.slot \in Slots /\ sieved.pushes \in Slots
      BY RingParts DEF RingIInv
<1>2. NextPos(ring.wr) = IF ring.wr = Size - 1 THEN 0 ELSE ring.wr + 1
      BY <1>1, NextPosValue
<1>3. CASE IsFull(ring)
  <2>1. ring' = ring /\ sieved' = sieved /\ out' = out
        BY <1>3 DEF PushHash, Push
  <2> QED BY <2>1 DEF RingIInv, RingTypeOK, WaitingIsHash, Waiting, MarginIsGap, Gap,
             ReleasedSlotKeepsHash
<1>4. CASE ~IsFull(ring)
  <2>1. /\ ring'.data = [ring.data EXCEPT ![ring.wr] = h]
        /\ ring'.wr = NextPos(ring.wr)
        /\ ring'.rd = ring.rd
        /\ ring' \in RingOf(Hash \cup {NoHash})
        BY <1>1, <1>2, <1>4, NextPosValue, RingParts DEF RingIInv, PushHash, Push, RingOf
  <2>2. /\ out' = out
        /\ sieved' = IF sieved.pushes = 0 THEN sieved
                     ELSE [sieved EXCEPT !.pushes = @ - 1]
        BY <1>4 DEF PushHash
  <2>3. RingTypeOK'
    <3>1. sieved' \in Released \cup {NoRelease}
          BY <1>1, <2>2, SizeAssumption DEF RingIInv, RingTypeOK, Released, NoRelease, Slots
    <3> QED BY <2>1, <2>2, <3>1 DEF RingIInv, RingTypeOK
  <2>4. WaitingIsHash'
    <3>1. ASSUME NEW s \in Slots, Waiting(s)' PROVE Get(ring, s)' \in Hash
      <4>1. s = ring.wr \/ Waiting(s)
            BY <1>1, <1>2, <1>4, <2>1, <3>1, SizeAssumption
            DEF Waiting, Slots, IsFull
      <4> QED BY <1>1, <2>1, <4>1 DEF RingIInv, WaitingIsHash, Get
    <3> QED BY <3>1 DEF WaitingIsHash
  <2>5. ASSUME sieved'.pushes > 0
        PROVE  /\ sieved.pushes > 0
               /\ sieved'.pushes = sieved.pushes - 1
               /\ sieved'.slot = sieved.slot
               /\ sieved'.hash = sieved.hash
               /\ sieved.slot # ring.wr
    <3>1. sieved.pushes > 0  BY <1>1, <2>2, <2>5 DEF Slots
    <3>2. /\ sieved'.pushes = sieved.pushes - 1
          /\ sieved'.slot = sieved.slot
          /\ sieved'.hash = sieved.hash
          BY <1>1, <2>2, <3>1 DEF RingIInv, RingTypeOK, Released, NoRelease, Slots
    <3>3. sieved.slot # ring.wr
          BY <1>1, <2>5, <3>1, <3>2 DEF RingIInv, MarginIsGap, Gap, Slots
    <3> QED BY <3>1, <3>2, <3>3
  <2>6. MarginIsGap'
    <3> SUFFICES ASSUME sieved'.pushes > 0
                 PROVE  sieved'.pushes = Gap(sieved.slot)'
        BY <2>5 DEF MarginIsGap
    <3>1. sieved.pushes = IF sieved.slot >= ring.wr THEN sieved.slot - ring.wr
                          ELSE Size - (ring.wr - sieved.slot)
          BY <2>5 DEF RingIInv, MarginIsGap, Gap
    <3>2. ring'.wr = IF ring.wr = Size - 1 THEN 0 ELSE ring.wr + 1
          BY <1>2, <2>1
    <3>3. sieved'.pushes = IF sieved.slot >= ring'.wr THEN sieved.slot - ring'.wr
                           ELSE Size - (ring'.wr - sieved.slot)
          BY <1>1, <2>5, <3>1, <3>2, SizeAssumption DEF Slots
    <3> QED BY <2>5, <3>3 DEF Gap
  <2>7. ReleasedSlotKeepsHash'
        BY <1>1, <2>1, <2>5 DEF RingIInv, ReleasedSlotKeepsHash, Get
  <2> QED BY <2>3, <2>4, <2>6, <2>7 DEF RingIInv
<1> QED BY <1>3, <1>4

LEMMA PopIInv ==
    ASSUME RingIInv, NEW follow \in BOOLEAN, PopHash(follow)
    PROVE  RingIInv'
<1>1. /\ ring.rd \in Slots /\ ring.wr \in Slots
      /\ ring.data \in [Slots -> Hash \cup {NoHash}]
      /\ sieved.slot \in Slots /\ sieved.pushes \in Slots
      BY RingParts DEF RingIInv
<1>2. NextPos(ring.rd) = IF ring.rd = Size - 1 THEN 0 ELSE ring.rd + 1
      BY <1>1, NextPosValue
<1>3. /\ ring.rd # ring.wr
      /\ ring'.data = ring.data
      /\ ring'.wr = ring.wr
      /\ ring'.rd = NextPos(ring.rd)
      /\ ring' \in RingOf(Hash \cup {NoHash})
      BY <1>1, <1>2, NextPosValue, RingParts DEF RingIInv, PopHash, Pop, IsEmpty, RingOf
<1>4. Waiting(ring.rd)
      BY <1>1, <1>3 DEF Waiting, Slots
<1>5. out' = ring.data[ring.rd] /\ out' \in Hash
      BY <1>1, <1>4 DEF RingIInv, WaitingIsHash, PopHash, Get, PopSlot
<1>6. \A s \in Slots : Waiting(s)' => Waiting(s)
      BY <1>1, <1>2, <1>3, SizeAssumption DEF Waiting, Slots
<1>7. WaitingIsHash'
      BY <1>3, <1>6 DEF RingIInv, WaitingIsHash, Get
<1>8. CASE follow
  <2>1. sieved' = [slot |-> ring.rd, hash |-> out', pushes |-> Size - Remaining(ring)]
        BY <1>8 DEF PopHash, PopSlot
  <2>2. Size - Remaining(ring) = Gap(ring.rd) /\ Gap(ring.rd) \in Slots
        BY <1>1, <1>3, SizeAssumption DEF Remaining, Gap, Slots
  <2>3. RingTypeOK'
        BY <1>1, <1>3, <1>5, <2>1, <2>2 DEF RingTypeOK, Released
  <2>4. MarginIsGap' /\ ReleasedSlotKeepsHash'
        BY <1>3, <1>5, <2>1, <2>2 DEF MarginIsGap, ReleasedSlotKeepsHash, Gap, Get
  <2> QED BY <1>7, <2>3, <2>4 DEF RingIInv
<1>9. CASE ~follow
  <2>1. sieved' = sieved
        BY <1>9 DEF PopHash
  <2> QED BY <1>3, <1>5, <1>7, <2>1
          DEF RingIInv, RingTypeOK, MarginIsGap, ReleasedSlotKeepsHash, Gap, Get
<1> QED BY <1>8, <1>9

LEMMA ClearIInv ==
    ASSUME RingIInv, ClearRing
    PROVE  RingIInv'
<1>1. /\ ring.wr \in Slots
      /\ ring'.data = ring.data /\ ring'.wr = ring.wr /\ ring'.rd = ring.wr
      /\ ring' \in RingOf(Hash \cup {NoHash})
      /\ sieved' = sieved /\ out' = out
      BY RingParts DEF RingIInv, ClearRing, Clear, RingOf
<1>2. WaitingIsHash'
      BY <1>1, SizeAssumption DEF WaitingIsHash, Waiting, Slots
<1> QED BY <1>1, <1>2 DEF RingIInv, RingTypeOK, MarginIsGap, ReleasedSlotKeepsHash, Gap, Get

LEMMA NextRingIInv == RingIInv /\ [RingNext]_ringVars => RingIInv'
<1> SUFFICES ASSUME RingIInv, [RingNext]_ringVars PROVE RingIInv'
    OBVIOUS
<1>1. CASE \E h \in Hash : PushHash(h)  BY <1>1, PushIInv
<1>2. CASE \E follow \in BOOLEAN : PopHash(follow)  BY <1>2, PopIInv
<1>3. CASE ClearRing  BY <1>3, ClearIInv
<1>4. CASE UNCHANGED ringVars
      BY <1>4 DEF ringVars, RingIInv, RingTypeOK, WaitingIsHash, Waiting, MarginIsGap, Gap,
         ReleasedSlotKeepsHash
<1> QED BY <1>1, <1>2, <1>3, <1>4 DEF RingNext

LEMMA AlwaysRingIInv == RingSpec => []RingIInv
BY InitRingIInv, NextRingIInv, PTL DEF RingSpec

\* The ring stays a ring of hashes: positions within the buffer, slots holding
\* hashes or nothing (xpmclient.h, lifoBuffer).
THEOREM RingTypeCorrect == RingSpec => []RingTypeOK
BY AlwaysRingIInv, PTL DEF RingIInv

\* What a sieve is set up from is always a hash that was pushed (lines 543-549).
THEOREM SievesOnlyHashes == RingSpec => []WaitingIsHash
BY AlwaysRingIInv, PTL DEF RingIInv

\* A released slot keeps its hash for the margin its pop left it, whatever is
\* pushed, popped or cleared meanwhile (line 632 reads it after that long).
THEOREM ReleasedSlotSafe == RingSpec => []ReleasedSlotKeepsHash
BY AlwaysRingIInv, PTL DEF RingIInv

-----------------------------------------------------------------------------
(* The ring implements the bounded FIFO queue.                             *)

\* Position i of the queue, without the modulus.
LEMMA IndexValue ==
    ASSUME NEW p \in Slots, NEW i \in 1 .. Size
    PROVE  (p + i - 1) % Size = IF p + i - 1 < Size THEN p + i - 1
                                ELSE p + i - 1 - Size
<1> USE SizeAssumption DEF Slots
<1>1. CASE p + i - 1 < Size
  <2>1. p + i - 1 \in 0 .. (Size - 1)  BY <1>1
  <2> QED BY <1>1, <2>1
<1>2. CASE ~(p + i - 1 < Size)
  <2>1. p + i - 1 - Size \in 0 .. (Size - 1)  BY <1>2
  <2>2. (p + i - 1 - Size) % Size = p + i - 1 - Size  BY <2>1
  <2>3. (p + i - 1) % Size = (p + i - 1 - Size) % Size  BY <1>2
  <2> QED BY <1>2, <2>2, <2>3
<1> QED BY <1>1, <1>2

LEMMA QueueIsSeq ==
    ASSUME NEW T, NEW r \in RingOf(T)
    PROVE  /\ QueueOf(r) \in Seq(T)
           /\ Len(QueueOf(r)) = Remaining(r)
           /\ Remaining(r) \in Slots
           /\ \A i \in 1 .. Remaining(r) :
                  /\ QueueOf(r)[i] = Get(r, (r.rd + i - 1) % Size)
                  /\ (r.rd + i - 1) % Size \in Slots
<1>1. Remaining(r) \in Nat /\ Remaining(r) \in Slots
      BY RemainingBound DEF Slots
<1>2. ASSUME NEW i \in 1 .. Remaining(r)
      PROVE  (r.rd + i - 1) % Size \in Slots /\ Get(r, (r.rd + i - 1) % Size) \in T
  <2>1. i \in 1 .. Size /\ r.rd \in Slots
        BY <1>1, SizeAssumption DEF Slots, RingOf
  <2>2. (r.rd + i - 1) % Size \in Slots
        BY <2>1, IndexValue, SizeAssumption DEF Slots
  <2> QED BY <2>2 DEF Get, RingOf
<1> QED BY <1>1, <1>2 DEF QueueOf

LEMMA PushImplementsPut ==
    ASSUME RingTypeOK, RingTypeOK', NEW h \in Hash, PushHash(h)
    PROVE  Fifo!Put(h)
<1> DEFINE n == Remaining(ring)
           T == Hash \cup {NoHash}
<1>1. /\ ring.rd \in Slots /\ ring.wr \in Slots
      /\ ring.data \in [Slots -> T]
      /\ ring \in RingOf(T)
      BY RingParts
<1>2. /\ QueueOf(ring) \in Seq(T) /\ Len(QueueOf(ring)) = n
      /\ n \in Slots
      /\ \A i \in 1 .. n :
            /\ QueueOf(ring)[i] = Get(ring, (ring.rd + i - 1) % Size)
            /\ (ring.rd + i - 1) % Size \in Slots
      BY <1>1, QueueIsSeq
<1>3. NextPos(ring.wr) = IF ring.wr = Size - 1 THEN 0 ELSE ring.wr + 1
      BY <1>1, NextPosValue
<1>4. CASE IsFull(ring)
  <2>1. n = Size - 1  BY <1>1, <1>4, RemainingBound
  <2>2. ring' = ring /\ out' = out  BY <1>4 DEF PushHash, Push
  <2>3. QueueOf(ring)' = QueueOf(ring)  BY <2>2
  <2> QED BY <1>2, <2>1, <2>2, <2>3, SizeAssumption DEF Fifo!Put
<1>5. CASE ~IsFull(ring)
  <2>1. n < Size - 1
        BY <1>1, <1>2, <1>5, RemainingBound, SizeAssumption DEF Slots
  <2>2. /\ ring'.data = [ring.data EXCEPT ![ring.wr] = h]
        /\ ring'.wr = NextPos(ring.wr)
        /\ ring'.rd = ring.rd
        /\ out' = out
        BY <1>1, <1>5 DEF PushHash, Push, RingOf
  <2>3. Remaining(ring') = n + 1
        BY <1>1, <1>3, <2>1, <2>2, SizeAssumption DEF Remaining, Slots
  <2>4. /\ QueueOf(ring') \in Seq(T) /\ Len(QueueOf(ring')) = n + 1
        /\ \A i \in 1 .. (n + 1) :
              QueueOf(ring')[i] = Get(ring', (ring'.rd + i - 1) % Size)
        BY <2>3, QueueIsSeq DEF RingTypeOK
  <2>5. ASSUME NEW i \in 1 .. (n + 1)
        PROVE  QueueOf(ring')[i] = IF i = n + 1 THEN h ELSE QueueOf(ring)[i]
    <3>1. i \in 1 .. Size  BY <1>2, <2>1, SizeAssumption DEF Slots
    <3>2. (ring.rd + i - 1) % Size = IF ring.rd + i - 1 < Size THEN ring.rd + i - 1
                                     ELSE ring.rd + i - 1 - Size
          BY <1>1, <3>1, IndexValue
    <3>3. /\ (ring.rd + i - 1) % Size \in Slots
          /\ (ring.rd + i - 1) % Size = ring.wr <=> i = n + 1
      <4> DEFINE k == IF ring.rd + i - 1 < Size THEN ring.rd + i - 1
                      ELSE ring.rd + i - 1 - Size
      <4>1. k \in Slots  BY <1>1, <3>1, SizeAssumption DEF Slots
      <4>2. n = IF ring.wr >= ring.rd THEN ring.wr - ring.rd
                ELSE Size - (ring.rd - ring.wr)
            BY DEF Remaining
      <4>3. k = ring.wr <=> i = n + 1
            BY <1>1, <1>2, <2>1, <3>1, <4>2, SizeAssumption DEF Slots
      <4> QED BY <3>2, <4>1, <4>3
    <3>4. QueueOf(ring')[i] = Get(ring', (ring.rd + i - 1) % Size)
          BY <2>2, <2>4
    <3>5. CASE i = n + 1
          BY <1>1, <2>2, <3>3, <3>4, <3>5 DEF Get
    <3>6. CASE i # n + 1
      <4>1. i \in 1 .. n  BY <1>2, <3>6 DEF Slots
      <4> QED BY <1>1, <1>2, <2>2, <3>3, <3>4, <3>6, <4>1 DEF Get
    <3> QED BY <3>5, <3>6
  <2>6. /\ Append(QueueOf(ring), h) \in Seq(T)
        /\ Len(Append(QueueOf(ring), h)) = n + 1
        /\ \A i \in 1 .. (n + 1) :
              Append(QueueOf(ring), h)[i] = IF i = n + 1 THEN h ELSE QueueOf(ring)[i]
        BY <1>2, AppendProperties DEF Slots
  <2>7. QueueOf(ring') = Append(QueueOf(ring), h)
        BY <2>4, <2>5, <2>6, SeqEqual
  <2> QED BY <1>2, <2>1, <2>2, <2>7 DEF Fifo!Put
<1> QED BY <1>4, <1>5

LEMMA PopImplementsTake ==
    ASSUME RingTypeOK, RingTypeOK', NEW follow \in BOOLEAN, PopHash(follow)
    PROVE  Fifo!Take
<1> DEFINE n == Remaining(ring)
           T == Hash \cup {NoHash}
<1>1. ring.rd \in Slots /\ ring.wr \in Slots /\ ring \in RingOf(T)
      BY RingParts
<1>2. /\ QueueOf(ring) \in Seq(T) /\ Len(QueueOf(ring)) = n
      /\ n \in Slots
      /\ \A i \in 1 .. n : QueueOf(ring)[i] = Get(ring, (ring.rd + i - 1) % Size)
      BY <1>1, QueueIsSeq
<1>3. NextPos(ring.rd) = IF ring.rd = Size - 1 THEN 0 ELSE ring.rd + 1
      BY <1>1, NextPosValue
<1>4. /\ ring.rd # ring.wr
      /\ ring'.data = ring.data
      /\ ring'.wr = ring.wr
      /\ ring'.rd = NextPos(ring.rd)
      /\ out' = ring.data[ring.rd]
      BY <1>1 DEF PopHash, Pop, IsEmpty, Get, PopSlot, RingOf
<1>5. n > 0 /\ Remaining(ring') = n - 1
      BY <1>1, <1>3, <1>4, SizeAssumption DEF Remaining, Slots
<1>6. QueueOf(ring) # << >> /\ out' = Head(QueueOf(ring))
  <2>1. (ring.rd + 1 - 1) % Size = ring.rd
        BY <1>1, IndexValue, SizeAssumption DEF Slots
  <2>2. QueueOf(ring)[1] = ring.data[ring.rd]
        BY <1>2, <1>5, <2>1 DEF Get, Slots
  <2> QED BY <1>2, <1>4, <1>5, <2>2
<1>7. /\ QueueOf(ring') \in Seq(T) /\ Len(QueueOf(ring')) = n - 1
      /\ \A i \in 1 .. (n - 1) :
            QueueOf(ring')[i] = Get(ring', (ring'.rd + i - 1) % Size)
      BY <1>5, QueueIsSeq DEF RingTypeOK
<1>8. ASSUME NEW i \in 1 .. (n - 1)
      PROVE  QueueOf(ring')[i] = QueueOf(ring)[i + 1]
  <2>1. i \in 1 .. Size /\ i + 1 \in 1 .. Size /\ i + 1 \in 1 .. n
        BY <1>2, SizeAssumption DEF Slots
  <2>2. NextPos(ring.rd) \in Slots  BY <1>1, NextPosValue
  <2>3. (ring'.rd + i - 1) % Size
            = IF ring'.rd + i - 1 < Size THEN ring'.rd + i - 1
              ELSE ring'.rd + i - 1 - Size
        BY <1>4, <2>1, <2>2, IndexValue
  <2>4. (ring.rd + (i + 1) - 1) % Size
            = IF ring.rd + (i + 1) - 1 < Size THEN ring.rd + (i + 1) - 1
              ELSE ring.rd + (i + 1) - 1 - Size
        BY <1>1, <2>1, IndexValue
  <2>5. (ring'.rd + i - 1) % Size = (ring.rd + (i + 1) - 1) % Size
    <3> DEFINE k == IF ring'.rd + i - 1 < Size THEN ring'.rd + i - 1
                    ELSE ring'.rd + i - 1 - Size
               m == IF ring.rd + (i + 1) - 1 < Size THEN ring.rd + (i + 1) - 1
                    ELSE ring.rd + (i + 1) - 1 - Size
    <3>1. /\ Size \in Nat /\ i \in 1 .. Size /\ ring.rd \in 0 .. Size - 1
          /\ ring'.rd = IF ring.rd = Size - 1 THEN 0 ELSE ring.rd + 1
          BY <1>1, <1>3, <1>4, <2>1, SizeAssumption DEF Slots
    <3>2. k = m
          BY <3>1
    <3> QED BY <2>3, <2>4, <3>2
  <2> QED BY <1>2, <1>4, <1>7, <2>1, <2>5 DEF Get
<1>9. /\ Tail(QueueOf(ring)) \in Seq(T)
      /\ Len(Tail(QueueOf(ring))) = n - 1
      /\ \A i \in 1 .. (n - 1) : Tail(QueueOf(ring))[i] = QueueOf(ring)[i + 1]
      BY <1>2, <1>6, HeadTailProperties
<1>10. QueueOf(ring') = Tail(QueueOf(ring))
      BY <1>7, <1>8, <1>9, SeqEqual
<1> QED BY <1>6, <1>10 DEF Fifo!Take

LEMMA ClearImplementsDrop ==
    ASSUME RingTypeOK, ClearRing
    PROVE  Fifo!Drop
<1>1. ring'.rd = ring.wr /\ ring'.wr = ring.wr /\ out' = out /\ ring.wr \in Slots
      BY RingParts DEF ClearRing, Clear, RingOf
<1>2. Remaining(ring') = 0  BY <1>1 DEF Remaining, Slots
<1>3. QueueOf(ring') = << >>  BY <1>2 DEF QueueOf
<1> QED BY <1>1, <1>3 DEF Fifo!Drop

\* lifoBuffer is a bounded first-in first-out queue (its name notwithstanding):
\* what pop() delivers is the oldest hash that was pushed and not yet delivered
\* or cleared, and a hash is refused only when Size - 1 are waiting.
THEOREM RingImplementsFifo == RingSpec => ImplementsFifo
<1>1. RingInit => Fifo!Init
  <2>1. ASSUME RingInit PROVE QueueOf(ring) = << >> /\ out = NoHash
    <3>1. Remaining(ring) = 0
          BY <2>1, SizeAssumption DEF RingInit, EmptyRing, Remaining
    <3> QED BY <2>1, <3>1 DEF QueueOf, RingInit
  <2> QED BY <2>1 DEF Fifo!Init
<1>2. RingTypeOK /\ RingTypeOK' /\ [RingNext]_ringVars => [Fifo!Next]_<<QueueOf(ring), out>>
  <2> SUFFICES ASSUME RingTypeOK, RingTypeOK', [RingNext]_ringVars
               PROVE  [Fifo!Next]_<<QueueOf(ring), out>>
      OBVIOUS
  <2>1. CASE \E h \in Hash : PushHash(h)
        BY <2>1, PushImplementsPut DEF Fifo!Next
  <2>2. CASE \E follow \in BOOLEAN : PopHash(follow)
        BY <2>2, PopImplementsTake DEF Fifo!Next
  <2>3. CASE ClearRing
        BY <2>3, ClearImplementsDrop DEF Fifo!Next
  <2>4. CASE UNCHANGED ringVars
        BY <2>4 DEF ringVars
  <2> QED BY <2>1, <2>2, <2>3, <2>4 DEF RingNext
<1> QED BY <1>1, <1>2, RingTypeCorrect, PTL DEF RingSpec, Fifo!Spec, ImplementsFifo

-----------------------------------------------------------------------------
(* PrimeMining: what the host does with the ring.                          *)

\* Slot s of ring r holds an element that waits to be popped.
Waits(r, s) == IF r.rd <= r.wr THEN r.rd <= s /\ s < r.wr
               ELSE r.rd <= s \/ s < r.wr

Rings == RingOf(hash_t)

LEMMA RingFacts ==
    ASSUME NEW r \in Rings
    PROVE  /\ r.rd \in Slots /\ r.wr \in Slots /\ r.data \in [Slots -> hash_t]
           /\ r = [data |-> r.data, rd |-> r.rd, wr |-> r.wr]
           /\ Remaining(r) \in 0 .. (Size - 1)
<1>1. /\ r.rd \in Slots /\ r.wr \in Slots /\ r.data \in [Slots -> hash_t]
      /\ r = [data |-> r.data, rd |-> r.rd, wr |-> r.wr]
      BY DEF Rings, RingOf
<1> QED BY <1>1, SizeAssumption DEF Remaining, Slots

LEMMA PushFacts ==
    ASSUME NEW r \in Rings, NEW e \in hash_t
    PROVE  /\ Push(r, e) \in Rings
           /\ \A s \in Slots : Get(Push(r, e), s) \in {Get(r, s), e}
           /\ \A s \in Slots : Waits(Push(r, e), s) =>
                 Waits(r, s) \/ Get(Push(r, e), s) = e
<1>1. CASE IsFull(r)
      BY <1>1 DEF Push
<1>2. CASE ~ IsFull(r)
  <2>1. /\ Push(r, e).data = [r.data EXCEPT ![r.wr] = e]
        /\ Push(r, e).wr = NextPos(r.wr)
        /\ Push(r, e).rd = r.rd
        /\ Push(r, e) \in Rings
        BY <1>2, RingFacts, NextPosValue DEF Push, Rings, RingOf
  <2>2. \A s \in Slots : Get(Push(r, e), s) = IF s = r.wr THEN e ELSE Get(r, s)
        BY <2>1, RingFacts DEF Get
  <2>3. \A s \in Slots : Waits(Push(r, e), s) => Waits(r, s) \/ s = r.wr
    <3>1. NextPos(r.wr) = IF r.wr = Size - 1 THEN 0 ELSE r.wr + 1
          BY RingFacts, NextPosValue
    <3>2. NextPos(r.wr) # r.rd
          BY <1>2 DEF IsFull
    <3>3. r.rd \in Slots /\ r.wr \in Slots
          BY RingFacts
    <3> QED BY <2>1, <3>1, <3>2, <3>3, SizeAssumption DEF Waits, Slots
  <2> QED BY <2>1, <2>2, <2>3
<1> QED BY <1>1, <1>2

LEMMA PopFacts ==
    ASSUME NEW r \in Rings, Remaining(r) > 0
    PROVE  /\ Pop(r) \in Rings
           /\ Remaining(Pop(r)) = Remaining(r) - 1
           /\ PopSlot(r) \in Slots /\ Waits(r, PopSlot(r))
           /\ \A s \in Slots : Get(Pop(r), s) = Get(r, s)
           /\ \A s \in Slots : Waits(Pop(r), s) => Waits(r, s)
<1>1. /\ r.rd \in Slots /\ r.wr \in Slots
      BY RingFacts
<1>2. ~ IsEmpty(r)
      BY <1>1 DEF Remaining, IsEmpty, Slots
<1>3. /\ Pop(r).data = r.data /\ Pop(r).wr = r.wr /\ Pop(r).rd = NextPos(r.rd)
      /\ Pop(r) \in Rings
      BY <1>1, <1>2, RingFacts, NextPosValue DEF Pop, Rings, RingOf
<1>4. NextPos(r.rd) = IF r.rd = Size - 1 THEN 0 ELSE r.rd + 1
      BY <1>1, NextPosValue
<1>5. r.rd # r.wr
      BY <1>2 DEF IsEmpty
<1>6. Remaining(Pop(r)) = Remaining(r) - 1
      BY <1>1, <1>3, <1>4, <1>5, SizeAssumption DEF Remaining, Slots
<1>7. \A s \in Slots : Waits(Pop(r), s) => Waits(r, s)
      BY <1>1, <1>3, <1>4, <1>5, SizeAssumption DEF Waits, Slots
<1>8. PopSlot(r) \in Slots /\ Waits(r, PopSlot(r))
      BY <1>1, <1>5 DEF PopSlot, Waits, Slots
<1> QED BY <1>3, <1>6, <1>7, <1>8 DEF Get

-----------------------------------------------------------------------------
(* The loops over the ring.  A loop is a function of the number of rounds   *)
(* done; that there is such a function is shown first.                     *)

Found(found, k) == [gen |-> found[k], age |-> 0]

\* push[k] of Pushed, as an equation.
Pushes(r, found, n, push) ==
    push = [k \in 0 .. n |-> IF k = 0 THEN r ELSE Push(push[k - 1], Found(found, k))]

LEMMA PushesExist ==
    ASSUME NEW r, NEW found, NEW n \in Nat
    PROVE  \E push : Pushes(r, found, n, push)
<1> DEFINE S == {m \in 0 .. n : \E push : Pushes(r, found, m, push)}
<1>1. 0 \in S
  <2>1. Pushes(r, found, 0, [k \in 0 .. 0 |-> r])
        BY DEF Pushes
  <2> QED BY <2>1
<1>2. ASSUME NEW m \in 0 .. n, m < n, m \in S PROVE m + 1 \in S
  <2>1. PICK push : Pushes(r, found, m, push)
        BY <1>2
  <2> DEFINE more == [k \in 0 .. (m + 1) |->
                        IF k <= m THEN push[k] ELSE Push(push[m], Found(found, k))]
  <2>2. \A k \in 0 .. m : more[k] = push[k]
        OBVIOUS
  <2>3. \A k \in 0 .. (m + 1) :
            more[k] = IF k = 0 THEN r ELSE Push(more[k - 1], Found(found, k))
    <3> TAKE k \in 0 .. (m + 1)
    <3>1. CASE k = 0
          BY <2>1, <2>2, <3>1 DEF Pushes
    <3>2. CASE k \in 1 .. m
      <4>1. k - 1 \in 0 .. m /\ k \in 0 .. m /\ k # 0
            BY <3>2
      <4>2. push[k] = Push(push[k - 1], Found(found, k))
            BY <2>1, <4>1 DEF Pushes
      <4> QED BY <2>2, <4>1, <4>2
    <3>3. CASE k = m + 1
      <4>1. more[k] = Push(push[m], Found(found, k))
            BY <3>3
      <4>2. k - 1 = m /\ k # 0
            BY <3>3
      <4> QED BY <2>2, <4>1, <4>2
    <3> QED BY <3>1, <3>2, <3>3
  <2>4. Pushes(r, found, m + 1, more)
        BY <2>3 DEF Pushes
  <2>5. m + 1 \in 0 .. n
        BY <1>2
  <2> QED BY <2>4, <2>5
<1>3. n \in 0 .. n  OBVIOUS
<1> HIDE DEF S
<1>4. n \in S
      BY <1>1, <1>2, <1>3, InductionUpTo
<1> QED BY <1>4 DEF S

LEMMA PushedIs ==
    ASSUME NEW r, NEW found, Len(found) \in Nat
    PROVE  \E push : Pushes(r, found, Len(found), push) /\ Pushed(r, found) = push[Len(found)]
<1> DEFINE push[k \in 0 .. Len(found)] ==
             IF k = 0 THEN r ELSE Push(push[k - 1], [gen |-> found[k], age |-> 0])
<1>1. \E f : Pushes(r, found, Len(found), f)
      BY PushesExist
<1>2. Pushes(r, found, Len(found), push)
      BY <1>1 DEF Pushes, Found
<1>3. Pushed(r, found) = push[Len(found)]
      BY DEF Pushed
<1> QED BY <1>2, <1>3

\* Ring q has come out of ring r by pushes of hashes of the generations G.
PushedOnto(r, G, q) ==
    /\ q \in Rings
    /\ \A s \in Slots : Get(q, s) = Get(r, s) \/ Get(q, s).gen \in G
    /\ \A s \in Slots : Waits(q, s) => Waits(r, s) \/ Get(q, s).gen \in G

LEMMA PushedFacts ==
    ASSUME NEW r \in Rings, NEW G \in SUBSET {0, 1}, NEW found \in Seq(G)
    PROVE  PushedOnto(r, G, Pushed(r, found))
<1> DEFINE n == Len(found)
<1>1. n \in Nat /\ \A k \in 1 .. n : found[k] \in G
      BY ElementOfSeq, LenProperties
<1>2. PICK push : Pushes(r, found, n, push) /\ Pushed(r, found) = push[n]
      BY <1>1, PushedIs
<1> DEFINE S == {k \in 0 .. n : PushedOnto(r, G, push[k])}
<1>3. 0 \in S
  <2>1. push[0] = r
        BY <1>1, <1>2 DEF Pushes
  <2> QED BY <1>1, <2>1 DEF PushedOnto
<1>4. ASSUME NEW k \in 0 .. n, k < n, k \in S PROVE k + 1 \in S
  <2> DEFINE q == push[k]  e == Found(found, k + 1)
  <2>1. k + 1 \in 1 .. n
        BY <1>1, <1>4
  <2>2. push[k + 1] = Push(q, e)
    <3>1. k + 1 \in 0 .. n /\ k + 1 # 0 /\ k + 1 - 1 = k
          BY <2>1
    <3> QED BY <1>2, <3>1 DEF Pushes
  <2>3. e \in hash_t /\ e.gen \in G
    <3>1. 0 \in 0 .. Old
          BY SizeAssumption DEF Old
    <3>2. found[k + 1] \in G
          BY <1>1, <2>1
    <3> QED BY <3>1, <3>2 DEF Found, hash_t
  <2>4. PushedOnto(r, G, q)
        BY <1>4
  <2> HIDE DEF q, e, n
  <2>5. PushedOnto(r, G, Push(q, e))
    <3>1. q \in Rings  BY <2>4 DEF PushedOnto
    <3> QED BY <2>3, <2>4, <3>1, PushFacts DEF PushedOnto
  <2> QED BY <2>1, <2>2, <2>5
<1> HIDE DEF S, n
<1>5. n \in S
  <2>1. n \in 0 .. n  BY <1>1
  <2> QED BY <1>1, <1>3, <1>4, <2>1, InductionUpTo
<1> QED BY <1>2, <1>5 DEF S

\* pop[k] of DispatchSieves, as an equation.
Pops(r, n, pop) ==
    pop = [k \in 0 .. n |-> IF k = 0 THEN r ELSE Pop(pop[k - 1])]

LEMMA PopsExist ==
    ASSUME NEW r, NEW n \in Nat
    PROVE  \E pop : Pops(r, n, pop)
<1> DEFINE S == {m \in 0 .. n : \E pop : Pops(r, m, pop)}
<1>1. 0 \in S
  <2>1. Pops(r, 0, [k \in 0 .. 0 |-> r])
        BY DEF Pops
  <2> QED BY <2>1
<1>2. ASSUME NEW m \in 0 .. n, m < n, m \in S PROVE m + 1 \in S
  <2>1. PICK pop : Pops(r, m, pop)
        BY <1>2
  <2> DEFINE more == [k \in 0 .. (m + 1) |-> IF k <= m THEN pop[k] ELSE Pop(pop[m])]
  <2>2. \A k \in 0 .. m : more[k] = pop[k]
        OBVIOUS
  <2>3. \A k \in 0 .. (m + 1) : more[k] = IF k = 0 THEN r ELSE Pop(more[k - 1])
    <3> TAKE k \in 0 .. (m + 1)
    <3>1. CASE k = 0
          BY <2>1, <2>2, <3>1 DEF Pops
    <3>2. CASE k \in 1 .. m
      <4>1. k - 1 \in 0 .. m /\ k \in 0 .. m /\ k # 0
            BY <3>2
      <4>2. pop[k] = Pop(pop[k - 1])
            BY <2>1, <4>1 DEF Pops
      <4> QED BY <2>2, <4>1, <4>2
    <3>3. CASE k = m + 1
      <4>1. more[k] = Pop(pop[m])
            BY <3>3
      <4>2. k - 1 = m /\ k # 0
            BY <3>3
      <4> QED BY <2>2, <4>1, <4>2
    <3> QED BY <3>1, <3>2, <3>3
  <2>4. Pops(r, m + 1, more)
        BY <2>3 DEF Pops
  <2>5. m + 1 \in 0 .. n
        BY <1>2
  <2> QED BY <2>4, <2>5
<1>3. n \in 0 .. n  OBVIOUS
<1> HIDE DEF S
<1>4. n \in S
      BY <1>1, <1>2, <1>3, InductionUpTo
<1> QED BY <1>4 DEF S

\* Ring q has come out of ring r by k pops.
PoppedFrom(r, k, q) ==
    /\ q \in Rings
    /\ Remaining(q) = Remaining(r) - k
    /\ \A s \in Slots : Get(q, s) = Get(r, s)
    /\ \A s \in Slots : Waits(q, s) => Waits(r, s)

LEMMA PopsFacts ==
    ASSUME NEW r \in Rings, NEW n \in 0 .. Remaining(r), NEW pop, Pops(r, n, pop)
    PROVE  /\ \A k \in 0 .. n : PoppedFrom(r, k, pop[k])
           /\ \A k \in 0 .. (n - 1) : PopSlot(pop[k]) \in Slots /\ Waits(r, PopSlot(pop[k]))
<1> DEFINE S == {k \in 0 .. n : PoppedFrom(r, k, pop[k])}
<1>1. Remaining(r) \in Nat /\ n \in Nat /\ n <= Remaining(r)
      BY RingFacts, SizeAssumption
<1>2. 0 \in S
  <2>1. pop[0] = r
        BY <1>1 DEF Pops
  <2> QED BY <1>1, <2>1 DEF PoppedFrom
<1>3. ASSUME NEW k \in 0 .. n, k < n, PoppedFrom(r, k, pop[k])
      PROVE  pop[k] \in Rings /\ Remaining(pop[k]) > 0
      BY <1>1, <1>3 DEF PoppedFrom
<1>4. ASSUME NEW k \in 0 .. n, k < n, k \in S PROVE k + 1 \in S
  <2> DEFINE q == pop[k]
  <2>1. PoppedFrom(r, k, q)
        BY <1>4
  <2>2. q \in Rings /\ Remaining(q) > 0
        BY <1>3, <1>4, <2>1
  <2>3. pop[k + 1] = Pop(q)
    <3>1. k + 1 \in 0 .. n /\ k + 1 # 0 /\ k + 1 - 1 = k
          BY <1>4
    <3> QED BY <3>1 DEF Pops
  <2> HIDE DEF q
  <2>4. PoppedFrom(r, k + 1, Pop(q))
    <3>1. Remaining(Pop(q)) = Remaining(r) - (k + 1)
          BY <1>1, <2>1, <2>2, PopFacts DEF PoppedFrom
    <3> QED BY <2>1, <2>2, <3>1, PopFacts DEF PoppedFrom
  <2>5. k + 1 \in 0 .. n
        BY <1>4
  <2> QED BY <2>3, <2>4, <2>5
<1> HIDE DEF S
<1>5. \A k \in 0 .. n : k \in S
      BY <1>1, <1>2, <1>4, InductionUpTo
<1>6. \A k \in 0 .. n : PoppedFrom(r, k, pop[k])
      BY <1>5 DEF S
<1>7. ASSUME NEW k \in 0 .. (n - 1)
      PROVE  PopSlot(pop[k]) \in Slots /\ Waits(r, PopSlot(pop[k]))
  <2>1. k \in 0 .. n /\ k < n
        BY <1>1
  <2>2. PoppedFrom(r, k, pop[k]) /\ pop[k] \in Rings /\ Remaining(pop[k]) > 0
        BY <1>3, <1>6, <2>1
  <2> QED BY <2>2, PopFacts DEF PoppedFrom
<1> QED BY <1>6, <1>7

-----------------------------------------------------------------------------
(* The pipelines.  Each step of the thread is one of the pipelines or       *)
(* leaves them alone, so that what FermatPipeline_proofs shows of them      *)
(* holds here.                                                             *)

FP == INSTANCE FermatPipeline_proofs

\* What waits for the host is live still.
FinalLive == \A k \in DOMAIN final : final[k].id \in live

PipesRight == F!TypeOK /\ FinalLive

LEMMA StepOfPipes ==
    ASSUME [MiningNext]_miningVars
    PROVE  [FP!Next]_FP!vars
<1>1. CASE MinerNewWork
      BY <1>1 DEF MinerNewWork, F!Reset, FP!Next, FP!Reset, F!Emptied, FP!Emptied
<1>2. CASE SameWork \/ FetchHashes \/ DispatchSieves \/ HashFound \/ UNCHANGED miningVars
      BY <1>2 DEF SameWork, FetchHashes, DispatchSieves, HashFound, miningVars, pipeVars, FP!vars
<1>3. CASE CheckCandis
  <2>1. F!Dispatch  BY <1>3 DEF CheckCandis
  <2>2. FP!Dispatch
        BY <2>1 DEF F!Dispatch, FP!Dispatch, F!Joined, FP!Joined, F!Left, FP!Left, F!ridx,
           FP!ridx, F!widx, FP!widx, F!WholeBlocks, FP!WholeBlocks
  <2> QED BY <2>2 DEF FP!Next
<1>4. CASE EndIteration
      BY <1>4 DEF EndIteration, F!Finish, FP!Finish, FP!Next
<1>5. CASE CandidateFound
  <2>1. PICK p \in Pipe, id \in Id : F!SieveFinds(p, id)
        BY <1>5 DEF CandidateFound
  <2>2. FP!SieveFinds(p, id)
        BY <2>1 DEF F!SieveFinds, FP!SieveFinds, F!widx, FP!widx
  <2> QED BY <2>2 DEF FP!Next
<1>6. CASE FermatTest
  <2>1. PICK p \in Pipe : \E i \in 1 .. bsize[p], prime \in BOOLEAN : F!TestItem(p, i, prime)
        BY <1>6 DEF FermatTest
  <2>2. PICK i \in 1 .. bsize[p], prime \in BOOLEAN : F!TestItem(p, i, prime)
        BY <2>1
  <2>3. FP!TestItem(p, i, prime)
        BY <2>2 DEF F!TestItem, FP!TestItem, F!widx, FP!widx, F!ridx, FP!ridx, F!Done, FP!Done,
           F!Advanced, FP!Advanced
  <2> QED BY <2>3 DEF FP!Next
<1> QED BY <1>1, <1>2, <1>3, <1>4, <1>5, <1>6 DEF MiningNext

LEMMA ImplementsPipes == MiningSpec => FP!Spec
<1>1. MiningInit => FP!Init
      BY DEF MiningInit, F!Init, FP!Init, F!Emptied, FP!Emptied
<1> QED BY <1>1, StepOfPipes, PTL DEF MiningSpec, FP!Spec

LEMMA PipesAlwaysRight == MiningSpec => []PipesRight
<1>1. FP!Spec => []FP!TypeOK
      BY FP!TypeCorrect, PipesAssumption
<1>2. FP!Spec => []FP!Kept
      BY FP!AlwaysKept, PipesAssumption
<1>3. FP!TypeOK => F!TypeOK
      BY DEF FP!TypeOK, F!TypeOK, FP!Cand, F!Cand, FP!Proven, F!Proven
<1>4. FP!TypeOK /\ FP!Kept => FinalLive
  <2> SUFFICES ASSUME FP!TypeOK, FP!Kept, NEW k \in DOMAIN final
               PROVE  final[k].id \in live
      BY DEF FinalLive
  <2>1. final[k].id \in Id
    <3>1. final \in Seq(FP!Proven)  BY DEF FP!TypeOK
    <3>2. final[k] \in FP!Proven  BY <3>1, ElementOfSeq, LenProperties
    <3> QED BY <3>2 DEF FP!Proven
  <2>2. FP!AtFinal(final[k].id)
        BY DEF FP!AtFinal
  <2> QED BY <2>1, <2>2 DEF FP!Kept, FP!LiveWaits
<1> QED BY <1>1, <1>2, <1>3, <1>4, ImplementsPipes, PTL DEF PipesRight

-----------------------------------------------------------------------------
(* The inductive invariant.                                                *)

\* What the steps of an iteration rely on from the steps before.
InOrder ==
    /\ phase = "device" => step = "device"
    /\ step \in {"fetch", "sieves", "candis"} /\ reset => final = << >>
    /\ step \in {"top", "fetch", "sieves"} => sieving = {}
    /\ step # "device" => checked = {}

\* Whatever a stage holds is of the header in use; also what is sieved.
OneHeader ==
    /\ \A k \in DOMAIN hashmod : hashmod[k] = gen
    /\ \A s \in Slots : Waits(hashes, s) => Get(hashes, s).gen = gen
    /\ \A s \in sieving : Get(hashes, s).gen = gen
    /\ \A id \in live : Get(hashes, hashid[id]).gen = gen
    /\ \A c \in checked : c.gen = gen

\* Hashes are searched for, and found ones wait, only when there was little in the ring.
Room == hashing \/ hashmod # << >> => Remaining(hashes) <= HashFactor * SW - 1

MInv == MiningTypeOK /\ InOrder /\ OneHeader /\ Room

\* The parts of the type that the steps below rely on.
LEMMA Types ==
    ASSUME MiningTypeOK
    PROVE  /\ gen \in {0, 1} /\ live \subseteq Id
           /\ hashes \in Rings /\ hashes.data \in [Slots -> hash_t]
           /\ hashmod \in Seq({0, 1}) /\ Len(hashmod) \in Nat
           /\ DOMAIN hashmod = 1 .. Len(hashmod)
           /\ hashid \in [Id -> Slots] /\ age \in [Id -> 0 .. Old]
           /\ \A s \in Slots : Get(hashes, s) \in hash_t
           /\ SW \in Nat /\ mSievePerRound \in 1 .. SW
           /\ Old \in Nat /\ Old > 0
<1>1. Old \in Nat /\ Old > 0
      BY SizeAssumption DEF Old
<1>2. hashes \in Rings /\ hashes.data \in [Slots -> hash_t]
      BY RingFacts DEF MiningTypeOK, Rings
<1>3. live \subseteq Id
      BY DEF MiningTypeOK, F!TypeOK
<1>4. hashmod \in Seq({0, 1})
      BY DEF MiningTypeOK
<1>5. Len(hashmod) \in Nat /\ DOMAIN hashmod = 1 .. Len(hashmod)
      BY <1>4, LenProperties
<1> QED BY <1>1, <1>2, <1>3, <1>4, <1>5, SizesAssumption DEF MiningTypeOK, Get

LEMMA InitMInv == MiningInit /\ F!TypeOK => MInv
<1> SUFFICES ASSUME MiningInit, F!TypeOK PROVE MInv
    OBVIOUS
<1> USE SizeAssumption, SizesAssumption, SievesAssumption DEF MiningInit
<1>1. EmptyRing([gen |-> 0, age |-> 0]) \in RingOf(hash_t)
  <2>1. [gen |-> 0, age |-> 0] \in hash_t
        BY DEF hash_t, Old
  <2> QED BY <2>1 DEF EmptyRing, RingOf, Slots
<1>2. MiningTypeOK
  <2>1. 0 \in Slots /\ 0 \in 0 .. Old  BY DEF Slots, Old
  <2>2. << >> \in Seq({0, 1}) /\ Len(<< >>) <= FoundMax  OBVIOUS
  <2> QED BY <1>1, <2>1, <2>2 DEF MiningTypeOK
<1>3. live = {} /\ final = << >> /\ phase = "host"
      BY DEF F!Init
<1>4. \A s \in Slots : ~ Waits(hashes, s)
      BY DEF EmptyRing, Waits, Slots
<1>5. InOrder /\ OneHeader /\ Room
      BY <1>3, <1>4 DEF InOrder, OneHeader, Room
<1> QED BY <1>2, <1>5 DEF MInv

LEMMA NewWorkMInv ==
    ASSUME MInv, MinerNewWork, F!TypeOK'
    PROVE  MInv'
<1> USE DEF MInv
<1>1. /\ step = "top" /\ step' = "fetch" /\ reset' = TRUE /\ gen' = 1 - gen
      /\ hashes' = Clear(hashes) /\ hashmod' = << >>
      /\ live' = {} /\ final' = << >> /\ phase' = "host"
      /\ UNCHANGED <<hashing, sieving, mSievePerRound, hashid, age, checked>>
      BY DEF MinerNewWork, F!Reset, Goto
<1>2. gen \in {0, 1} /\ hashes \in Rings /\ sieving = {} /\ checked = {}
      BY <1>1, Types DEF InOrder
<1>3. /\ hashes' \in RingOf(hash_t)
      /\ hashes'.rd = hashes.wr /\ hashes'.wr = hashes.wr
      BY <1>1, <1>2, RingFacts DEF Clear, Rings, RingOf
<1>4. hashes.wr \in Slots
      BY <1>2, RingFacts
<1>5. MiningTypeOK'
      BY <1>1, <1>2, <1>3, SizesAssumption DEF MiningTypeOK
<1>6. \A s \in Slots : ~ Waits(hashes, s)'
      BY <1>3, <1>4, SizeAssumption DEF Waits, Slots
<1>7. InOrder' /\ OneHeader'
      BY <1>1, <1>2, <1>6 DEF InOrder, OneHeader
<1>8. Room'
  <2>1. Remaining(hashes') = 0
        BY <1>3, <1>4, SizeAssumption DEF Remaining, Slots
  <2>2. ~ hashing' \/ HashFactor * SW - 1 >= 0
        BY <1>1, <1>2, Types, RingFacts, SizesAssumption DEF Room
  <2> QED BY <1>1, <2>1, <2>2, SizesAssumption DEF Room
<1> QED BY <1>5, <1>7, <1>8

LEMMA SameWorkMInv ==
    ASSUME MInv, SameWork, F!TypeOK'
    PROVE  MInv'
<1> USE DEF MInv
<1>1. /\ step = "top" /\ step' = "fetch" /\ reset' = FALSE
      /\ UNCHANGED <<live, final, phase, gen, hashmod, hashing, hashes, sieving,
                     mSievePerRound, hashid, age, checked>>
      BY DEF SameWork, Goto, pipeVars
<1>2. MiningTypeOK'
      BY <1>1 DEF MiningTypeOK
<1>3. InOrder'
      BY <1>1 DEF InOrder
<1>4. OneHeader'
      BY <1>1 DEF OneHeader, Waits
<1>5. Room'
      BY <1>1 DEF Room
<1> QED BY <1>2, <1>3, <1>4, <1>5

LEMMA ProductMonotonic ==
    ASSUME NEW a \in Nat, NEW b \in Nat, NEW c \in Nat, b <= c
    PROVE  a * b <= a * c
<1>1. PICK d \in Nat : c = b + d
  <2>1. c - b \in Nat /\ c = b + (c - b)  OBVIOUS
  <2> QED BY <2>1
<1>2. a * c = a * b + a * d
      BY <1>1
<1>3. a * d \in Nat /\ a * b \in Nat
      OBVIOUS
<1> QED BY <1>2, <1>3

LEMMA FetchMInv ==
    ASSUME MInv, FetchHashes, F!TypeOK'
    PROVE  MInv'
<1> USE DEF MInv
<1> DEFINE q == Pushed(hashes, hashmod)
<1>1. /\ step = "fetch" /\ step' = "sieves"
      /\ hashes' = q /\ hashmod' = << >>
      /\ hashing' = (HashFactor * mSievePerRound > Remaining(hashes'))
      /\ UNCHANGED <<live, final, phase, reset, gen, sieving, mSievePerRound, hashid, age, checked>>
      BY DEF FetchHashes, Goto, pipeVars, WantHashes
<1>2. PushedOnto(hashes, {gen}, q)
  <2>1. hashmod \in Seq({gen})
    <3>1. \A k \in 1 .. Len(hashmod) : hashmod[k] \in {gen}
          BY Types DEF OneHeader
    <3>2. hashmod \in [1 .. Len(hashmod) -> {gen}]
          BY <3>1, Types, LenProperties
    <3> QED BY <3>2, Types, SeqDef
  <2> QED BY <2>1, Types, PushedFacts
<1> HIDE DEF q
<1>3. hashes' \in Rings
      BY <1>1, <1>2 DEF PushedOnto
<1>4. MiningTypeOK'
  <2>1. hashing' \in BOOLEAN  BY <1>1
  <2>2. << >> \in Seq({0, 1}) /\ Len(<< >>) <= FoundMax  BY SizesAssumption
  <2> QED BY <1>1, <1>3, <2>1, <2>2 DEF MiningTypeOK, Rings
<1>5. InOrder'
      BY <1>1 DEF InOrder
<1>6. OneHeader'
  <2>1. \A s \in Slots : Get(hashes, s).gen = gen => Get(q, s).gen = gen
        BY <1>2 DEF PushedOnto
  <2>2. \A s \in Slots : Waits(q, s) => Get(q, s).gen = gen
        BY <1>2, <2>1 DEF PushedOnto, OneHeader
  <2>3. sieving \subseteq Slots /\ \A id \in live : hashid[id] \in Slots
        BY Types DEF MiningTypeOK
  <2>4. \A k \in DOMAIN hashmod' : hashmod'[k] = gen'
        BY <1>1
  <2>5. \A s \in Slots : Waits(hashes, s)' => (Get(hashes, s).gen)' = gen'
        BY <1>1, <2>2 DEF Waits, Get
  <2>6. \A s \in sieving' : (Get(hashes, s).gen)' = gen'
        BY <1>1, <2>1, <2>3 DEF OneHeader, Get
  <2>7. \A id \in live' : Get(hashes', hashid'[id]).gen = gen'
        BY <1>1, <2>1, <2>3 DEF OneHeader, Get
  <2> QED BY <1>1, <2>4, <2>5, <2>6, <2>7 DEF OneHeader
<1>7. Room'
  <2>1. HashFactor * mSievePerRound <= HashFactor * SW
    <3>1. mSievePerRound \in Nat /\ SW \in Nat /\ mSievePerRound <= SW /\ HashFactor \in Nat
          BY Types, SizesAssumption
    <3> QED BY <3>1, ProductMonotonic
  <2>2. Remaining(hashes') \in 0 .. (Size - 1)
        BY <1>3, RingFacts
  <2>3. HashFactor * mSievePerRound \in Nat /\ HashFactor * SW \in Nat
        BY Types, SizesAssumption
  <2>4. hashing' => HashFactor * mSievePerRound > Remaining(hashes')
        BY <1>1
  <2>5. HashFactor * mSievePerRound > Remaining(hashes')
            => Remaining(hashes') <= HashFactor * SW - 1
        BY <2>1, <2>2, <2>3, SizeAssumption
  <2> QED BY <1>1, <2>4, <2>5 DEF Room
<1> QED BY <1>4, <1>5, <1>6, <1>7

LEMMA SievesMInv ==
    ASSUME MInv, DispatchSieves, F!TypeOK'
    PROVE  MInv'
<1> USE DEF MInv
<1> DEFINE n == IF Remaining(hashes) < mSievePerRound THEN Remaining(hashes)
                ELSE mSievePerRound
           pop[k \in 0 .. n] == IF k = 0 THEN hashes ELSE Pop(pop[k - 1])
<1>1. /\ step = "sieves" /\ step' = "candis"
      /\ hashes' = pop[n] /\ sieving' = {PopSlot(pop[k]) : k \in 0 .. (n - 1)}
      /\ UNCHANGED <<live, final, phase, reset, gen, hashmod, hashing, mSievePerRound, hashid,
                     age, checked>>
      BY DEF DispatchSieves, Goto, pipeVars
<1>2. n \in 0 .. Remaining(hashes) /\ n \in Nat
      BY Types, RingFacts, SizeAssumption
<1>3. Pops(hashes, n, pop)
  <2>1. \E f : Pops(hashes, n, f)
        BY <1>2, PopsExist
  <2> HIDE DEF n
  <2> QED BY <2>1 DEF Pops
<1> HIDE DEF n, pop
<1>4. /\ PoppedFrom(hashes, n, pop[n])
      /\ \A k \in 0 .. (n - 1) : PopSlot(pop[k]) \in Slots /\ Waits(hashes, PopSlot(pop[k]))
      BY <1>2, <1>3, Types, PopsFacts
<1>5. hashes' \in Rings /\ Remaining(hashes') <= Remaining(hashes)
  <2>1. Remaining(hashes) \in Nat
        BY Types, RingFacts, SizeAssumption
  <2> QED BY <1>1, <1>2, <1>4, <2>1 DEF PoppedFrom
<1>6. MiningTypeOK'
  <2>1. sieving' \subseteq Slots  BY <1>1, <1>4
  <2> QED BY <1>1, <1>5, <2>1 DEF MiningTypeOK, Rings
<1>7. InOrder'
      BY <1>1 DEF InOrder
<1>8. OneHeader'
  <2>1. \A s \in Slots : Get(hashes', s) = Get(hashes, s)
        BY <1>1, <1>4 DEF PoppedFrom
  <2>2. \A s \in Slots : Waits(hashes', s) => Waits(hashes, s)
        BY <1>1, <1>4 DEF PoppedFrom
  <2>3. \A id \in live : hashid[id] \in Slots
        BY Types
  <2>4. \A s \in sieving' : Get(hashes', s).gen = gen
        BY <1>1, <1>4, <2>1 DEF OneHeader
  <2>5. \A s \in Slots : Waits(hashes', s) => Get(hashes', s).gen = gen
        BY <2>1, <2>2 DEF OneHeader
  <2>6. \A id \in live : Get(hashes', hashid[id]).gen = gen
        BY <2>1, <2>3 DEF OneHeader
  <2> QED BY <1>1, <2>4, <2>5, <2>6 DEF OneHeader, Waits, Get
<1>9. Room'
  <2>1. Remaining(hashes) \in Nat /\ Remaining(hashes') \in Nat /\ HashFactor * SW \in Nat
        BY <1>5, Types, RingFacts, SizeAssumption, SizesAssumption
  <2> QED BY <1>1, <1>5, <2>1 DEF Room
<1> QED BY <1>6, <1>7, <1>8, <1>9

LEMMA CheckMInv ==
    ASSUME MInv, FinalLive, CheckCandis, F!TypeOK'
    PROVE  MInv'
<1> USE DEF MInv
<1>1. /\ step = "candis" /\ step' = "device" /\ final' = << >>
      /\ live' \subseteq live
      /\ checked' = {[ageSeen |-> Get(hashes, hashid[final[k].id]).age,
                      age     |-> age[final[k].id],
                      gen     |-> Get(hashes, hashid[final[k].id]).gen]
                        : k \in 1 .. Len(final)}
      /\ UNCHANGED <<reset, gen, hashmod, hashing, hashes, sieving, hashid, age>>
      BY DEF CheckCandis, F!Dispatch, Goto
<1>2. \A k \in 1 .. Len(final) : final[k].id \in live /\ final[k].id \in Id
  <2>1. DOMAIN final = 1 .. Len(final)
        BY LenProperties DEF MiningTypeOK, F!TypeOK
  <2> QED BY <2>1, Types DEF FinalLive
<1>3. \A c \in checked' : /\ c \in [ageSeen : 0 .. Old, age : 0 .. Old, gen : {0, 1}]
                          /\ c.gen = gen
  <2> TAKE c \in checked'
  <2>1. PICK k \in 1 .. Len(final) :
            c = [ageSeen |-> Get(hashes, hashid[final[k].id]).age,
                 age     |-> age[final[k].id],
                 gen     |-> Get(hashes, hashid[final[k].id]).gen]
        BY <1>1
  <2> DEFINE id == final[k].id
  <2>2. id \in live /\ id \in Id
        BY <1>2
  <2>3. /\ hashid[id] \in Slots /\ age[id] \in 0 .. Old
        /\ Get(hashes, hashid[id]) \in hash_t
        BY <2>2, Types
  <2>4. Get(hashes, hashid[id]).gen = gen
        BY <2>2 DEF OneHeader
  <2> QED BY <2>1, <2>3, <2>4, Types DEF hash_t
<1>4. mSievePerRound' \in 1 .. SW
  <2>1. mSievePerRound' \in {mSievePerRound, MoreSieves(mSievePerRound)}
        BY DEF CheckCandis
  <2> QED BY <2>1, Types DEF MoreSieves
<1>5. MiningTypeOK'
      BY <1>1, <1>3, <1>4 DEF MiningTypeOK
<1>6. InOrder'
      BY <1>1 DEF InOrder
<1>7. OneHeader'
      BY <1>1, <1>3 DEF OneHeader, Waits
<1>8. Room'
      BY <1>1 DEF Room
<1> QED BY <1>5, <1>6, <1>7, <1>8

LEMMA EndIterationMInv ==
    ASSUME MInv, EndIteration, F!TypeOK'
    PROVE  MInv'
<1> USE DEF MInv
<1>1. /\ step = "device" /\ step' = "top" /\ phase' = "host"
      /\ hashing' = FALSE /\ sieving' = {} /\ checked' = {}
      /\ hashes' = [hashes EXCEPT !.data = [s \in Slots |->
                       [hashes.data[s] EXCEPT !.age = Older(@)]]]
      /\ age' = [id \in Id |-> IF id \in live THEN Older(age[id]) ELSE 0]
      /\ hashid' = [id \in Id |-> IF id \in live THEN hashid[id] ELSE 0]
      /\ UNCHANGED <<live, final, reset, gen, hashmod, mSievePerRound>>
      BY DEF EndIteration, F!Finish, Goto
<1>2. \A a \in 0 .. Old : Older(a) \in 0 .. Old
      BY Types DEF Older
<1>3. /\ hashes'.rd = hashes.rd /\ hashes'.wr = hashes.wr
      /\ hashes'.data = [s \in Slots |-> [hashes.data[s] EXCEPT !.age = Older(@)]]
      /\ hashes' = [data |-> hashes'.data, rd |-> hashes.rd, wr |-> hashes.wr]
  <2>1. hashes = [data |-> hashes.data, rd |-> hashes.rd, wr |-> hashes.wr]
        BY Types, RingFacts
  <2> QED BY <1>1, <2>1
<1>4. \A s \in Slots : hashes'.data[s] \in hash_t /\ hashes'.data[s].gen = hashes.data[s].gen
  <2> TAKE s \in Slots
  <2>1. hashes.data[s] \in hash_t
        BY Types
  <2>2. hashes.data[s].age \in 0 .. Old
        BY <2>1 DEF hash_t
  <2>3. Older(hashes.data[s].age) \in 0 .. Old
        BY <1>2, <2>2
  <2>4. hashes'.data[s] = [hashes.data[s] EXCEPT !.age = Older(hashes.data[s].age)]
        BY <1>3
  <2> QED BY <2>1, <2>3, <2>4 DEF hash_t
<1>5. hashes' \in RingOf(hash_t)
  <2>1. hashes'.data \in [Slots -> hash_t]  BY <1>3, <1>4
  <2>2. hashes.rd \in Slots /\ hashes.wr \in Slots  BY Types, RingFacts
  <2> QED BY <1>3, <2>1, <2>2 DEF RingOf
<1>6. age' \in [Id -> 0 .. Old] /\ hashid' \in [Id -> Slots]
  <2>1. 0 \in Slots /\ 0 \in 0 .. Old
        BY SizeAssumption, Types DEF Slots
  <2> QED BY <1>1, <1>2, <2>1, Types
<1>7. MiningTypeOK'
      BY <1>1, <1>5, <1>6 DEF MiningTypeOK
<1>8. InOrder'
      BY <1>1 DEF InOrder
<1>9. OneHeader'
  <2>1. \A s \in Slots : Get(hashes', s).gen = Get(hashes, s).gen
        BY <1>4 DEF Get
  <2>2. \A s \in Slots : Waits(hashes', s) => Waits(hashes, s)
        BY <1>3 DEF Waits
  <2>3. \A id \in live : hashid'[id] = hashid[id] /\ hashid[id] \in Slots
        BY <1>1, Types
  <2>4. \A s \in Slots : Waits(hashes', s) => Get(hashes', s).gen = gen
        BY <2>1, <2>2 DEF OneHeader
  <2>5. \A id \in live : Get(hashes', hashid'[id]).gen = gen
        BY <2>1, <2>3 DEF OneHeader
  <2> QED BY <1>1, <2>4, <2>5 DEF OneHeader, Waits, Get
<1>10. Room'
  <2>1. Remaining(hashes)' = Remaining(hashes)
        BY <1>3 DEF Remaining
  <2> QED BY <1>1, <2>1 DEF Room
<1> QED BY <1>7, <1>8, <1>9, <1>10

LEMMA HashFoundMInv ==
    ASSUME MInv, HashFound, F!TypeOK'
    PROVE  MInv'
<1> USE DEF MInv
<1>1. /\ step = "device" /\ hashing /\ Len(hashmod) < FoundMax
      /\ hashmod' = Append(hashmod, gen)
      /\ UNCHANGED <<live, final, phase, step, reset, gen, hashing, hashes, sieving,
                     mSievePerRound, hashid, age, checked>>
      BY DEF HashFound, pipeVars
<1>2. /\ hashmod' \in Seq({0, 1}) /\ Len(hashmod') = Len(hashmod) + 1
      /\ \A k \in 1 .. Len(hashmod) : hashmod'[k] = hashmod[k]
      /\ hashmod'[Len(hashmod) + 1] = gen
      BY <1>1, Types, AppendProperties
<1>3. MiningTypeOK'
  <2>1. Len(hashmod') <= FoundMax  BY <1>1, <1>2, Types, SizesAssumption
  <2> QED BY <1>1, <1>2, <2>1 DEF MiningTypeOK
<1>4. InOrder'
      BY <1>1 DEF InOrder
<1>5. \A k \in DOMAIN hashmod' : hashmod'[k] = gen
  <2>1. DOMAIN hashmod' = 1 .. (Len(hashmod) + 1)
        BY <1>2, LenProperties
  <2>2. \A k \in 1 .. (Len(hashmod) + 1) : k \in 1 .. Len(hashmod) \/ k = Len(hashmod) + 1
        BY Types
  <2>3. \A k \in 1 .. Len(hashmod) : hashmod[k] = gen
        BY Types DEF OneHeader
  <2> QED BY <1>2, <2>1, <2>2, <2>3
<1>6. OneHeader'
      BY <1>1, <1>5 DEF OneHeader, Waits
<1>7. Room'
      BY <1>1 DEF Room
<1> QED BY <1>3, <1>4, <1>6, <1>7

LEMMA CandidateMInv ==
    ASSUME MInv, CandidateFound, F!TypeOK'
    PROVE  MInv'
<1> USE DEF MInv
<1>1. PICK p \in Pipe, new \in Id, s \in sieving :
            /\ F!SieveFinds(p, new)
            /\ hashid' = [hashid EXCEPT ![new] = s]
            /\ age' = [age EXCEPT ![new] = Get(hashes, s).age]
            /\ UNCHANGED <<step, reset, gen, hashmod, hashing, hashes, sieving,
                           mSievePerRound, checked>>
      BY DEF CandidateFound
<1>2. phase = "device" /\ live' = live \cup {new} /\ UNCHANGED <<final, phase>>
      BY <1>1 DEF F!SieveFinds
<1>3. s \in Slots /\ Get(hashes, s).age \in 0 .. Old
      BY <1>1, Types DEF MiningTypeOK, hash_t
<1>4. MiningTypeOK'
  <2>1. hashid' \in [Id -> Slots] /\ age' \in [Id -> 0 .. Old]
        BY <1>1, <1>3, Types
  <2> QED BY <1>1, <2>1 DEF MiningTypeOK
<1>5. InOrder'
      BY <1>1, <1>2 DEF InOrder
<1>6. OneHeader'
  <2>1. \A id \in live' : Get(hashes, hashid'[id]).gen = gen
    <3> TAKE id \in live'
    <3>1. CASE id = new
          BY <1>1, <3>1, Types DEF OneHeader
    <3>2. CASE id # new
          BY <1>1, <1>2, <3>2, Types DEF OneHeader
    <3> QED BY <3>1, <3>2
  <2> QED BY <1>1, <2>1 DEF OneHeader, Waits
<1>7. Room'
      BY <1>1 DEF Room
<1> QED BY <1>4, <1>5, <1>6, <1>7

LEMMA TestMInv ==
    ASSUME MInv, FermatTest, F!TypeOK'
    PROVE  MInv'
<1> USE DEF MInv
<1>1. /\ phase = "device" /\ phase' = phase /\ live' \subseteq live
      /\ UNCHANGED <<step, reset, gen, hashmod, hashing, hashes, sieving,
                     mSievePerRound, hashid, age, checked>>
  <2>1. PICK p \in Pipe : \E i \in 1 .. bsize[p], prime \in BOOLEAN : F!TestItem(p, i, prime)
        BY DEF FermatTest
  <2>2. PICK i \in 1 .. bsize[p], prime \in BOOLEAN : F!TestItem(p, i, prime)
        BY <2>1
  <2>3. phase = "device" /\ phase' = phase /\ live' \subseteq live
        BY <2>2 DEF F!TestItem
  <2> QED BY <2>3 DEF FermatTest
<1>2. MiningTypeOK'
      BY <1>1 DEF MiningTypeOK
<1>3. InOrder'
      BY <1>1 DEF InOrder
<1>4. OneHeader'
      BY <1>1 DEF OneHeader, Waits
<1>5. Room'
      BY <1>1 DEF Room
<1> QED BY <1>2, <1>3, <1>4, <1>5

LEMMA NextMInv == MInv /\ PipesRight /\ F!TypeOK' /\ [MiningNext]_miningVars => MInv'
<1> SUFFICES ASSUME MInv, PipesRight, F!TypeOK', [MiningNext]_miningVars
             PROVE  MInv'
    OBVIOUS
<1>1. CASE UNCHANGED miningVars
      BY <1>1 DEF miningVars, pipeVars, MInv, MiningTypeOK, InOrder, OneHeader, Room, Waits
<1> QED BY <1>1, NewWorkMInv, SameWorkMInv, FetchMInv, SievesMInv, CheckMInv,
           EndIterationMInv, HashFoundMInv, CandidateMInv, TestMInv DEF MiningNext, PipesRight

LEMMA AlwaysMInv == MiningSpec => []MInv
<1>1. MiningInit /\ PipesRight => MInv
      BY InitMInv DEF PipesRight
<1>2. MInv /\ PipesRight /\ PipesRight' /\ [MiningNext]_miningVars => MInv'
      BY NextMInv DEF PipesRight
<1> QED BY <1>1, <1>2, PipesAlwaysRight, PTL DEF MiningSpec

-----------------------------------------------------------------------------

\* The variables of a mining thread have their types; in particular the hash of
\* every candidate lies in a slot of the ring.
THEOREM MiningTypeCorrect == MiningSpec => []MiningTypeOK
<1>1. MInv => MiningTypeOK
      BY DEF MInv
<1> QED BY <1>1, AlwaysMInv, PTL

\* The ring never refuses a hash, for all sizes with room for what may be in it
\* when the kernel is started and all that the kernel can report.
THEOREM RoomForAllHashes == MiningSpec => []RingNeverFull
<1>1. MInv => RingNeverFull
  <2> SUFFICES ASSUME MInv, step = "fetch"
               PROVE  Remaining(hashes) + Len(hashmod) <= Size - 1
      BY DEF RingNeverFull
  <2>1. Remaining(hashes) \in 0 .. (Size - 1) /\ Len(hashmod) \in Nat /\ Len(hashmod) <= FoundMax
        BY Types, RingFacts DEF MInv, MiningTypeOK
  <2>2. CASE hashmod = << >>
        BY <2>1, <2>2, SizeAssumption
  <2>3. CASE hashmod # << >>
    <3>1. Remaining(hashes) <= HashFactor * SW - 1
          BY <2>3 DEF MInv, Room
    <3>2. HashFactor * SW \in Nat
          BY SizesAssumption
    <3> QED BY <2>1, <3>1, <3>2, RingLargeEnough, SizeAssumption, SizesAssumption
  <2> QED BY <2>2, <2>3
<1> QED BY <1>1, AlwaysMInv, PTL

\* Nothing made of an earlier header is left in any stage, through all the loops
\* over the ring, for any number of pipelines.
THEOREM StagesOnOneHeader == MiningSpec => []OneHeaderInAllStages
<1>1. MInv /\ PipesRight => OneHeaderInAllStages
  <2> SUFFICES ASSUME MInv, PipesRight
               PROVE  OneHeaderInAllStages
      OBVIOUS
  <2>1. \A s \in Slots : WaitingSlot(s) <=> Waits(hashes, s)
        BY DEF WaitingSlot, Waits
  <2>2. \A k \in DOMAIN final : Get(hashes, hashid[final[k].id]).gen = gen
        BY DEF MInv, OneHeader, PipesRight, FinalLive
  <2>3. NoCandidateAfterReset
        BY DEF MInv, InOrder, NoCandidateAfterReset
  <2> QED BY <2>1, <2>2, <2>3 DEF OneHeaderInAllStages, MInv, OneHeader
<1> QED BY <1>1, AlwaysMInv, PipesAlwaysRight, PTL

\* The pipelines keep what FermatPipeline_proofs shows of them when they are driven
\* by the host as it is: no dispatch runs past its buffer, no candidate is lost or
\* doubled, and what is delivered has passed all tests.
THEOREM PipesUnderHost ==
    MiningSpec => [](F!DispatchInBounds /\ F!EachCandidateOnce /\ F!FinalPassedAllTests)
<1>1. FP!Spec => []FP!DispatchInBounds
      BY FP!DispatchSafe, PipesAssumption
<1>2. FP!Spec => []FP!EachCandidateOnce
      BY FP!NoneLostOrDoubled, PipesAssumption
<1>3. FP!Spec => []FP!FinalPassedAllTests
      BY FP!FinalFullyTested, PipesAssumption
<1>4. FP!DispatchInBounds => F!DispatchInBounds
      BY DEF FP!DispatchInBounds, F!DispatchInBounds, FP!ridx, F!ridx, FP!widx, F!widx
<1>5. FP!EachCandidateOnce => F!EachCandidateOnce
  <2>1. \A id \in Id : FP!Places(id) = F!Places(id)
        BY DEF FP!Places, F!Places, FP!InLists, F!InLists, FP!InBuf, F!InBuf, FP!InSieve,
           F!InSieve, FP!InFinal, F!InFinal, FP!Tested, F!Tested, FP!ridx, F!ridx,
           FP!widx, F!widx
  <2> QED BY <2>1 DEF FP!EachCandidateOnce, F!EachCandidateOnce, FP!Cardinality, F!Cardinality
<1>6. FP!FinalPassedAllTests => F!FinalPassedAllTests
      BY DEF FP!FinalPassedAllTests, F!FinalPassedAllTests
<1> QED BY <1>1, <1>2, <1>3, <1>4, <1>5, <1>6, ImplementsPipes, PTL

-----------------------------------------------------------------------------
(* Arithmetic.                                                             *)

\* The lattices of times of two threads are disjoint.
LEMMA LatticesDisjoint ==
    ASSUME NEW t \in Thread, NEW u \in Thread, NEW k \in Nat, NEW j \in Nat,
           t + mThreads * k = u + mThreads * j
    PROVE  t = u
<1> USE ThreadsAssumption DEF Thread
<1>1. ASSUME NEW a \in Thread, NEW b \in Thread, NEW m \in Nat, NEW n \in Nat,
             m < n, a + mThreads * m = b + mThreads * n
      PROVE  FALSE
  <2>1. n - m - 1 \in Nat  BY <1>1
  <2>2. mThreads * (n - m - 1) \in Nat  BY <2>1
  <2>3. mThreads * n = mThreads * m + mThreads + mThreads * (n - m - 1)  OBVIOUS
  <2>4. mThreads * m \in Nat  OBVIOUS
  <2> QED BY <1>1, <2>2, <2>3, <2>4
<1>2. CASE k = j
  <2>1. mThreads * k \in Nat  OBVIOUS
  <2> QED BY <1>2, <2>1
<1>3. CASE k < j  BY <1>1, <1>3
<1>4. CASE j < k  BY <1>1, <1>4
<1> QED BY <1>2, <1>3, <1>4

\* A batch is never empty and always shorter than half a word.
LEMMA NumHashBounds ==
    ASSUME NEW missing \in 1 .. Capacity
    PROVE  NumHash(missing) \in 1 .. HalfWord - 1
<1> USE BatchAssumption
<1>1. missing * Unit \in Nat  OBVIOUS
<1>2. Capacity - missing \in Nat  OBVIOUS
<1>3. (Capacity - missing) * Unit \in Nat  BY <1>2
<1>4. Capacity * Unit = missing * Unit + (Capacity - missing) * Unit  OBVIOUS
<1>5. Capacity * Unit \in Nat  OBVIOUS
<1>6. (missing * Unit) % mLSize \in 0 .. mLSize - 1  BY <1>1
<1>7. missing * Unit <= Capacity * Unit  BY <1>1, <1>3, <1>4, <1>5
<1> DEFINE p == missing * Unit
<1>8. p \in Nat /\ p <= Capacity * Unit  BY <1>1, <1>7
<1>9. p % mLSize \in 0 .. mLSize - 1  BY <1>6
<1>10. NumHash(missing) = p + mLSize - (p % mLSize)  BY DEF NumHash
<1> HIDE DEF p
<1> QED BY <1>5, <1>8, <1>9, <1>10

-----------------------------------------------------------------------------
(* The inductive invariant.  NoHeaderTwice is not inductive: it needs to   *)
(* know that the times of a thread lie on its own lattice, and that what a *)
(* thread has dispatched lies behind its header.                           *)

OnLattice(t, w, time) ==
    \E k \in Nat : time = WorkTime[w] + (t + mThreads * k)

HeaderOnLattice ==
    \A t \in Thread : header[t].work > 0 =>
       OnLattice(t, header[t].work, header[t].time)

Behind(b, h) ==
    /\ b.work \in 1 .. h.work
    /\ b.work = h.work => \/ b.time < h.time
                          \/ b.time = h.time /\ b.first + b.size <= h.nonce

BatchesBehind ==
    \A t \in Thread : \A i \in DOMAIN hashed[t] :
       /\ OnLattice(t, hashed[t][i].work, hashed[t][i].time)
       /\ Behind(hashed[t][i], header[t])

BatchCurrent ==
    \A t \in Thread : batch[t] # NoBatch =>
       /\ batch[t].work = header[t].work
       /\ batch[t].time = header[t].time
       /\ batch[t].first + batch[t].size <= header[t].nonce

ThreadNeverTwice ==
    \A t \in Thread : \A i, j \in DOMAIN hashed[t] :
       i # j => ~Overlap(hashed[t][i], hashed[t][j])

NonceIInv ==
    /\ NonceTypeOK
    /\ HeaderOnLattice
    /\ BatchesBehind
    /\ BatchCurrent
    /\ ThreadNeverTwice
    /\ NonceFits
    /\ RebuiltAsFound

\* Two threads never hash the same header: their lattices are disjoint.
LEMMA NonceIInvSuffices == NonceIInv => NoHeaderTwice
<1> SUFFICES ASSUME NonceIInv,
                    NEW t \in Thread, NEW u \in Thread,
                    NEW i \in DOMAIN hashed[t], NEW j \in DOMAIN hashed[u],
                    <<t, i>> # <<u, j>>
             PROVE  ~Overlap(hashed[t][i], hashed[u][j])
    BY DEF NoHeaderTwice
<1>1. CASE t = u
  <2>1. i # j  BY <1>1
  <2> QED BY <1>1, <2>1 DEF NonceIInv, ThreadNeverTwice
<1>2. CASE t # u
  <2> DEFINE a == hashed[t][i]  b == hashed[u][j]
  <2>1. a \in Batch /\ b \in Batch  BY DEF NonceIInv, NonceTypeOK
  <2>2. a.work \in 1 .. LastWork
    <3>1. a.work \in 1 .. header[t].work  BY DEF NonceIInv, BatchesBehind, Behind
    <3>2. header[t].work \in 0 .. LastWork  BY DEF NonceIInv, NonceTypeOK, BlockHeader
    <3> QED BY <3>1, <3>2, WorkAssumption
  <2>3. PICK k \in Nat : a.time = WorkTime[a.work] + (t + mThreads * k)
        BY DEF NonceIInv, BatchesBehind, OnLattice
  <2>4. PICK m \in Nat : b.time = WorkTime[b.work] + (u + mThreads * m)
        BY DEF NonceIInv, BatchesBehind, OnLattice
  <2>5. SUFFICES ASSUME a.work = b.work, a.time = b.time PROVE FALSE
        BY DEF Overlap
  <2> DEFINE w == WorkTime[a.work]
             p == t + mThreads * k
             q == u + mThreads * m
  <2>6. w \in Nat  BY <2>2, WorkAssumption
  <2>7. p \in Nat /\ q \in Nat  BY ThreadsAssumption DEF Thread
  <2>8. w + p = w + q  BY <2>3, <2>4, <2>5
  <2> HIDE DEF w, p, q
  <2>9. p = q  BY <2>6, <2>7, <2>8
  <2>10. t = u  BY <2>9, LatticesDisjoint DEF p, q
  <2> QED BY <1>2, <2>10
<1> QED BY <1>1, <1>2

LEMMA InitNonceIInv == NonceInit => NonceIInv
<1> SUFFICES ASSUME NonceInit PROVE NonceIInv
    OBVIOUS
<1> USE DEF NonceInit
<1>1. 0 \in Nonce  BY BatchAssumption DEF Nonce
<1>2. NoBatch \in Batch  BY <1>1, WorkAssumption DEF NoBatch, Batch
<1>3. NonceTypeOK
  <2>1. rebuilt \in [device : Batch, nonce : Nonce, host : BlockHeader]
        BY <1>1, <1>2, WorkAssumption DEF NothingRebuilt, BlockHeader
  <2> QED BY <1>1, <1>2, <2>1, WorkAssumption DEF NonceTypeOK, BlockHeader
<1>4. HeaderOnLattice /\ BatchesBehind /\ BatchCurrent /\ ThreadNeverTwice /\ NonceFits
      BY DEF HeaderOnLattice, BatchesBehind, BatchCurrent, ThreadNeverTwice, NonceFits
<1>5. RebuiltAsFound  BY DEF RebuiltAsFound, NothingRebuilt, NoBatch
<1> QED BY <1>3, <1>4, <1>5 DEF NonceIInv

-----------------------------------------------------------------------------
(* The steps.                                                              *)

LEMMA NewWorkNonceIInv ==
    ASSUME NonceIInv, NEW t \in Thread, NEW w \in 1 .. LastWork, StartWork(t, w)
    PROVE  NonceIInv'
<1> USE DEF StartWork, Thread
<1> DEFINE h == FirstHeader(t, w)
<1>1. header \in [Thread -> BlockHeader] /\ batch \in [Thread -> Batch]
      BY DEF NonceIInv, NonceTypeOK
<1>2. WorkTime[w] \in Nat  BY WorkAssumption
<1>3. h \in BlockHeader
  <2>1. WorkTime[w] + t \in Nat  BY <1>2
  <2>2. 1 \in Nonce  BY BatchAssumption DEF Nonce
  <2> QED BY <2>1, <2>2, WorkAssumption DEF FirstHeader, BlockHeader
<1>4. 0 \in Nonce  BY BatchAssumption DEF Nonce
<1>5. NoBatch \in Batch  BY <1>4, WorkAssumption DEF NoBatch, Batch
<1>6. NothingRebuilt \in [device : Batch, nonce : Nonce, host : BlockHeader]
      BY <1>4, <1>5, WorkAssumption DEF NothingRebuilt, BlockHeader
<1>7. header'[t] = h /\ batch'[t] = NoBatch
      BY <1>1
<1>8. \A u \in Thread : u # t => header'[u] = header[u] /\ batch'[u] = batch[u]
      BY <1>1
<1>9. NonceTypeOK'
  <2>1. header' \in [Thread -> BlockHeader]  BY <1>1, <1>3
  <2>2. batch' \in [Thread -> Batch]  BY <1>1, <1>5
  <2>3. rebuilt' \in [device : Batch, nonce : Nonce, host : BlockHeader]  BY <1>6
  <2>4. hashed' \in [Thread -> Seq(Batch)]  BY DEF NonceIInv, NonceTypeOK
  <2> QED BY <2>1, <2>2, <2>3, <2>4 DEF NonceTypeOK
<1>10. HeaderOnLattice'
  <2>1. OnLattice(t, w, h.time)
    <3>1. h.time = WorkTime[w] + (t + mThreads * 0)
          BY <1>2, ThreadsAssumption DEF FirstHeader
    <3> QED BY <3>1 DEF OnLattice
  <2>2. h.work = w  BY DEF FirstHeader
  <2> HIDE DEF h
  <2>3. \A u \in Thread : u # t =>
           (header'[u].work > 0 => OnLattice(u, header'[u].work, header'[u].time))
        BY <1>8 DEF NonceIInv, HeaderOnLattice
  <2> QED BY <1>7, <2>1, <2>2, <2>3 DEF HeaderOnLattice, OnLattice
<1>11. BatchesBehind'
  <2>1. \A i \in DOMAIN hashed[t] : Behind(hashed[t][i], h)
    <3> SUFFICES ASSUME NEW i \in DOMAIN hashed[t] PROVE Behind(hashed[t][i], h)
        OBVIOUS
    <3>1. hashed[t][i].work \in 1 .. header[t].work  BY DEF NonceIInv, BatchesBehind, Behind
    <3>2. header[t].work \in Nat /\ header[t].work < w  BY <1>1 DEF BlockHeader
    <3> QED BY <3>1, <3>2 DEF Behind, FirstHeader
  <2> HIDE DEF h
  <2> QED BY <1>7, <1>8, <2>1 DEF NonceIInv, BatchesBehind, OnLattice, Behind
<1>12. BatchCurrent'  BY <1>7, <1>8 DEF NonceIInv, BatchCurrent
<1>13. ThreadNeverTwice' /\ NonceFits'
       BY DEF NonceIInv, ThreadNeverTwice, NonceFits, Overlap
<1>14. RebuiltAsFound'  BY DEF RebuiltAsFound, NothingRebuilt, NoBatch
<1> QED BY <1>9, <1>10, <1>11, <1>12, <1>13, <1>14 DEF NonceIInv

LEMMA FetchNonceIInv ==
    ASSUME NonceIInv, NEW t \in Thread, Fetch(t)
    PROVE  NonceIInv'
<1> USE DEF Fetch
<1>1. header[t] \in BlockHeader /\ batch[t] \in Batch  BY DEF NonceIInv, NonceTypeOK
<1>2. PICK n \in batch[t].first .. batch[t].first + batch[t].size - 1 :
         rebuilt' = [device |-> batch[t], nonce |-> n,
                     host   |-> [header[t] EXCEPT !.nonce = n]]
      OBVIOUS
<1>3. batch[t].first + batch[t].size <= header[t].nonce
      BY DEF NonceIInv, BatchCurrent
<1>4. n \in Nonce
      BY <1>1, <1>3, BatchAssumption DEF BlockHeader, Batch, Nonce
<1>5. rebuilt' \in [device : Batch, nonce : Nonce, host : BlockHeader]
      BY <1>1, <1>2, <1>4 DEF BlockHeader
<1>6. NonceTypeOK'  BY <1>5 DEF NonceIInv, NonceTypeOK
<1>7. RebuiltAsFound'
  <2>1. batch[t].work = header[t].work /\ batch[t].time = header[t].time
        BY DEF NonceIInv, BatchCurrent
  <2> QED BY <1>1, <1>2, <2>1 DEF RebuiltAsFound, BlockHeader
<1>8. HeaderOnLattice' /\ BatchesBehind' /\ BatchCurrent'
      BY DEF NonceIInv, HeaderOnLattice, BatchesBehind, BatchCurrent, OnLattice, Behind
<1>9. ThreadNeverTwice' /\ NonceFits'
      BY DEF NonceIInv, ThreadNeverTwice, NonceFits, Overlap
<1> QED BY <1>6, <1>7, <1>8, <1>9 DEF NonceIInv

LEMMA DispatchNothingNonceIInv ==
    ASSUME NonceIInv, NEW t \in Thread, DispatchNothing(t)
    PROVE  NonceIInv'
<1> USE DEF DispatchNothing
<1>1. batch \in [Thread -> Batch]  BY DEF NonceIInv, NonceTypeOK
<1>2. 0 \in Nonce  BY BatchAssumption DEF Nonce
<1>3. NoBatch \in Batch  BY <1>2, WorkAssumption DEF NoBatch, Batch
<1>4. NothingRebuilt \in [device : Batch, nonce : Nonce, host : BlockHeader]
      BY <1>2, <1>3, WorkAssumption DEF NothingRebuilt, BlockHeader
<1>5. batch' \in [Thread -> Batch]  BY <1>1, <1>3
<1>6. NonceTypeOK'  BY <1>4, <1>5 DEF NonceIInv, NonceTypeOK
<1>7. BatchCurrent'
  <2>1. \A u \in Thread : batch'[u] # NoBatch => batch'[u] = batch[u]  BY <1>1
  <2> QED BY <2>1 DEF NonceIInv, BatchCurrent
<1>8. RebuiltAsFound'  BY DEF RebuiltAsFound, NothingRebuilt, NoBatch
<1>9. HeaderOnLattice' /\ BatchesBehind'
      BY DEF NonceIInv, HeaderOnLattice, BatchesBehind, OnLattice, Behind
<1>10. ThreadNeverTwice' /\ NonceFits'
      BY DEF NonceIInv, ThreadNeverTwice, NonceFits, Overlap
<1> QED BY <1>6, <1>7, <1>8, <1>9, <1>10 DEF NonceIInv

\* What the header is after the nonces have perhaps run out.
LEMMA NextTimeParts ==
    ASSUME NEW h \in BlockHeader, NEW t \in Thread, h.work > 0,
           OnLattice(t, h.work, h.time)
    PROVE  /\ NextTime(h) \in BlockHeader
           /\ NextTime(h).work = h.work
           /\ NextTime(h).nonce <= HalfWord
           /\ \/ NextTime(h).time > h.time
              \/ NextTime(h).time = h.time /\ NextTime(h).nonce = h.nonce
           /\ OnLattice(t, h.work, NextTime(h).time)
<1> USE ThreadsAssumption
<1>1. /\ h.work \in 0 .. LastWork /\ h.time \in Nat /\ h.nonce \in Nonce
      BY DEF BlockHeader
<1>2. h.nonce \in Nat  BY <1>1, BatchAssumption DEF Nonce
<1>3. CASE h.nonce > HalfWord
  <2>1. /\ NextTime(h).work = h.work
        /\ NextTime(h).time = h.time + mThreads
        /\ NextTime(h).nonce = 1
        BY <1>3 DEF NextTime, BlockHeader
  <2>2. 1 \in Nonce /\ 1 <= HalfWord  BY BatchAssumption DEF Nonce
  <2>3. NextTime(h) \in BlockHeader
    <3> DEFINE g == [h EXCEPT !.time = @ + mThreads]
    <3>1. h.time + mThreads \in Nat  BY <1>1
    <3>2. g \in BlockHeader  BY <3>1 DEF BlockHeader
    <3>3. [g EXCEPT !.nonce = 1] \in BlockHeader  BY <2>2, <3>2 DEF BlockHeader
    <3>4. NextTime(h) = [g EXCEPT !.nonce = 1]  BY <1>3, Zenon DEF NextTime
    <3> QED BY <3>3, <3>4
  <2>4. OnLattice(t, h.work, h.time + mThreads)
    <3>1. PICK k \in Nat : h.time = WorkTime[h.work] + (t + mThreads * k)
          BY DEF OnLattice
    <3>2. mThreads * (k + 1) = mThreads * k + mThreads  OBVIOUS
    <3>3. WorkTime[h.work] \in Nat  BY <1>1, WorkAssumption
    <3>4. mThreads * k \in Nat /\ t \in Nat  BY DEF Thread
    <3>5. h.time + mThreads = WorkTime[h.work] + (t + mThreads * (k + 1))
          BY <3>1, <3>2, <3>3, <3>4
    <3>6. k + 1 \in Nat  OBVIOUS
    <3> QED BY <3>5, <3>6 DEF OnLattice
  <2>5. OnLattice(t, h.work, NextTime(h).time)  BY <2>1, <2>4
  <2>6. NextTime(h).time > h.time  BY <1>1, <2>1
  <2> QED BY <2>1, <2>2, <2>3, <2>5, <2>6
<1>4. CASE ~(h.nonce > HalfWord)
  <2>1. NextTime(h) = h  BY <1>4 DEF NextTime
  <2> QED BY <1>2, <1>4, <2>1, BatchAssumption
<1> QED BY <1>3, <1>4

LEMMA DispatchNonceIInv ==
    ASSUME NonceIInv, NEW t \in Thread, NEW missing \in 1 .. Capacity,
           Dispatch(t, missing)
    PROVE  NonceIInv'
<1> DEFINE h    == NextTime(header[t])
           size == NumHash(missing)
           b    == [work |-> h.work, time |-> h.time, first |-> h.nonce, size |-> size]
           h2   == [h EXCEPT !.nonce = @ + size]
<1>1. /\ header \in [Thread -> BlockHeader] /\ batch \in [Thread -> Batch]
      /\ hashed \in [Thread -> Seq(Batch)]
      BY DEF NonceIInv, NonceTypeOK
<1>2. /\ header[t].work > 0
      /\ batch' = [batch EXCEPT ![t] = b]
      /\ header' = [header EXCEPT ![t] = h2]
      /\ hashed' = [hashed EXCEPT ![t] = Append(@, batch'[t])]
      /\ rebuilt' = NothingRebuilt
      BY DEF Dispatch
<1>3. OnLattice(t, header[t].work, header[t].time)
      BY <1>2 DEF NonceIInv, HeaderOnLattice
<1>4. header[t] \in BlockHeader  BY <1>1
<1>5. /\ h \in BlockHeader
      /\ h.work = header[t].work
      /\ h.nonce <= HalfWord
      /\ h.time > header[t].time \/ (h.time = header[t].time /\ h.nonce = header[t].nonce)
      /\ OnLattice(t, header[t].work, h.time)
      BY <1>2, <1>3, <1>4, NextTimeParts
<1>6. size \in 1 .. HalfWord - 1  BY NumHashBounds
<1>7. /\ h.work \in 0 .. LastWork /\ h.time \in Nat /\ h.nonce \in Nonce
      /\ header[t].work \in 0 .. LastWork /\ header[t].time \in Nat
      /\ header[t].nonce \in Nonce
      BY <1>4, <1>5 DEF BlockHeader
<1> HIDE DEF h, size
<1>8. /\ b.work = h.work /\ b.time = h.time /\ b.first = h.nonce /\ b.size = size
      /\ b \in Batch
      BY <1>6, <1>7, BatchAssumption DEF Batch
<1>9. h.nonce + size \in Nonce  BY <1>5, <1>6, <1>7, BatchAssumption DEF Nonce
<1>10. /\ h2.work = h.work /\ h2.time = h.time /\ h2.nonce = h.nonce + size
       /\ h2 \in BlockHeader
       BY <1>5, <1>7, <1>9 DEF BlockHeader
<1> HIDE DEF b, h2
<1>11. header'[t] = h2 /\ batch'[t] = b /\ hashed'[t] = Append(hashed[t], b)
       BY <1>1, <1>2
<1>12. \A u \in Thread : u # t =>
          header'[u] = header[u] /\ batch'[u] = batch[u] /\ hashed'[u] = hashed[u]
       BY <1>1, <1>2
<1>13. hashed[t] \in Seq(Batch)  BY <1>1
<1>14. /\ DOMAIN hashed[t] = 1 .. Len(hashed[t])
       /\ Len(hashed[t]) \in Nat
       /\ DOMAIN hashed'[t] = 1 .. Len(hashed[t]) + 1
       /\ \A i \in DOMAIN hashed[t] : hashed'[t][i] = hashed[t][i]
       /\ hashed'[t][Len(hashed[t]) + 1] = b
       BY <1>8, <1>11, <1>13
<1>15. \A i \in DOMAIN hashed'[t] :
          \/ i \in DOMAIN hashed[t] /\ hashed'[t][i] = hashed[t][i]
          \/ hashed'[t][i] = b
       BY <1>14
<1>16. NonceTypeOK'
  <2>1. NothingRebuilt \in [device : Batch, nonce : Nonce, host : BlockHeader]
    <3>1. 0 \in Nonce  BY BatchAssumption DEF Nonce
    <3> QED BY <3>1, WorkAssumption DEF NothingRebuilt, NoBatch, Batch, BlockHeader
  <2>2. hashed' \in [Thread -> Seq(Batch)]  BY <1>1, <1>2, <1>8, <1>11
  <2>3. header' \in [Thread -> BlockHeader] /\ batch' \in [Thread -> Batch]
        BY <1>1, <1>2, <1>8, <1>10
  <2> QED BY <1>2, <2>1, <2>2, <2>3 DEF NonceTypeOK
<1>17. HeaderOnLattice'
  <2>1. OnLattice(t, h2.work, h2.time)  BY <1>5, <1>10
  <2> QED BY <1>11, <1>12, <2>1 DEF NonceIInv, HeaderOnLattice, OnLattice
<1>18. \A i \in DOMAIN hashed[t] :
          /\ hashed[t][i] \in Batch
          /\ Behind(hashed[t][i], header[t])
       BY <1>13 DEF NonceIInv, BatchesBehind
<1>19. BatchesBehind'
  <2>1. Behind(b, h2)
    <3>1. h.work \in 1 .. h.work  BY <1>2, <1>5, <1>7
    <3>2. h.nonce + size <= h.nonce + size  BY <1>6, <1>7, BatchAssumption DEF Nonce
    <3> QED BY <1>8, <1>10, <3>1, <3>2 DEF Behind
  <2>2. \A i \in DOMAIN hashed[t] : Behind(hashed[t][i], h2)
    <3> SUFFICES ASSUME NEW i \in DOMAIN hashed[t] PROVE Behind(hashed[t][i], h2)
        OBVIOUS
    <3> DEFINE c == hashed[t][i]
    <3>1. c \in Batch /\ Behind(c, header[t])  BY <1>18
    <3>2. c.time \in Nat /\ c.first \in Nat /\ c.size \in Nat /\ c.work \in Nat
          BY <3>1, BatchAssumption DEF Batch, Nonce
    <3> HIDE DEF c
    <3>3. Behind(c, h2)
          BY <1>5, <1>6, <1>7, <1>10, <3>1, <3>2, BatchAssumption DEF Behind, Nonce
    <3> QED BY <3>3 DEF c
  <2>3. OnLattice(t, b.work, b.time)  BY <1>5, <1>8
  <2>4. \A i \in DOMAIN hashed'[t] :
           /\ OnLattice(t, hashed'[t][i].work, hashed'[t][i].time)
           /\ Behind(hashed'[t][i], header'[t])
        BY <1>11, <1>15, <2>1, <2>2, <2>3 DEF NonceIInv, BatchesBehind
  <2> QED BY <1>12, <2>4 DEF NonceIInv, BatchesBehind, OnLattice, Behind
<1>20. BatchCurrent'
  <2>1. b.work = h2.work /\ b.time = h2.time /\ b.first + b.size <= h2.nonce
        BY <1>6, <1>7, <1>8, <1>10, BatchAssumption DEF Nonce
  <2> QED BY <1>11, <1>12, <2>1 DEF NonceIInv, BatchCurrent
<1>21. \A i \in DOMAIN hashed[t] : ~Overlap(hashed[t][i], b) /\ ~Overlap(b, hashed[t][i])
  <2> SUFFICES ASSUME NEW i \in DOMAIN hashed[t]
               PROVE  ~Overlap(hashed[t][i], b) /\ ~Overlap(b, hashed[t][i])
      OBVIOUS
  <2> DEFINE c == hashed[t][i]
  <2>1. c \in Batch /\ Behind(c, header[t])  BY <1>18
  <2>2. c.time \in Nat /\ c.first \in Nat /\ c.size \in Nat /\ c.work \in Nat
        BY <2>1, BatchAssumption DEF Batch, Nonce
  <2> HIDE DEF c
  <2>3. ~Overlap(c, b) /\ ~Overlap(b, c)
        BY <1>5, <1>6, <1>7, <1>8, <2>1, <2>2, BatchAssumption DEF Behind, Overlap, Nonce
  <2> QED BY <2>3 DEF c
<1>22. ThreadNeverTwice'
  <2>1. \A i, j \in DOMAIN hashed'[t] :
           i # j => ~Overlap(hashed'[t][i], hashed'[t][j])
    <3> SUFFICES ASSUME NEW i \in DOMAIN hashed'[t], NEW j \in DOMAIN hashed'[t], i # j
                 PROVE  ~Overlap(hashed'[t][i], hashed'[t][j])
        OBVIOUS
    <3>1. CASE i \in DOMAIN hashed[t] /\ j \in DOMAIN hashed[t]
          BY <1>14, <3>1 DEF NonceIInv, ThreadNeverTwice
    <3>2. CASE i \in DOMAIN hashed[t] /\ j = Len(hashed[t]) + 1
          BY <1>14, <1>21, <3>2
    <3>3. CASE j \in DOMAIN hashed[t] /\ i = Len(hashed[t]) + 1
          BY <1>14, <1>21, <3>3
    <3> QED BY <1>14, <3>1, <3>2, <3>3
  <2> QED BY <1>12, <2>1 DEF NonceIInv, ThreadNeverTwice, Overlap
<1>23. NonceFits'
  <2>1. b.first + b.size - 1 \in Nonce
        BY <1>6, <1>7, <1>8, <1>9, BatchAssumption DEF Nonce
  <2>2. \A i \in DOMAIN hashed'[t] :
           hashed'[t][i].first + hashed'[t][i].size - 1 \in Nonce
        BY <1>15, <2>1 DEF NonceIInv, NonceFits
  <2> QED BY <1>12, <2>2 DEF NonceIInv, NonceFits
<1>24. RebuiltAsFound'  BY <1>2 DEF RebuiltAsFound, NothingRebuilt, NoBatch
<1> QED BY <1>16, <1>17, <1>19, <1>20, <1>22, <1>23, <1>24 DEF NonceIInv

LEMMA NextNonceIInv == NonceIInv /\ [NonceNext]_nonceVars => NonceIInv'
<1> SUFFICES ASSUME NonceIInv, [NonceNext]_nonceVars PROVE NonceIInv'
    OBVIOUS
<1>1. CASE NonceNext
  <2>1. PICK t \in Thread :
           \/ \E w \in 1 .. LastWork : StartWork(t, w)
           \/ Fetch(t)
           \/ \E missing \in 1 .. Capacity : Dispatch(t, missing)
           \/ DispatchNothing(t)
        BY <1>1 DEF NonceNext
  <2> QED BY <2>1, NewWorkNonceIInv, FetchNonceIInv, DispatchNonceIInv,
             DispatchNothingNonceIInv
<1>2. CASE UNCHANGED nonceVars
  <2> USE <1>2 DEF nonceVars
  <2>1. NonceTypeOK'  BY DEF NonceIInv, NonceTypeOK
  <2>2. HeaderOnLattice' /\ BatchesBehind' /\ BatchCurrent'
        BY DEF NonceIInv, HeaderOnLattice, BatchesBehind, BatchCurrent, OnLattice, Behind
  <2>3. ThreadNeverTwice' /\ NonceFits' /\ RebuiltAsFound'
        BY DEF NonceIInv, ThreadNeverTwice, NonceFits, RebuiltAsFound, Overlap
  <2> QED BY <2>1, <2>2, <2>3 DEF NonceIInv
<1> QED BY <1>1, <1>2

LEMMA AlwaysNonceIInv == NonceSpec => []NonceIInv
<1> QED BY InitNonceIInv, NextNonceIInv, PTL DEF NonceSpec

-----------------------------------------------------------------------------

\* The variables have their types; with it, that blockheader.nonce never leaves
\* its 32 bits.
THEOREM NonceTypeCorrect == NonceSpec => []NonceTypeOK
<1>1. NonceIInv => NonceTypeOK  BY DEF NonceIInv
<1> QED BY <1>1, AlwaysNonceIInv, PTL

\* However many threads there are, whatever works they skip and however large
\* their batches are, no header is hashed twice: lines 438, 519-523 and 533.
THEOREM NeverTwice == NonceSpec => []NoHeaderTwice
<1> QED BY NonceIInvSuffices, AlwaysNonceIInv, PTL

\* No batch runs over the end of the nonce: lines 519 and 525-533.
THEOREM BatchesFit == NonceSpec => []NonceFits
<1>1. NonceIInv => NonceFits  BY DEF NonceIInv
<1> QED BY <1>1, AlwaysNonceIInv, PTL

\* The host rebuilds the header that the device has hashed: lines 455-484.
THEOREM HostRebuilds == NonceSpec => []RebuiltAsFound
<1>1. NonceIInv => RebuiltAsFound  BY DEF NonceIInv
<1> QED BY <1>1, AlwaysNonceIInv, PTL
=============================================================================
