------------------------- MODULE DeviceQueues_proofs -------------------------
(***************************************************************************)
(* Proofs about DeviceQueues, for any number of pipelines and of sieves:   *)
(* whatever order the two queues run in, no buffer is touched on two sides *)
(* at once.                                                                *)
(***************************************************************************)
EXTENDS DeviceQueues, SequenceTheorems, TLAPS

-----------------------------------------------------------------------------
(* The inductive invariant.  A command keeps to the buffers of its queue   *)
(* and to the half of the sieve buffers that this iteration reads or       *)
(* writes; its places on the host are among those that commands touch up   *)
(* to this segment; what the host touches from here on is not among them.  *)
(* Segment and parity are parameters, so that a segment can be judged      *)
(* before it begins.                                                       *)

Touched(a) == a.reads \union a.writes \union a.rewrites

\* The half h of the sieve buffers is read in this iteration, the other one is written.
Keeps(q, a, h) ==
    IF q = "mBig"
    THEN /\ a.rewrites = {}
         /\ \A pl \in a.writes : pl[2] \in BigBuffers
         /\ \A pl \in a.reads : \/ pl[2] \in BigBuffers \/ pl[2] = "hashBufNamed"
                                \/ pl[2] = "sieveBuffers" /\ pl[5] = h
    ELSE /\ \A pl \in a.rewrites : pl[2] = "hashBufNamed"
         /\ \A pl \in a.writes : \/ pl[2] \in SmallBuffers
                                 \/ pl[2] = "sieveBuffers" /\ pl[5] = 1 - h
         /\ \A pl \in a.reads : pl[2] \in SmallBuffers \/ pl[2] = "hashBufNamed"

\* Commands touch this place on the host up to segment s and for the pipelines below p.
Since(pl, s, p, h) ==
    \/ pl[2] = "midstate" /\ s # 2
    \/ pl[2] \in {"hashBufNamed", "hashBufPushed"} /\ s >= 2
    \/ pl[2] \in {"hashmodCount", "found", "primorialBitField"} /\ s >= 3
    \/ pl[2] = "candidatesCount" /\ s >= 4 /\ pl[5] = 1 - h
    \/ pl[2] = "finalCount" /\ s >= 5
    \/ pl[2] = "count" /\ pl[4] < p /\ pl[5] = 1 - h
    \/ pl[2] = "finalInfo" /\ s >= 8

Right(q, a, s, p, h) ==
    /\ Keeps(q, a, h)
    /\ \A pl \in Touched(a) : pl[1] = "host" => Since(pl, s, p, h)

\* A command that is enqueued is right; the host itself touches its own places only.
RightDeed(d, s, p, h) ==
    /\ d.do = "host" => \A pl \in Touched(d.what) : pl[1] = "host"
    /\ d.do = "enqueue" => d.queue \in Queues /\ Right(d.queue, d.what, s, p, h)
    /\ d.do = "wait" => d.queue \in Queues

AllRight ==
    /\ \A q \in Queues : \A k \in DOMAIN queued[q] : Right(q, queued[q][k], segment, pipeline, ridx)
    /\ \A k \in DOMAIN todo : RightDeed(todo[k], segment, pipeline, ridx)

\* What the host is still to touch conflicts neither with a command that is pending nor
\* with one that is enqueued before.
HostClear ==
    \A k \in DOMAIN todo : todo[k].do = "host" =>
       \A q \in Queues : \A i \in DOMAIN queued[q] : ~ Conflict(queued[q][i], todo[k].what)

Ordered(program) ==
    \A j, k \in DOMAIN program :
       j < k /\ program[j].do = "enqueue" /\ program[k].do = "host" =>
          ~ Conflict(program[j].what, program[k].what)

\* Queue q is empty, or the host waits for it, and nothing is enqueued behind that.
Settles(q) ==
    \/ queued[q] = <<>> /\ \A k \in DOMAIN todo : ~ (todo[k].do = "enqueue" /\ todo[k].queue = q)
    \/ \E k \in DOMAIN todo :
          /\ todo[k].do = "wait" /\ todo[k].queue = q
          /\ \A j \in DOMAIN todo : j > k => ~ (todo[j].do = "enqueue" /\ todo[j].queue = q)

\* At both ends of the iteration nothing is pending.
Quiet == segment \in {1, 10} => \A q \in Queues : Settles(q)

\* FermatDispatch has begun for a pipeline that there is.
AtPipeline == segment = 6 => pipeline < FERMAT_PIPELINES

QueueIInv == QueueTypeOK /\ AllRight /\ HostClear /\ Ordered(todo) /\ Quiet /\ AtPipeline

-----------------------------------------------------------------------------
(* Why that is enough.                                                     *)

LEMMA QueuesApart ==
    ASSUME NEW a, NEW b, NEW h \in 0 .. 1, Keeps("mBig", a, h), Keeps("mSmall", b, h)
    PROVE  ~ Conflict(a, b)
<1> SUFFICES ASSUME NEW pl, \/ pl \in a.writes /\ pl \in b.reads \union b.writes \union b.rewrites
                            \/ pl \in b.writes /\ pl \in a.reads \union a.rewrites
             PROVE  FALSE
    BY DEF Conflict
<1>1. BigBuffers \cap (SmallBuffers \union {"hashBufNamed", "sieveBuffers"}) = {}
      /\ "sieveBuffers" \notin SmallBuffers /\ "hashBufNamed" \notin SmallBuffers
      BY DEF BigBuffers, SmallBuffers
<1>2. h # 1 - h  OBVIOUS
<1> QED BY <1>1, <1>2 DEF Keeps

LEMMA HostApart ==
    ASSUME NEW a, NEW b, NEW s, NEW p, NEW h, NEW q, Right(q, a, s, p, h),
           \A pl \in Touched(b) : pl[1] = "host" /\ ~ Since(pl, s, p, h)
    PROVE  ~ Conflict(a, b)
BY DEF Right, Touched, Conflict

LEMMA InvariantSuffices == QueueIInv => NothingTouchedTwice
<1> SUFFICES ASSUME QueueIInv PROVE NothingTouchedTwice
    OBVIOUS
<1>1. \A i \in DOMAIN queued["mBig"], j \in DOMAIN queued["mSmall"] :
         ~ Conflict(queued["mBig"][i], queued["mSmall"][j])
  <2> TAKE i \in DOMAIN queued["mBig"], j \in DOMAIN queued["mSmall"]
  <2>1. Keeps("mBig", queued["mBig"][i], ridx) /\ Keeps("mSmall", queued["mSmall"][j], ridx)
        BY DEF QueueIInv, AllRight, Right, Queues
  <2>2. ridx \in 0 .. 1  BY DEF QueueIInv, QueueTypeOK
  <2> QED BY <2>1, <2>2, QueuesApart
<1>2. todo # <<>> => 1 \in DOMAIN todo /\ Head(todo) = todo[1]
      BY DEF QueueIInv, QueueTypeOK
<1> QED BY <1>1, <1>2 DEF NothingTouchedTwice, QueueIInv, HostClear

-----------------------------------------------------------------------------
(* The steps of the host and of the queues.                                *)

LEMMA InitEstablishes == QueueInit => QueueIInv
<1> SUFFICES ASSUME QueueInit PROVE QueueIInv
    OBVIOUS
<1>1. todo = <<>> /\ \A q \in Queues : queued[q] = <<>>
      BY DEF QueueInit
<1>2. QueueTypeOK
  <2>1. queued \in [Queues -> Seq(Command)]  BY DEF QueueInit
  <2>2. todo \in Seq(Deed)  BY <1>1
  <2> QED BY <2>1, <2>2, QueuesAssumption DEF QueueInit, QueueTypeOK
<1>3. AtPipeline  BY DEF QueueInit, AtPipeline
<1> QED BY <1>1, <1>2, <1>3 DEF QueueIInv, AllRight, HostClear, Ordered, Quiet, Settles

LEMMA ExecutePreserves ==
    ASSUME QueueIInv, NEW q \in Queues, Execute(q)
    PROVE  QueueIInv'
<1> USE DEF QueueIInv
<1>1. queued[q] \in Seq(Command) /\ queued[q] # <<>>
      BY DEF QueueTypeOK, Execute
<1>2. /\ queued' \in [Queues -> Seq(Command)]
      /\ queued'[q] = Tail(queued[q]) /\ \A r \in Queues : r # q => queued'[r] = queued[r]
      BY <1>1 DEF QueueTypeOK, Execute
<1>3. \A r \in Queues : \A k \in DOMAIN queued'[r] :
         \E i \in DOMAIN queued[r] : queued'[r][k] = queued[r][i]
  <2> TAKE r \in Queues
  <2> TAKE k \in DOMAIN queued'[r]
  <2>1. CASE r = q
    <3>1. k + 1 \in DOMAIN queued[q] /\ Tail(queued[q])[k] = queued[q][k + 1]
          BY <1>1, <1>2, <2>1
    <3> QED BY <1>2, <2>1, <3>1
  <2>2. CASE r # q  BY <1>2, <2>2
  <2> QED BY <2>1, <2>2
<1>4. UNCHANGED <<todo, segment, turn, pipeline, ridx, sieves>>
      BY DEF Execute
<1>5. QueueTypeOK'  BY <1>2, <1>4 DEF QueueTypeOK
<1>6. AllRight'  BY <1>3, <1>4 DEF AllRight
<1>7. HostClear'  BY <1>3, <1>4 DEF HostClear
<1>8. Ordered(todo)'  BY <1>4 DEF Ordered
<1>9. \A r \in Queues : Settles(r) => Settles(r)'
  <2> TAKE r \in Queues
  <2>1. queued[r] = <<>> => queued'[r] = <<>>  BY <1>1, <1>2
  <2> QED BY <1>4, <2>1 DEF Settles
<1>10. AtPipeline'  BY <1>4 DEF AtPipeline
<1> QED BY <1>4, <1>5, <1>6, <1>7, <1>8, <1>9, <1>10 DEF Quiet

LEMMA HostStepPreserves ==
    ASSUME QueueIInv, HostStep
    PROVE  QueueIInv'
<1> DEFINE d == todo[1]
<1>1. /\ todo \in Seq(Deed) /\ todo # <<>> /\ 1 \in DOMAIN todo /\ Head(todo) = d /\ d \in Deed
      /\ todo' = Tail(todo) /\ UNCHANGED <<segment, turn, pipeline, ridx, sieves>>
      BY DEF QueueIInv, QueueTypeOK, HostStep
<1>2. /\ todo' \in Seq(Deed)
      /\ \A k \in DOMAIN todo' : k + 1 \in DOMAIN todo /\ todo'[k] = todo[k + 1] /\ k \in Nat
      /\ \A k \in DOMAIN todo : k # 1 => k - 1 \in DOMAIN todo' /\ todo'[k - 1] = todo[k]
      BY <1>1
<1>3. d.do \in {"host", "enqueue", "wait"} /\ d.what \in Command
      BY <1>1 DEF Deed
<1>4. RightDeed(d, segment, pipeline, ridx)
      BY <1>1 DEF QueueIInv, AllRight
<1>5. queued \in [Queues -> Seq(Command)]  BY DEF QueueIInv, QueueTypeOK
<1>6. \/ d.do # "enqueue" /\ UNCHANGED queued /\ (d.do = "wait" => queued[d.queue] = <<>>)
      \/ /\ d.do = "enqueue" /\ d.queue \in Queues
         /\ queued' = [queued EXCEPT ![d.queue] = Append(@, d.what)]
      BY <1>1, <1>4 DEF HostStep, RightDeed
<1>7. /\ queued' \in [Queues -> Seq(Command)]
      /\ \A q \in Queues : \A k \in DOMAIN queued'[q] :
            \/ k \in DOMAIN queued[q] /\ queued'[q][k] = queued[q][k]
            \/ d.do = "enqueue" /\ d.queue = q /\ queued'[q][k] = d.what
      /\ \A q \in Queues : ~ (d.do = "enqueue" /\ d.queue = q) => queued'[q] = queued[q]
  <2>1. CASE d.do # "enqueue"
    <3>1. queued' = queued  BY <1>6, <2>1
    <3> QED BY <1>5, <2>1, <3>1
  <2>2. CASE d.do = "enqueue"
    <3>1. /\ d.queue \in Queues /\ queued[d.queue] \in Seq(Command)
          /\ queued' = [queued EXCEPT ![d.queue] = Append(@, d.what)]
          BY <1>5, <1>6, <2>2
    <3> DEFINE longer == Append(queued[d.queue], d.what)
    <3>2. /\ longer \in Seq(Command)
          /\ \A k \in DOMAIN longer :
                \/ k \in DOMAIN queued[d.queue] /\ longer[k] = queued[d.queue][k]
                \/ longer[k] = d.what
          BY <1>3, <3>1
    <3>3. queued' = [queued EXCEPT ![d.queue] = longer]  BY <3>1
    <3> HIDE DEF longer, d
    <3> QED BY <1>5, <2>2, <3>1, <3>2, <3>3
  <2> QED BY <2>1, <2>2
<1> HIDE DEF d
<1>8. QueueTypeOK'
      BY <1>1, <1>2, <1>7 DEF QueueIInv, QueueTypeOK
<1>9. AllRight'
      BY <1>1, <1>2, <1>4, <1>7 DEF QueueIInv, AllRight, RightDeed
<1>10. HostClear'
  <2> SUFFICES ASSUME NEW k \in DOMAIN todo', todo'[k].do = "host",
                      NEW q \in Queues, NEW i \in DOMAIN queued'[q]
               PROVE  ~ Conflict(queued'[q][i], todo'[k].what)
      BY DEF HostClear
  <2>1. k + 1 \in DOMAIN todo /\ todo'[k] = todo[k + 1] /\ 1 < k + 1
        BY <1>1, <1>2
  <2>2. CASE i \in DOMAIN queued[q] /\ queued'[q][i] = queued[q][i]
        BY <2>1, <2>2 DEF QueueIInv, HostClear
  <2>3. CASE d.do = "enqueue" /\ queued'[q][i] = d.what
        BY <1>1, <2>1, <2>3 DEF QueueIInv, Ordered, d
  <2> QED BY <1>7, <2>2, <2>3
<1>11. Ordered(todo)'
  <2> SUFFICES ASSUME NEW j \in DOMAIN todo', NEW k \in DOMAIN todo', j < k,
                      todo'[j].do = "enqueue", todo'[k].do = "host"
               PROVE  ~ Conflict(todo'[j].what, todo'[k].what)
      BY DEF Ordered
  <2>1. j + 1 \in DOMAIN todo /\ k + 1 \in DOMAIN todo /\ j + 1 < k + 1
        /\ todo'[j] = todo[j + 1] /\ todo'[k] = todo[k + 1]
        BY <1>2
  <2> QED BY <2>1 DEF QueueIInv, Ordered
<1>12. \A q \in Queues : Settles(q) => Settles(q)'
  <2> SUFFICES ASSUME NEW q \in Queues, Settles(q) PROVE Settles(q)'
      OBVIOUS
  <2>1. CASE queued[q] = <<>>
             /\ \A k \in DOMAIN todo : ~ (todo[k].do = "enqueue" /\ todo[k].queue = q)
    <3>1. queued'[q] = <<>>  BY <1>1, <1>7, <2>1 DEF d
    <3>2. \A k \in DOMAIN todo' : ~ (todo'[k].do = "enqueue" /\ todo'[k].queue = q)
          BY <1>2, <2>1
    <3> QED BY <3>1, <3>2 DEF Settles
  <2>2. ASSUME NEW k \in DOMAIN todo, todo[k].do = "wait", todo[k].queue = q,
               \A j \in DOMAIN todo : j > k => ~ (todo[j].do = "enqueue" /\ todo[j].queue = q)
        PROVE  Settles(q)'
    <3>1. k \in Nat /\ 1 <= k  BY <1>1
    <3>2. CASE k = 1
      <4>1. queued'[q] = <<>>  BY <1>6, <2>2, <3>2 DEF d
      <4>2. \A j \in DOMAIN todo' : ~ (todo'[j].do = "enqueue" /\ todo'[j].queue = q)
        <5> TAKE j \in DOMAIN todo'
        <5>1. j + 1 \in DOMAIN todo /\ todo'[j] = todo[j + 1] /\ j + 1 > 1
              BY <1>1, <1>2
        <5> QED BY <2>2, <3>2, <5>1
      <4> QED BY <4>1, <4>2 DEF Settles
    <3>3. CASE k # 1
      <4>1. k - 1 \in DOMAIN todo' /\ todo'[k - 1] = todo[k]
            BY <1>2, <3>3
      <4>2. \A j \in DOMAIN todo' : j > k - 1 =>
               ~ (todo'[j].do = "enqueue" /\ todo'[j].queue = q)
        <5> SUFFICES ASSUME NEW j \in DOMAIN todo', j > k - 1
                     PROVE  ~ (todo'[j].do = "enqueue" /\ todo'[j].queue = q)
            OBVIOUS
        <5>1. j + 1 \in DOMAIN todo /\ todo'[j] = todo[j + 1] /\ j \in Nat
              BY <1>2
        <5>2. j + 1 > k  BY <3>1, <5>1
        <5> QED BY <2>2, <5>1, <5>2
      <4> DEFINE m == k - 1
      <4>3. m \in DOMAIN todo' /\ todo'[m].do = "wait" /\ todo'[m].queue = q
            BY <2>2, <4>1
      <4>4. \A j \in DOMAIN todo' : j > m => ~ (todo'[j].do = "enqueue" /\ todo'[j].queue = q)
            BY <4>2
      <4> HIDE DEF m
      <4> QED BY <4>3, <4>4 DEF Settles
    <3> QED BY <3>2, <3>3
  <2> QED BY <2>1, <2>2 DEF Settles
<1>13. Quiet'
       BY <1>1, <1>12 DEF QueueIInv, Quiet
<1>14. AtPipeline'  BY <1>1 DEF QueueIInv, AtPipeline
<1> QED BY <1>8, <1>9, <1>10, <1>11, <1>13, <1>14 DEF QueueIInv
-----------------------------------------------------------------------------
(* A segment that begins.                                                  *)

\* Deeds that are right in segment s, and touch on the host only what no command touches
\* in segment s0.
NextDeeds(s0, p0, s, p, h) ==
    {d \in Deed : /\ RightDeed(d, s, p, h)
                  /\ d.do = "host" => \A pl \in Touched(d.what) : ~ Since(pl, s0, p0, h)}

LEMMA SinceGrows ==
    ASSUME NEW s \in 2 .. 9, NEW t \in 3 .. 10, s <= t \/ (s = 7 /\ t = 6),
           NEW p \in Nat, NEW r \in Nat, p <= r, NEW h \in 0 .. 1, NEW pl \in Place,
           Since(pl, s, p, h)
    PROVE  Since(pl, t, r, h)
<1>1. pl[4] \in Nat /\ pl[5] \in 0 .. 1  BY DEF Place
<1> QED BY <1>1 DEF Since

LEMMA NothingPending ==
    ASSUME QueueIInv, todo = <<>>, segment \in {1, 10}
    PROVE  \A q \in Queues : queued[q] = <<>>
BY DEF QueueIInv, Quiet, Settles

LEMMA GoOnPreserves ==
    ASSUME QueueIInv, todo = <<>>, UNCHANGED queued, NEW s0, NEW p0,
           segment' \in 1 .. 10, ridx' \in 0 .. 1, sieves' \in 1 .. QueueSieves,
           turn' \in 0 .. QueueSieves, pipeline' \in 0 .. FERMAT_PIPELINES,
           todo' \in Seq(NextDeeds(s0, p0, segment', pipeline', ridx')),
           Ordered(todo)', Quiet', AtPipeline',
           \/ \A q \in Queues : queued[q] = <<>>
           \/ /\ s0 = segment /\ p0 = pipeline /\ ridx' = ridx
              /\ segment \in 2 .. 9 /\ segment' \in 3 .. 10 /\ pipeline <= pipeline'
              /\ segment <= segment' \/ (segment = 7 /\ segment' = 6)
    PROVE  QueueIInv'
<1>1. \A k \in DOMAIN todo' :
         /\ todo'[k] \in Deed /\ RightDeed(todo'[k], segment', pipeline', ridx')
         /\ todo'[k].do = "host" =>
               \A pl \in Touched(todo'[k].what) : pl[1] = "host" /\ ~ Since(pl, s0, p0, ridx')
  <2> TAKE k \in DOMAIN todo'
  <2>1. todo'[k] \in NextDeeds(s0, p0, segment', pipeline', ridx')  OBVIOUS
  <2> QED BY <2>1 DEF NextDeeds, RightDeed
<1>2. todo' \in Seq(Deed)
  <2>1. NextDeeds(s0, p0, segment', pipeline', ridx') \subseteq Deed  BY DEF NextDeeds
  <2> QED BY <2>1
<1>3. QueueTypeOK'
      BY <1>2 DEF QueueIInv, QueueTypeOK
<1>4. /\ queued \in [Queues -> Seq(Command)] /\ segment \in 1 .. 10 /\ ridx \in 0 .. 1
      /\ pipeline \in Nat /\ pipeline' \in Nat
      /\ \A q \in Queues : \A k \in DOMAIN queued[q] :
            queued[q][k] \in Command /\ Right(q, queued[q][k], segment, pipeline, ridx)
      BY QueuesAssumption DEF QueueIInv, QueueTypeOK, AllRight
<1>5. ASSUME NEW q \in Queues, NEW k \in DOMAIN queued[q]
      PROVE  /\ Right(q, queued[q][k], segment', pipeline', ridx')
             /\ Right(q, queued[q][k], s0, p0, ridx')
  <2>1. /\ s0 = segment /\ p0 = pipeline /\ ridx' = ridx
        /\ segment \in 2 .. 9 /\ segment' \in 3 .. 10 /\ pipeline <= pipeline'
        /\ segment <= segment' \/ (segment = 7 /\ segment' = 6)
        BY <1>5
  <2>2. queued[q][k] \in Command /\ Right(q, queued[q][k], segment, pipeline, ridx)
        BY <1>4
  <2>3. \A pl \in Touched(queued[q][k]) : pl \in Place
        BY <2>2 DEF Touched, Command
  <2>4. \A pl \in Place : Since(pl, segment, pipeline, ridx) => Since(pl, segment', pipeline', ridx)
        BY <1>4, <2>1, SinceGrows
  <2> QED BY <2>1, <2>2, <2>3, <2>4 DEF Right
<1>6. AllRight'  BY <1>1, <1>5 DEF AllRight
<1>7. HostClear'
      BY <1>1, <1>5, HostApart DEF HostClear
<1> QED BY <1>3, <1>6, <1>7 DEF QueueIInv

\* Two programs, one behind the other.
LEMMA OrderedBehind ==
    ASSUME NEW P, NEW Q, NEW S, P \in Seq(S), Q \in Seq(S), Ordered(P), Ordered(Q),
           \A j \in DOMAIN P, k \in DOMAIN Q :
              P[j].do = "enqueue" /\ Q[k].do = "host" => ~ Conflict(P[j].what, Q[k].what)
    PROVE  P \o Q \in Seq(S) /\ Ordered(P \o Q)
<1>1. \A k \in DOMAIN (P \o Q) :
         /\ k \in Int
         /\ k <= Len(P) => k \in DOMAIN P /\ (P \o Q)[k] = P[k]
         /\ k > Len(P) => k - Len(P) \in DOMAIN Q /\ (P \o Q)[k] = Q[k - Len(P)]
      OBVIOUS
<1>2. Len(P) \in Nat  OBVIOUS
<1> SUFFICES ASSUME NEW j \in DOMAIN (P \o Q), NEW k \in DOMAIN (P \o Q), j < k,
                    (P \o Q)[j].do = "enqueue", (P \o Q)[k].do = "host"
             PROVE  ~ Conflict((P \o Q)[j].what, (P \o Q)[k].what)
    BY DEF Ordered
<1>3. CASE k <= Len(P)
  <2>1. j \in DOMAIN P /\ k \in DOMAIN P /\ (P \o Q)[j] = P[j] /\ (P \o Q)[k] = P[k]
        BY <1>1, <1>2, <1>3
  <2> QED BY <2>1 DEF Ordered
<1>4. CASE j <= Len(P) /\ k > Len(P)
  <2>1. /\ j \in DOMAIN P /\ (P \o Q)[j] = P[j]
        /\ k - Len(P) \in DOMAIN Q /\ (P \o Q)[k] = Q[k - Len(P)]
        BY <1>1, <1>4
  <2> QED BY <2>1
<1>5. CASE j > Len(P)
  <2> DEFINE m == j - Len(P)
             n == k - Len(P)
  <2>1. m \in DOMAIN Q /\ n \in DOMAIN Q /\ (P \o Q)[j] = Q[m] /\ (P \o Q)[k] = Q[n] /\ m < n
        BY <1>1, <1>2, <1>5
  <2> HIDE DEF m, n
  <2> QED BY <2>1 DEF Ordered
<1> QED BY <1>1, <1>2, <1>3, <1>4, <1>5

\* Without a command no order can be wrong, nor without the host.
LEMMA OrderedAnyway ==
    ASSUME NEW P, \/ \A k \in DOMAIN P : P[k].do # "enqueue"
                  \/ \A k \in DOMAIN P : P[k].do # "host"
    PROVE  Ordered(P)
BY DEF Ordered

-----------------------------------------------------------------------------
(* What the host does, deed by deed.                                       *)

LEMMA HostDeed ==
    ASSUME NEW r \in SUBSET Place, NEW w \in SUBSET Place,
           NEW s0, NEW p0, NEW s, NEW p, NEW h,
           \A pl \in r \union w : pl[1] = "host" /\ ~ Since(pl, s0, p0, h)
    PROVE  Host(r, w) \in NextDeeds(s0, p0, s, p, h) /\ Host(r, w).do = "host"
BY DEF Host, Access, NextDeeds, RightDeed, Deed, Command, Touched

\* A command that reads and writes these places is right for its queue.
BigSound(r, w, s, p, h) ==
    /\ r \in SUBSET Place /\ w \in SUBSET Place
    /\ \A pl \in w : pl[2] \in BigBuffers
    /\ \A pl \in r : \/ pl[2] \in BigBuffers \/ pl[2] = "hashBufNamed"
                     \/ pl[2] = "sieveBuffers" /\ pl[5] = h
    /\ \A pl \in r \union w : pl[1] = "host" => Since(pl, s, p, h)

SmallSound(r, w, s, p, h) ==
    /\ r \in SUBSET Place /\ w \in SUBSET Place
    /\ \A pl \in w : \/ pl[2] \in SmallBuffers
                     \/ pl[2] = "sieveBuffers" /\ pl[5] = 1 - h
    /\ \A pl \in r : pl[2] \in SmallBuffers \/ pl[2] = "hashBufNamed"
    /\ \A pl \in r \union w : pl[1] = "host" => Since(pl, s, p, h)

LEMMA BigDeed ==
    ASSUME NEW r, NEW w, NEW s0, NEW p0, NEW s, NEW p, NEW h, BigSound(r, w, s, p, h)
    PROVE  /\ Enqueue("mBig", r, w) \in NextDeeds(s0, p0, s, p, h)
           /\ Enqueue("mBig", r, w).do = "enqueue" /\ Enqueue("mBig", r, w).queue = "mBig"
<1>1. Access(r, w, {}) \in Command /\ Touched(Access(r, w, {})) = r \union w
      BY DEF BigSound, Access, Command, Touched
<1>2. Keeps("mBig", Access(r, w, {}), h)
      BY DEF BigSound, Access, Keeps
<1> QED BY <1>1, <1>2 DEF BigSound, Enqueue, NextDeeds, RightDeed, Right, Deed, Queues

LEMMA SmallDeed ==
    ASSUME NEW r, NEW w, NEW s0, NEW p0, NEW s, NEW p, NEW h, SmallSound(r, w, s, p, h)
    PROVE  /\ Enqueue("mSmall", r, w) \in NextDeeds(s0, p0, s, p, h)
           /\ Enqueue("mSmall", r, w).do = "enqueue" /\ Enqueue("mSmall", r, w).queue = "mSmall"
<1>1. Access(r, w, {}) \in Command /\ Touched(Access(r, w, {})) = r \union w
      BY DEF SmallSound, Access, Command, Touched
<1>2. Keeps("mSmall", Access(r, w, {}), h)
      BY DEF SmallSound, Access, Keeps
<1> QED BY <1>1, <1>2 DEF SmallSound, Enqueue, NextDeeds, RightDeed, Right, Deed, Queues

LEMMA WaitDeed ==
    ASSUME NEW q \in Queues, NEW s0, NEW p0, NEW s, NEW p, NEW h
    PROVE  Wait(q) \in NextDeeds(s0, p0, s, p, h) /\ Wait(q).do = "wait" /\ Wait(q).queue = q
BY DEF Wait, Access, NextDeeds, RightDeed, Deed, Command, Touched

\* The places are places.
Buffer == BigBuffers \union SmallBuffers \union SharedBuffers

LEMMA Places ==
    /\ \A name \in BigBuffers \union SmallBuffers \union SharedBuffers :
          /\ dev(name) \in Place /\ host(name) \in Place
          /\ dev(name)[1] = "device" /\ dev(name)[2] = name
          /\ host(name)[1] = "host" /\ host(name)[2] = name
    /\ \A name \in BigBuffers \union SmallBuffers \union SharedBuffers,
          i \in Nat, p \in Nat, h \in 0 .. 1 :
          /\ devAt(name, i, p, h) \in Place /\ hostAt(name, i, p, h) \in Place
          /\ devAt(name, i, p, h)[1] = "device" /\ devAt(name, i, p, h)[2] = name
          /\ devAt(name, i, p, h)[4] = p /\ devAt(name, i, p, h)[5] = h
          /\ hostAt(name, i, p, h)[1] = "host" /\ hostAt(name, i, p, h)[2] = name
          /\ hostAt(name, i, p, h)[4] = p /\ hostAt(name, i, p, h)[5] = h
<1>1. \A side \in {"device", "host"}, name \in BigBuffers \union SmallBuffers \union SharedBuffers,
         i \in Nat, p \in Nat, h \in 0 .. 1 :
         /\ <<side, name, i, p, h>> \in Place
         /\ <<side, name, i, p, h>>[1] = side /\ <<side, name, i, p, h>>[2] = name
         /\ <<side, name, i, p, h>>[4] = p /\ <<side, name, i, p, h>>[5] = h
      BY DEF Place
<1>2. \A side \in {"device", "host"}, name \in BigBuffers \union SmallBuffers \union SharedBuffers :
         /\ <<side, name, 0, 0, 0>> \in Place
         /\ <<side, name, 0, 0, 0>>[1] = side /\ <<side, name, 0, 0, 0>>[2] = name
  <2>1. 0 \in Nat /\ 0 \in 0 .. 1  OBVIOUS
  <2> QED BY <1>1, <2>1
<1> QED BY <1>1, <1>2 DEF dev, host, devAt, hostAt

At(pl, side, name, p, h) ==
    pl \in Place /\ pl[1] = side /\ pl[2] = name /\ pl[4] = p /\ pl[5] = h

LEMMA HostPlace ==
    ASSUME NEW name \in Buffer, NEW i \in Nat, NEW p \in Nat, NEW h \in 0 .. 1
    PROVE  At(hostAt(name, i, p, h), "host", name, p, h)
BY Places DEF Buffer, At

LEMMA DevPlace ==
    ASSUME NEW name \in Buffer, NEW i \in Nat, NEW p \in Nat, NEW h \in 0 .. 1
    PROVE  At(devAt(name, i, p, h), "device", name, p, h)
BY Places DEF Buffer, At

LEMMA DevName ==
    ASSUME NEW name \in Buffer
    PROVE  At(dev(name), "device", name, 0, 0)
<1>1. dev(name) = devAt(name, 0, 0, 0)  BY DEF dev, devAt
<1> QED BY <1>1, DevPlace

LEMMA PrecalcDeeds ==
    ASSUME NEW s0, NEW p0, NEW s, NEW p, NEW h, s0 = 2, s # 2
    PROVE  /\ Host({}, {host("midstate")}) \in NextDeeds(s0, p0, s, p, h)
           /\ Host({}, {host("midstate")}).do = "host"
           /\ copyToDevice("mBig", host("midstate"), dev("midstate")) \in NextDeeds(s0, p0, s, p, h)
           /\ copyToDevice("mBig", host("midstate"), dev("midstate")).do = "enqueue"
           /\ copyToDevice("mBig", host("midstate"), dev("midstate")).queue = "mBig"
           /\ Wait("mBig") \in NextDeeds(s0, p0, s, p, h)
           /\ Wait("mBig").do = "wait" /\ Wait("mBig").queue = "mBig"
<1> DEFINE H == host("midstate")
           D == dev("midstate")
<1>1. /\ "midstate" \in BigBuffers
      /\ H \in Place /\ D \in Place /\ H[1] = "host" /\ H[2] = "midstate"
      /\ D[1] = "device" /\ D[2] = "midstate"
      BY Places DEF BigBuffers
<1> HIDE DEF H, D
<1>2. Since(H, s, p, h) /\ ~ Since(H, s0, p0, h)
      BY <1>1 DEF Since
<1>3. {H} \in SUBSET Place /\ {D} \in SUBSET Place /\ {} \in SUBSET Place
      BY <1>1
<1>4. Host({}, {H}) \in NextDeeds(s0, p0, s, p, h) /\ Host({}, {H}).do = "host"
  <2>1. \A pl \in {} \union {H} : pl[1] = "host" /\ ~ Since(pl, s0, p0, h)
        BY <1>1, <1>2
  <2> QED BY <1>3, <2>1, HostDeed
<1>5. /\ Enqueue("mBig", {H}, {D}) \in NextDeeds(s0, p0, s, p, h)
      /\ Enqueue("mBig", {H}, {D}).do = "enqueue" /\ Enqueue("mBig", {H}, {D}).queue = "mBig"
  <2>1. \A pl \in {H} \union {D} : /\ pl[2] \in BigBuffers
                                   /\ pl[1] = "host" => Since(pl, s, p, h)
        BY <1>1, <1>2
  <2>2. BigSound({H}, {D}, s, p, h)  BY <1>3, <2>1 DEF BigSound
  <2> QED BY <2>2, BigDeed
<1>6. "mBig" \in Queues  BY DEF Queues
<1> QED BY <1>4, <1>5, <1>6, WaitDeed DEF copyToDevice, H, D

LEMMA ResetRight ==
    ASSUME sieves \in Nat, FERMAT_PIPELINES \in Nat, NEW h
    PROVE  /\ Reset \in Seq(NextDeeds(2, 0, 1, 0, h))
           /\ Ordered(Reset)
           /\ Len(Reset) = 4 /\ Reset[4].do = "wait" /\ Reset[4].queue = "mBig"
           /\ \A k \in DOMAIN Reset : Reset[k].do = "enqueue" => Reset[k].queue = "mBig"
<1> DEFINE S == NextDeeds(2, 0, 1, 0, h)
           Counts == {hostAt("count", 0, p, k) : p \in 0 .. FERMAT_PIPELINES - 1, k \in 0 .. 1}
           Candidates == {hostAt("candidatesCount", i, 0, k) : i \in 0 .. sieves - 1, k \in 0 .. 1}
           W == {host("hashmodCount"), host("finalCount")} \union Counts \union Candidates
           a == Host({}, W)
           b == Host({}, {host("midstate")})
           c == copyToDevice("mBig", host("midstate"), dev("midstate"))
           d == Wait("mBig")
<1>1. \A pl \in W : pl \in Place /\ pl[1] = "host" /\ ~ Since(pl, 2, 0, h)
  <2>1. \A pl \in Counts : /\ pl \in Place /\ pl[1] = "host" /\ pl[2] = "count" /\ pl[4] \in Nat
        BY Places DEF BigBuffers
  <2>2. \A pl \in Candidates : pl \in Place /\ pl[1] = "host" /\ pl[2] = "candidatesCount"
        BY Places DEF SmallBuffers
  <2>3. \A pl \in {host("hashmodCount"), host("finalCount")} :
           pl \in Place /\ pl[1] = "host" /\ pl[2] \in {"hashmodCount", "finalCount"}
        BY Places DEF BigBuffers
  <2> HIDE DEF Counts, Candidates
  <2>4. \A pl \in Counts : ~ Since(pl, 2, 0, h)  BY <2>1 DEF Since
  <2>5. \A pl \in Candidates : ~ Since(pl, 2, 0, h)  BY <2>2 DEF Since
  <2>6. \A pl \in {host("hashmodCount"), host("finalCount")} : ~ Since(pl, 2, 0, h)
        BY <2>3 DEF Since
  <2> QED BY <2>1, <2>2, <2>3, <2>4, <2>5, <2>6
<1> HIDE DEF W
<1>2. a \in S /\ a.do = "host"
  <2>1. W \in SUBSET Place /\ {} \in SUBSET Place  BY <1>1
  <2>2. \A pl \in {} \union W : pl[1] = "host" /\ ~ Since(pl, 2, 0, h)  BY <1>1
  <2> QED BY <2>1, <2>2, HostDeed
<1>3. /\ b \in S /\ b.do = "host"
      /\ c \in S /\ c.do = "enqueue" /\ c.queue = "mBig"
      /\ d \in S /\ d.do = "wait" /\ d.queue = "mBig"
      BY PrecalcDeeds
<1>4. Reset = <<a>> \o <<b, c, d>>
      BY DEF Reset, simplePrecalcSHA256, W
<1> HIDE DEF a, b, c, d, S
<1>5. <<a>> \in Seq(S) /\ <<b, c, d>> \in Seq(S)
      BY <1>2, <1>3
<1>6. Ordered(<<b, c, d>>) /\ Ordered(<<a>>)
      BY <1>2, <1>3 DEF Ordered
<1>7. Reset \in Seq(S) /\ Ordered(Reset)
  <2> DEFINE P == <<a>>
             Q == <<b, c, d>>
  <2>1. \A j \in DOMAIN P : P[j].do # "enqueue"  BY <1>2
  <2>2. P \in Seq(S) /\ Q \in Seq(S) /\ Ordered(P) /\ Ordered(Q) /\ Reset = P \o Q
        BY <1>4, <1>5, <1>6
  <2> HIDE DEF P, Q
  <2> QED BY <2>1, <2>2, OrderedBehind
<1>8. Len(Reset) = 4 /\ Reset[1] = a /\ Reset[2] = b /\ Reset[3] = c /\ Reset[4] = d
      BY <1>4
<1>9. \A k \in DOMAIN Reset : Reset[k] \in {a, b, c, d}
      BY <1>7, <1>8
<1> QED BY <1>2, <1>3, <1>7, <1>8, <1>9 DEF S

LEMMA FetchRight ==
    ASSUME NEW found \in BOOLEAN, NEW p, NEW h
    PROVE  FetchHashmod(found) \in Seq(NextDeeds(0, 0, 2, p, h)) /\ Ordered(FetchHashmod(found))
<1> DEFINE S == NextDeeds(0, 0, 2, p, h)
           A == host("hashmodCount")
           B == host("found")
           C == host("primorialBitField")
           D == host("hashBufPushed")
           E == host("hashBufNamed")
           F == dev("hashBufPushed")
           G == dev("hashBufNamed")
           a == Host({A}, {})
           b == Host({B, C}, {D})
           d == Host({}, {A})
<1>1. /\ {A, B, C, D, E, F, G} \subseteq Place
      /\ A[1] = "host" /\ A[2] = "hashmodCount" /\ B[1] = "host" /\ B[2] = "found"
      /\ C[1] = "host" /\ C[2] = "primorialBitField" /\ D[1] = "host" /\ D[2] = "hashBufPushed"
      /\ E[1] = "host" /\ E[2] = "hashBufNamed" /\ F[1] = "device" /\ F[2] = "hashBufPushed"
      /\ G[1] = "device" /\ G[2] = "hashBufNamed"
      BY Places DEF BigBuffers, SmallBuffers, SharedBuffers
<1>2. /\ hashBuf("host") = {D, E}
      /\ copyHashBuf = [do |-> "enqueue", queue |-> "mSmall", what |-> Access({D, E}, {F}, {G})]
      BY DEF copyHashBuf, hashBuf, host
<1> HIDE DEF A, B, C, D, E, F, G
<1>3. /\ \A pl \in {A, B, C, D} : ~ Since(pl, 0, 0, h)
      /\ \A pl \in {D, E} : Since(pl, 2, p, h)
      BY <1>1 DEF Since
<1>4. a \in S /\ a.do = "host"
  <2>1. {A} \in SUBSET Place /\ {} \in SUBSET Place  BY <1>1
  <2>2. \A pl \in {A} \union {} : pl[1] = "host" /\ ~ Since(pl, 0, 0, h)
        BY <1>1, <1>3
  <2> QED BY <2>1, <2>2, HostDeed
<1>5. b \in S /\ b.do = "host"
  <2>1. {B, C} \in SUBSET Place /\ {D} \in SUBSET Place  BY <1>1
  <2>2. \A pl \in {B, C} \union {D} : pl[1] = "host" /\ ~ Since(pl, 0, 0, h)
        BY <1>1, <1>3
  <2> QED BY <2>1, <2>2, HostDeed
<1>6. d \in S /\ d.do = "host"
  <2>1. {} \in SUBSET Place /\ {A} \in SUBSET Place  BY <1>1
  <2>2. \A pl \in {} \union {A} : pl[1] = "host" /\ ~ Since(pl, 0, 0, h)
        BY <1>1, <1>3
  <2> QED BY <2>1, <2>2, HostDeed
<1>7. copyHashBuf \in S /\ copyHashBuf.do = "enqueue"
  <2>1. Access({D, E}, {F}, {G}) \in Command /\ Touched(Access({D, E}, {F}, {G})) = {D, E, F, G}
        BY <1>1 DEF Access, Command, Touched
  <2>2. Keeps("mSmall", Access({D, E}, {F}, {G}), h)
        BY <1>1 DEF Keeps, Access, SmallBuffers
  <2>3. \A pl \in {D, E, F, G} : pl[1] = "host" => Since(pl, 2, p, h)
        BY <1>1, <1>3
  <2> QED BY <1>2, <2>1, <2>2, <2>3 DEF NextDeeds, RightDeed, Right, Deed, Queues
<1>8. ~ Conflict(copyHashBuf.what, d.what)
      BY <1>1, <1>2 DEF Conflict, Access, Host
<1>9. FetchHashmod(found) = <<a>> \o (IF found THEN <<b, copyHashBuf>> ELSE <<>>) \o <<d>>
      BY DEF FetchHashmod, FetchFound, A, B, C, D
<1> HIDE DEF a, b, d, S
<1>10. <<a>> \in Seq(S) /\ Ordered(<<a>>) /\ <<d>> \in Seq(S) /\ Ordered(<<d>>)
       BY <1>4, <1>6 DEF Ordered
<1> DEFINE M == IF found THEN <<b, copyHashBuf>> ELSE <<>>
<1>11. /\ M \in Seq(S) /\ Ordered(M)
       /\ \A k \in DOMAIN M : M[k].do = "enqueue" => M[k] = copyHashBuf
  <2>1. CASE found
    <3>1. M = <<b, copyHashBuf>>  BY <2>1
    <3> HIDE DEF M
    <3> QED BY <1>5, <1>7, <3>1 DEF Ordered
  <2>2. CASE ~ found
    <3>1. M = <<>>  BY <2>2
    <3> HIDE DEF M
    <3> QED BY <3>1 DEF Ordered
  <2> QED BY <2>1, <2>2
<1> DEFINE P == <<a>>
           R == <<d>>
<1>12. \A j \in DOMAIN P : P[j].do # "enqueue"  BY <1>4
<1>13. \A k \in DOMAIN R : R[k] = d  OBVIOUS
<1>14. FetchHashmod(found) = (P \o M) \o R  BY <1>9
<1> HIDE DEF M, P, R
<1>15. P \in Seq(S) /\ Ordered(P) /\ R \in Seq(S) /\ Ordered(R)  BY <1>10 DEF P, R
<1>16. P \o M \in Seq(S) /\ Ordered(P \o M)
       BY <1>11, <1>12, <1>15, OrderedBehind
<1>17. \A j \in DOMAIN (P \o M) : (P \o M)[j].do = "enqueue" => (P \o M)[j] = copyHashBuf
       BY <1>11, <1>12, <1>15
<1> DEFINE Q == P \o M
<1>18. /\ Q \in Seq(S) /\ Ordered(Q) /\ FetchHashmod(found) = Q \o R
       /\ \A j \in DOMAIN Q : Q[j].do = "enqueue" => Q[j] = copyHashBuf
       BY <1>14, <1>16, <1>17
<1> HIDE DEF Q
<1>19. \A j \in DOMAIN Q, k \in DOMAIN R :
          Q[j].do = "enqueue" /\ R[k].do = "host" => ~ Conflict(Q[j].what, R[k].what)
       BY <1>8, <1>13, <1>18
<1> QED BY <1>15, <1>18, <1>19, OrderedBehind DEF S

LEMMA HashmodRight ==
    ASSUME NEW p0, NEW p, NEW h
    PROVE  /\ DispatchHashmod \in Seq(NextDeeds(2, p0, 3, p, h)) /\ Ordered(DispatchHashmod)
           /\ simplePrecalcSHA256 \o DispatchHashmod \in Seq(NextDeeds(2, p0, 3, p, h))
           /\ Ordered(simplePrecalcSHA256 \o DispatchHashmod)
<1> DEFINE S == NextDeeds(2, p0, 3, p, h)
           A == host("hashmodCount")
           B == host("found")
           C == host("primorialBitField")
           D == dev("hashmodCount")
           E == dev("found")
           F == dev("primorialBitField")
           G == dev("midstate")
           a == copyToDevice("mBig", A, D)
           b == Enqueue("mBig", {G}, {E, F, D})
           c == copyToHost("mBig", B, E)
           d == copyToHost("mBig", C, F)
           e == copyToHost("mBig", A, D)
<1>1. /\ {A, B, C, D, E, F, G} \subseteq Place
      /\ A[1] = "host" /\ A[2] = "hashmodCount" /\ B[1] = "host" /\ B[2] = "found"
      /\ C[1] = "host" /\ C[2] = "primorialBitField"
      /\ D[1] = "device" /\ D[2] = "hashmodCount" /\ E[1] = "device" /\ E[2] = "found"
      /\ F[1] = "device" /\ F[2] = "primorialBitField" /\ G[1] = "device" /\ G[2] = "midstate"
      BY Places DEF BigBuffers
<1>2. DispatchHashmod = <<a, b, c, d, e>>
      BY DEF DispatchHashmod
<1> HIDE DEF A, B, C, D, E, F, G
<1>3. \A pl \in {A, B, C} : Since(pl, 3, p, h)
      BY <1>1 DEF Since
<1>4. a \in S /\ a.do = "enqueue" /\ a.queue = "mBig"
  <2>1. {A} \in SUBSET Place /\ {D} \in SUBSET Place  BY <1>1
  <2>2. \A pl \in {D} : pl[2] \in BigBuffers  BY <1>1 DEF BigBuffers
  <2>3. \A pl \in {A} : \/ pl[2] \in BigBuffers \/ pl[2] = "hashBufNamed"
                        \/ pl[2] = "sieveBuffers" /\ pl[5] = h
        BY <1>1 DEF BigBuffers
  <2>4. \A pl \in {A} \union {D} : pl[1] = "host" => Since(pl, 3, p, h)
        BY <1>1, <1>3
  <2>5. BigSound({A}, {D}, 3, p, h)
        BY <2>1, <2>2, <2>3, <2>4 DEF BigSound
  <2>6. /\ Enqueue("mBig", {A}, {D}) \in NextDeeds(2, p0, 3, p, h)
        /\ Enqueue("mBig", {A}, {D}).do = "enqueue"
        /\ Enqueue("mBig", {A}, {D}).queue = "mBig"
        BY <2>5, BigDeed
  <2> QED BY <2>6 DEF copyToDevice, copyToHost
<1>5. b \in S /\ b.do = "enqueue" /\ b.queue = "mBig"
  <2>1. {G} \in SUBSET Place /\ {E, F, D} \in SUBSET Place  BY <1>1
  <2>2. \A pl \in {E, F, D} : pl[2] \in BigBuffers  BY <1>1 DEF BigBuffers
  <2>3. \A pl \in {G} : \/ pl[2] \in BigBuffers \/ pl[2] = "hashBufNamed"
                        \/ pl[2] = "sieveBuffers" /\ pl[5] = h
        BY <1>1 DEF BigBuffers
  <2>4. \A pl \in {G} \union {E, F, D} : pl[1] = "host" => Since(pl, 3, p, h)
        BY <1>1, <1>3
  <2>5. BigSound({G}, {E, F, D}, 3, p, h)
        BY <2>1, <2>2, <2>3, <2>4 DEF BigSound
  <2>6. /\ Enqueue("mBig", {G}, {E, F, D}) \in NextDeeds(2, p0, 3, p, h)
        /\ Enqueue("mBig", {G}, {E, F, D}).do = "enqueue"
        /\ Enqueue("mBig", {G}, {E, F, D}).queue = "mBig"
        BY <2>5, BigDeed
  <2> QED BY <2>6 DEF copyToDevice, copyToHost
<1>6. c \in S /\ c.do = "enqueue" /\ c.queue = "mBig"
  <2>1. {E} \in SUBSET Place /\ {B} \in SUBSET Place  BY <1>1
  <2>2. \A pl \in {B} : pl[2] \in BigBuffers  BY <1>1 DEF BigBuffers
  <2>3. \A pl \in {E} : \/ pl[2] \in BigBuffers \/ pl[2] = "hashBufNamed"
                        \/ pl[2] = "sieveBuffers" /\ pl[5] = h
        BY <1>1 DEF BigBuffers
  <2>4. \A pl \in {E} \union {B} : pl[1] = "host" => Since(pl, 3, p, h)
        BY <1>1, <1>3
  <2>5. BigSound({E}, {B}, 3, p, h)
        BY <2>1, <2>2, <2>3, <2>4 DEF BigSound
  <2>6. /\ Enqueue("mBig", {E}, {B}) \in NextDeeds(2, p0, 3, p, h)
        /\ Enqueue("mBig", {E}, {B}).do = "enqueue"
        /\ Enqueue("mBig", {E}, {B}).queue = "mBig"
        BY <2>5, BigDeed
  <2> QED BY <2>6 DEF copyToDevice, copyToHost
<1>7. d \in S /\ d.do = "enqueue" /\ d.queue = "mBig"
  <2>1. {F} \in SUBSET Place /\ {C} \in SUBSET Place  BY <1>1
  <2>2. \A pl \in {C} : pl[2] \in BigBuffers  BY <1>1 DEF BigBuffers
  <2>3. \A pl \in {F} : \/ pl[2] \in BigBuffers \/ pl[2] = "hashBufNamed"
                        \/ pl[2] = "sieveBuffers" /\ pl[5] = h
        BY <1>1 DEF BigBuffers
  <2>4. \A pl \in {F} \union {C} : pl[1] = "host" => Since(pl, 3, p, h)
        BY <1>1, <1>3
  <2>5. BigSound({F}, {C}, 3, p, h)
        BY <2>1, <2>2, <2>3, <2>4 DEF BigSound
  <2>6. /\ Enqueue("mBig", {F}, {C}) \in NextDeeds(2, p0, 3, p, h)
        /\ Enqueue("mBig", {F}, {C}).do = "enqueue"
        /\ Enqueue("mBig", {F}, {C}).queue = "mBig"
        BY <2>5, BigDeed
  <2> QED BY <2>6 DEF copyToDevice, copyToHost
<1>8. e \in S /\ e.do = "enqueue" /\ e.queue = "mBig"
  <2>1. {D} \in SUBSET Place /\ {A} \in SUBSET Place  BY <1>1
  <2>2. \A pl \in {A} : pl[2] \in BigBuffers  BY <1>1 DEF BigBuffers
  <2>3. \A pl \in {D} : \/ pl[2] \in BigBuffers \/ pl[2] = "hashBufNamed"
                        \/ pl[2] = "sieveBuffers" /\ pl[5] = h
        BY <1>1 DEF BigBuffers
  <2>4. \A pl \in {D} \union {A} : pl[1] = "host" => Since(pl, 3, p, h)
        BY <1>1, <1>3
  <2>5. BigSound({D}, {A}, 3, p, h)
        BY <2>1, <2>2, <2>3, <2>4 DEF BigSound
  <2>6. /\ Enqueue("mBig", {D}, {A}) \in NextDeeds(2, p0, 3, p, h)
        /\ Enqueue("mBig", {D}, {A}).do = "enqueue"
        /\ Enqueue("mBig", {D}, {A}).queue = "mBig"
        BY <2>5, BigDeed
  <2> QED BY <2>6 DEF copyToDevice, copyToHost
<1> DEFINE x == Host({}, {host("midstate")})
           y == copyToDevice("mBig", host("midstate"), dev("midstate"))
           z == Wait("mBig")
<1>9. x \in S /\ x.do = "host" /\ y \in S /\ z \in S /\ z.do = "wait"
      BY PrecalcDeeds
<1>10. simplePrecalcSHA256 = <<x, y, z>>
       BY DEF simplePrecalcSHA256
<1> HIDE DEF a, b, c, d, e, x, y, z, S
<1>11. /\ DispatchHashmod \in Seq(S) /\ Ordered(DispatchHashmod)
       /\ \A k \in DOMAIN DispatchHashmod : DispatchHashmod[k].do # "host"
  <2>1. \A k \in DOMAIN DispatchHashmod : DispatchHashmod[k].do # "host"
        BY <1>2, <1>4, <1>5, <1>6, <1>7, <1>8
  <2> QED BY <1>2, <1>4, <1>5, <1>6, <1>7, <1>8, <2>1, OrderedAnyway
<1>12. simplePrecalcSHA256 \in Seq(S) /\ Ordered(simplePrecalcSHA256)
       BY <1>9, <1>10 DEF Ordered
<1> QED BY <1>11, <1>12, OrderedBehind DEF S

LEMMA SieveRight ==
    ASSUME ridx \in 0 .. 1, FERMAT_PIPELINES \in Nat, NEW i \in Nat, NEW s0, NEW p0, NEW p
    PROVE  DispatchSieve(i) \in Seq(NextDeeds(s0, p0, 4, p, ridx)) /\ Ordered(DispatchSieve(i))
<1> DEFINE S == NextDeeds(s0, p0, 4, p, ridx)
           A == <<"host", "candidatesCount", i, 0, widx>>
           B == <<"device", "candidatesCount", i, 0, widx>>
           C == devAt("sieveOff", 0, 0, 0)
           D == devAt("sieveOff", 0, 0, 1)
           E == devAt("sieveBuf", 0, 0, 0)
           F == devAt("sieveBuf", 0, 0, 1)
           G == <<"device", "hashBufNamed", 0, 0, 0>>
           H == <<"device", "hashBufPushed", 0, 0, 0>>
           J == {devAt("sieveBuffers", i, k, widx) : k \in 0 .. FERMAT_PIPELINES - 1}
           a == Enqueue("mSmall", {G, H}, {C, D})
           b == Enqueue("mSmall", {C}, {E})
           c == Enqueue("mSmall", {D}, {F})
           d == copyToDevice("mSmall", A, B)
           e == Enqueue("mSmall", {E, F}, J \union {B})
           f == copyToHost("mSmall", A, B)
<1>1. /\ {A, B, C, D, E, F, G, H} \subseteq Place
      /\ A[1] = "host" /\ A[2] = "candidatesCount" /\ A[5] = 1 - ridx
      /\ B[1] = "device" /\ B[2] = "candidatesCount"
      /\ C[1] = "device" /\ C[2] = "sieveOff" /\ D[1] = "device" /\ D[2] = "sieveOff"
      /\ E[1] = "device" /\ E[2] = "sieveBuf" /\ F[1] = "device" /\ F[2] = "sieveBuf"
      /\ G[1] = "device" /\ G[2] = "hashBufNamed" /\ H[1] = "device" /\ H[2] = "hashBufPushed"
  <2>1. /\ A = hostAt("candidatesCount", i, 0, widx) /\ B = devAt("candidatesCount", i, 0, widx)
        /\ G = dev("hashBufNamed") /\ H = dev("hashBufPushed")
        BY DEF hostAt, devAt, dev
  <2>2. widx = 1 - ridx /\ widx \in 0 .. 1 /\ 0 \in Nat /\ 0 \in 0 .. 1 /\ 1 \in 0 .. 1
        BY DEF widx
  <2> HIDE DEF A, B, G, H
  <2>3. /\ "candidatesCount" \in Buffer /\ "sieveOff" \in Buffer
        /\ "sieveBuf" \in Buffer /\ "hashBufPushed" \in Buffer
        /\ "hashBufNamed" \in Buffer
        BY DEF Buffer, SmallBuffers, SharedBuffers
  <2>4. At(A, "host", "candidatesCount", 0, widx)
        BY <2>1, <2>2, <2>3, HostPlace
  <2>5. At(B, "device", "candidatesCount", 0, widx)
        BY <2>1, <2>2, <2>3, DevPlace
  <2>6. At(C, "device", "sieveOff", 0, 0)
        BY <2>1, <2>2, <2>3, DevPlace
  <2>7. At(D, "device", "sieveOff", 0, 1)
        BY <2>1, <2>2, <2>3, DevPlace
  <2>8. At(E, "device", "sieveBuf", 0, 0)
        BY <2>1, <2>2, <2>3, DevPlace
  <2>9. At(F, "device", "sieveBuf", 0, 1)
        BY <2>1, <2>2, <2>3, DevPlace
  <2>10. At(G, "device", "hashBufNamed", 0, 0)
        BY <2>1, <2>2, <2>3, DevName
  <2>11. At(H, "device", "hashBufPushed", 0, 0)
        BY <2>1, <2>2, <2>3, DevName
  <2> HIDE DEF A, B, C, D, E, F, G, H
  <2> QED BY <2>2, <2>4, <2>5, <2>6, <2>7, <2>8, <2>9, <2>10, <2>11 DEF At
<1>2. \A pl \in J : pl \in Place /\ pl[1] = "device" /\ pl[2] = "sieveBuffers" /\ pl[5] = 1 - ridx
  <2>1. widx = 1 - ridx /\ widx \in 0 .. 1  BY DEF widx
  <2>2. "sieveBuffers" \in Buffer  BY DEF Buffer, SharedBuffers
  <2> QED BY <2>1, <2>2, DevPlace DEF At
<1>3. DispatchSieve(i) = <<a, b, c, d, e, f>>
      BY DEF DispatchSieve, hashBuf
<1> HIDE DEF A, B, C, D, E, F, G, H, J
<1>4. Since(A, 4, p, ridx)
      BY <1>1 DEF Since
<1>5. a \in S /\ a.do = "enqueue" /\ a.queue = "mSmall"
  <2>1. {G, H} \in SUBSET Place /\ {C, D} \in SUBSET Place  BY <1>1
  <2>2. \A pl \in {C, D} : \/ pl[2] \in SmallBuffers
                           \/ pl[2] = "sieveBuffers" /\ pl[5] = 1 - ridx
        BY <1>1 DEF SmallBuffers
  <2>3. \A pl \in {G, H} : pl[2] \in SmallBuffers \/ pl[2] = "hashBufNamed"
        BY <1>1 DEF SmallBuffers
  <2>4. \A pl \in {G, H} \union {C, D} : pl[1] = "host" => Since(pl, 4, p, ridx)
        BY <1>1, <1>4
  <2>5. SmallSound({G, H}, {C, D}, 4, p, ridx)
        BY <2>1, <2>2, <2>3, <2>4 DEF SmallSound
  <2>6. /\ Enqueue("mSmall", {G, H}, {C, D}) \in NextDeeds(s0, p0, 4, p, ridx)
        /\ Enqueue("mSmall", {G, H}, {C, D}).do = "enqueue"
        /\ Enqueue("mSmall", {G, H}, {C, D}).queue = "mSmall"
        BY <2>5, SmallDeed
  <2> QED BY <2>6 DEF copyToDevice, copyToHost
<1>6. b \in S /\ b.do = "enqueue" /\ b.queue = "mSmall"
  <2>1. {C} \in SUBSET Place /\ {E} \in SUBSET Place  BY <1>1
  <2>2. \A pl \in {E} : \/ pl[2] \in SmallBuffers
                        \/ pl[2] = "sieveBuffers" /\ pl[5] = 1 - ridx
        BY <1>1 DEF SmallBuffers
  <2>3. \A pl \in {C} : pl[2] \in SmallBuffers \/ pl[2] = "hashBufNamed"
        BY <1>1 DEF SmallBuffers
  <2>4. \A pl \in {C} \union {E} : pl[1] = "host" => Since(pl, 4, p, ridx)
        BY <1>1, <1>4
  <2>5. SmallSound({C}, {E}, 4, p, ridx)
        BY <2>1, <2>2, <2>3, <2>4 DEF SmallSound
  <2>6. /\ Enqueue("mSmall", {C}, {E}) \in NextDeeds(s0, p0, 4, p, ridx)
        /\ Enqueue("mSmall", {C}, {E}).do = "enqueue"
        /\ Enqueue("mSmall", {C}, {E}).queue = "mSmall"
        BY <2>5, SmallDeed
  <2> QED BY <2>6 DEF copyToDevice, copyToHost
<1>7. c \in S /\ c.do = "enqueue" /\ c.queue = "mSmall"
  <2>1. {D} \in SUBSET Place /\ {F} \in SUBSET Place  BY <1>1
  <2>2. \A pl \in {F} : \/ pl[2] \in SmallBuffers
                        \/ pl[2] = "sieveBuffers" /\ pl[5] = 1 - ridx
        BY <1>1 DEF SmallBuffers
  <2>3. \A pl \in {D} : pl[2] \in SmallBuffers \/ pl[2] = "hashBufNamed"
        BY <1>1 DEF SmallBuffers
  <2>4. \A pl \in {D} \union {F} : pl[1] = "host" => Since(pl, 4, p, ridx)
        BY <1>1, <1>4
  <2>5. SmallSound({D}, {F}, 4, p, ridx)
        BY <2>1, <2>2, <2>3, <2>4 DEF SmallSound
  <2>6. /\ Enqueue("mSmall", {D}, {F}) \in NextDeeds(s0, p0, 4, p, ridx)
        /\ Enqueue("mSmall", {D}, {F}).do = "enqueue"
        /\ Enqueue("mSmall", {D}, {F}).queue = "mSmall"
        BY <2>5, SmallDeed
  <2> QED BY <2>6 DEF copyToDevice, copyToHost
<1>8. d \in S /\ d.do = "enqueue" /\ d.queue = "mSmall"
  <2>1. {A} \in SUBSET Place /\ {B} \in SUBSET Place  BY <1>1
  <2>2. \A pl \in {B} : \/ pl[2] \in SmallBuffers
                        \/ pl[2] = "sieveBuffers" /\ pl[5] = 1 - ridx
        BY <1>1 DEF SmallBuffers
  <2>3. \A pl \in {A} : pl[2] \in SmallBuffers \/ pl[2] = "hashBufNamed"
        BY <1>1 DEF SmallBuffers
  <2>4. \A pl \in {A} \union {B} : pl[1] = "host" => Since(pl, 4, p, ridx)
        BY <1>1, <1>4
  <2>5. SmallSound({A}, {B}, 4, p, ridx)
        BY <2>1, <2>2, <2>3, <2>4 DEF SmallSound
  <2>6. /\ Enqueue("mSmall", {A}, {B}) \in NextDeeds(s0, p0, 4, p, ridx)
        /\ Enqueue("mSmall", {A}, {B}).do = "enqueue"
        /\ Enqueue("mSmall", {A}, {B}).queue = "mSmall"
        BY <2>5, SmallDeed
  <2> QED BY <2>6 DEF copyToDevice, copyToHost
<1>9. e \in S /\ e.do = "enqueue" /\ e.queue = "mSmall"
  <2>1. {E, F} \in SUBSET Place /\ (J \union {B}) \in SUBSET Place  BY <1>1, <1>2
  <2>2. \A pl \in J \union {B} : \/ pl[2] \in SmallBuffers
                                 \/ pl[2] = "sieveBuffers" /\ pl[5] = 1 - ridx
        BY <1>1, <1>2 DEF SmallBuffers
  <2>3. \A pl \in {E, F} : pl[2] \in SmallBuffers \/ pl[2] = "hashBufNamed"
        BY <1>1, <1>2 DEF SmallBuffers
  <2>4. \A pl \in {E, F} \union (J \union {B}) : pl[1] = "host" => Since(pl, 4, p, ridx)
        BY <1>1, <1>2, <1>4
  <2>5. SmallSound({E, F}, J \union {B}, 4, p, ridx)
        BY <2>1, <2>2, <2>3, <2>4 DEF SmallSound
  <2>6. /\ Enqueue("mSmall", {E, F}, J \union {B}) \in NextDeeds(s0, p0, 4, p, ridx)
        /\ Enqueue("mSmall", {E, F}, J \union {B}).do = "enqueue"
        /\ Enqueue("mSmall", {E, F}, J \union {B}).queue = "mSmall"
        BY <2>5, SmallDeed
  <2> QED BY <2>6 DEF copyToDevice, copyToHost
<1>10. f \in S /\ f.do = "enqueue" /\ f.queue = "mSmall"
  <2>1. {B} \in SUBSET Place /\ {A} \in SUBSET Place  BY <1>1
  <2>2. \A pl \in {A} : \/ pl[2] \in SmallBuffers
                        \/ pl[2] = "sieveBuffers" /\ pl[5] = 1 - ridx
        BY <1>1 DEF SmallBuffers
  <2>3. \A pl \in {B} : pl[2] \in SmallBuffers \/ pl[2] = "hashBufNamed"
        BY <1>1 DEF SmallBuffers
  <2>4. \A pl \in {B} \union {A} : pl[1] = "host" => Since(pl, 4, p, ridx)
        BY <1>1, <1>4
  <2>5. SmallSound({B}, {A}, 4, p, ridx)
        BY <2>1, <2>2, <2>3, <2>4 DEF SmallSound
  <2>6. /\ Enqueue("mSmall", {B}, {A}) \in NextDeeds(s0, p0, 4, p, ridx)
        /\ Enqueue("mSmall", {B}, {A}).do = "enqueue"
        /\ Enqueue("mSmall", {B}, {A}).queue = "mSmall"
        BY <2>5, SmallDeed
  <2> QED BY <2>6 DEF copyToDevice, copyToHost
<1> HIDE DEF a, b, c, d, e, f, S
<1>11. \A k \in DOMAIN DispatchSieve(i) : DispatchSieve(i)[k].do # "host"
       BY <1>3, <1>5, <1>6, <1>7, <1>8, <1>9, <1>10
<1>12. DispatchSieve(i) \in Seq(S)
       BY <1>3, <1>5, <1>6, <1>7, <1>8, <1>9, <1>10
<1> QED BY <1>11, <1>12, OrderedAnyway DEF S

LEMMA CandisRight ==
    ASSUME NEW s0 \in {3, 4}, NEW p0, NEW p, NEW h
    PROVE  FetchCandis \in Seq(NextDeeds(s0, p0, 5, p, h)) /\ Ordered(FetchCandis)
<1> DEFINE S == NextDeeds(s0, p0, 5, p, h)
           A == host("finalCount")
           B == host("finalInfo")
           C == dev("finalCount")
           a == Host({A, B}, {A})
           b == copyToDevice("mBig", A, C)
<1>1. /\ {A, B, C} \subseteq Place
      /\ A[1] = "host" /\ A[2] = "finalCount" /\ B[1] = "host" /\ B[2] = "finalInfo"
      /\ C[1] = "device" /\ C[2] = "finalCount"
      BY Places DEF BigBuffers
<1>2. FetchCandis = <<a, b>>  BY DEF FetchCandis
<1> HIDE DEF A, B, C
<1>3. ~ Since(A, s0, p0, h) /\ ~ Since(B, s0, p0, h) /\ Since(A, 5, p, h)
      BY <1>1 DEF Since
<1>4. a \in S /\ a.do = "host"
  <2>1. {A, B} \in SUBSET Place /\ {A} \in SUBSET Place  BY <1>1
  <2>2. \A pl \in {A, B} \union {A} : pl[1] = "host" /\ ~ Since(pl, s0, p0, h)
        BY <1>1, <1>3
  <2> QED BY <2>1, <2>2, HostDeed
<1>5. b \in S /\ b.do = "enqueue" /\ b.queue = "mBig"
  <2>1. {A} \in SUBSET Place /\ {C} \in SUBSET Place  BY <1>1
  <2>2. \A pl \in {C} : pl[2] \in BigBuffers  BY <1>1 DEF BigBuffers
  <2>3. \A pl \in {A} : \/ pl[2] \in BigBuffers \/ pl[2] = "hashBufNamed"
                        \/ pl[2] = "sieveBuffers" /\ pl[5] = h
        BY <1>1 DEF BigBuffers
  <2>4. \A pl \in {A} \union {C} : pl[1] = "host" => Since(pl, 5, p, h)
        BY <1>1, <1>3
  <2>5. BigSound({A}, {C}, 5, p, h)
        BY <2>1, <2>2, <2>3, <2>4 DEF BigSound
  <2>6. /\ Enqueue("mBig", {A}, {C}) \in NextDeeds(s0, p0, 5, p, h)
        /\ Enqueue("mBig", {A}, {C}).do = "enqueue"
        /\ Enqueue("mBig", {A}, {C}).queue = "mBig"
        BY <2>5, BigDeed
  <2> QED BY <2>6 DEF copyToDevice, copyToHost
<1> HIDE DEF a, b, S
<1> QED BY <1>2, <1>4, <1>5 DEF Ordered, S

LEMMA LeftRight ==
    ASSUME ridx \in 0 .. 1, NEW p \in Nat, NEW left \in BOOLEAN, NEW s0 \in {5, 7}
    PROVE  CopyLeft(p, left) \in Seq(NextDeeds(s0, p, 6, p, ridx)) /\ Ordered(CopyLeft(p, left))
<1> DEFINE S == NextDeeds(s0, p, 6, p, ridx)
           A == count(p, widx)
           B == count(p, ridx)
           C == info(p, widx)
           D == info(p, ridx)
           a == Host({A}, {})
           b == Enqueue("mBig", {C}, {D})
           c == Host({B}, {B})
<1>1. /\ {A, B, C, D} \subseteq Place
      /\ A[1] = "host" /\ A[2] = "count" /\ A[4] = p /\ B[1] = "host" /\ B[2] = "count"
      /\ B[4] = p /\ C[1] = "device" /\ C[2] = "info" /\ D[1] = "device" /\ D[2] = "info"
  <2>1. widx \in 0 .. 1 /\ 0 \in Nat  BY DEF widx
  <2>2. "count" \in Buffer /\ "info" \in Buffer  BY DEF Buffer, BigBuffers
  <2>3. At(A, "host", "count", p, widx)
        BY <2>1, <2>2, HostPlace DEF count, info
  <2>4. At(B, "host", "count", p, ridx)
        BY <2>1, <2>2, HostPlace DEF count, info
  <2>5. At(C, "device", "info", p, widx)
        BY <2>1, <2>2, DevPlace DEF count, info
  <2>6. At(D, "device", "info", p, ridx)
        BY <2>1, <2>2, DevPlace DEF count, info
  <2> HIDE DEF A, B, C, D
  <2> QED BY <2>1, <2>3, <2>4, <2>5, <2>6 DEF At
<1>2. CopyLeft(p, left) = <<a>> \o (IF left THEN <<b, c>> ELSE <<>>)
      BY DEF CopyLeft
<1> HIDE DEF A, B, C, D
<1>3. \A pl \in {A, B} : ~ Since(pl, s0, p, ridx)
      BY <1>1 DEF Since
<1>4. a \in S /\ a.do = "host"
  <2>1. {A} \in SUBSET Place /\ {} \in SUBSET Place  BY <1>1
  <2>2. \A pl \in {A} \union {} : pl[1] = "host" /\ ~ Since(pl, s0, p, ridx)
        BY <1>1, <1>3
  <2> QED BY <2>1, <2>2, HostDeed
<1>5. b \in S /\ b.do = "enqueue" /\ b.queue = "mBig"
  <2>1. {C} \in SUBSET Place /\ {D} \in SUBSET Place  BY <1>1
  <2>2. \A pl \in {D} : pl[2] \in BigBuffers  BY <1>1 DEF BigBuffers
  <2>3. \A pl \in {C} : \/ pl[2] \in BigBuffers \/ pl[2] = "hashBufNamed"
                        \/ pl[2] = "sieveBuffers" /\ pl[5] = ridx
        BY <1>1 DEF BigBuffers
  <2>4. \A pl \in {C} \union {D} : pl[1] = "host" => Since(pl, 6, p, ridx)
        BY <1>1, <1>3
  <2>5. BigSound({C}, {D}, 6, p, ridx)
        BY <2>1, <2>2, <2>3, <2>4 DEF BigSound
  <2>6. /\ Enqueue("mBig", {C}, {D}) \in NextDeeds(s0, p, 6, p, ridx)
        /\ Enqueue("mBig", {C}, {D}).do = "enqueue"
        /\ Enqueue("mBig", {C}, {D}).queue = "mBig"
        BY <2>5, BigDeed
  <2> QED BY <2>6 DEF copyToDevice, copyToHost
<1>6. c \in S /\ c.do = "host"
  <2>1. {B} \in SUBSET Place /\ {B} \in SUBSET Place  BY <1>1
  <2>2. \A pl \in {B} \union {B} : pl[1] = "host" /\ ~ Since(pl, s0, p, ridx)
        BY <1>1, <1>3
  <2> QED BY <2>1, <2>2, HostDeed
<1>7. ~ Conflict(b.what, c.what)
      BY <1>1 DEF Conflict, Access, Host, Enqueue
<1> HIDE DEF a, b, c, S
<1> DEFINE P == <<a>>
           M == IF left THEN <<b, c>> ELSE <<>>
<1>8. P \in Seq(S) /\ Ordered(P) /\ \A j \in DOMAIN P : P[j].do # "enqueue"
      BY <1>4 DEF Ordered
<1>9. M \in Seq(S) /\ Ordered(M)
  <2>1. CASE left
    <3>1. M = <<b, c>>  BY <2>1
    <3> HIDE DEF M
    <3> QED BY <1>5, <1>6, <1>7, <3>1 DEF Ordered
  <2>2. CASE ~ left
    <3>1. M = <<>>  BY <2>2
    <3> HIDE DEF M
    <3> QED BY <3>1 DEF Ordered
  <2> QED BY <2>1, <2>2
<1>10. CopyLeft(p, left) = P \o M  BY <1>2
<1> HIDE DEF P, M
<1> QED BY <1>8, <1>9, <1>10, OrderedBehind DEF S

LEMMA FoundRight ==
    ASSUME ridx \in 0 .. 1, NEW p \in Nat, NEW i \in Nat, NEW avail \in BOOLEAN
    PROVE  /\ CopyFound(p, i, avail) \in Seq(NextDeeds(6, p, 6, p, ridx))
           /\ Ordered(CopyFound(p, i, avail))
<1> DEFINE S == NextDeeds(6, p, 6, p, ridx)
           A == hostAt("candidatesCount", i, 0, ridx)
           B == count(p, ridx)
           C == devAt("sieveBuffers", i, p, ridx)
           D == info(p, ridx)
           a == Host({A}, {})
           b == Enqueue("mBig", {C}, {D})
           c == Host({B}, {B, A})
<1>1. /\ {A, B, C, D} \subseteq Place
      /\ A[1] = "host" /\ A[2] = "candidatesCount" /\ A[5] = ridx
      /\ B[1] = "host" /\ B[2] = "count" /\ B[4] = p
      /\ C[1] = "device" /\ C[2] = "sieveBuffers" /\ C[5] = ridx
      /\ D[1] = "device" /\ D[2] = "info"
  <2>1. 0 \in Nat  OBVIOUS
  <2>2. /\ "count" \in Buffer /\ "info" \in Buffer /\ "candidatesCount" \in Buffer
        /\ "sieveBuffers" \in Buffer
        BY DEF Buffer, BigBuffers, SmallBuffers, SharedBuffers
  <2>3. At(A, "host", "candidatesCount", 0, ridx)
        BY <2>1, <2>2, HostPlace DEF count, info
  <2>4. At(B, "host", "count", p, ridx)
        BY <2>1, <2>2, HostPlace DEF count, info
  <2>5. At(C, "device", "sieveBuffers", p, ridx)
        BY <2>1, <2>2, DevPlace DEF count, info
  <2>6. At(D, "device", "info", p, ridx)
        BY <2>1, <2>2, DevPlace DEF count, info
  <2> HIDE DEF A, B, C, D
  <2> QED BY <2>1, <2>3, <2>4, <2>5, <2>6 DEF At
<1>2. CopyFound(p, i, avail) = <<a>> \o (IF avail THEN <<b, c>> ELSE <<>>)
      BY DEF CopyFound
<1> HIDE DEF A, B, C, D
<1>3. \A pl \in {A, B} : ~ Since(pl, 6, p, ridx)
      BY <1>1 DEF Since
<1>4. a \in S /\ a.do = "host"
  <2>1. {A} \in SUBSET Place /\ {} \in SUBSET Place  BY <1>1
  <2>2. \A pl \in {A} \union {} : pl[1] = "host" /\ ~ Since(pl, 6, p, ridx)
        BY <1>1, <1>3
  <2> QED BY <2>1, <2>2, HostDeed
<1>5. b \in S /\ b.do = "enqueue" /\ b.queue = "mBig"
  <2>1. {C} \in SUBSET Place /\ {D} \in SUBSET Place  BY <1>1
  <2>2. \A pl \in {D} : pl[2] \in BigBuffers  BY <1>1 DEF BigBuffers
  <2>3. \A pl \in {C} : \/ pl[2] \in BigBuffers \/ pl[2] = "hashBufNamed"
                        \/ pl[2] = "sieveBuffers" /\ pl[5] = ridx
        BY <1>1 DEF BigBuffers
  <2>4. \A pl \in {C} \union {D} : pl[1] = "host" => Since(pl, 6, p, ridx)
        BY <1>1, <1>3
  <2>5. BigSound({C}, {D}, 6, p, ridx)
        BY <2>1, <2>2, <2>3, <2>4 DEF BigSound
  <2>6. /\ Enqueue("mBig", {C}, {D}) \in NextDeeds(6, p, 6, p, ridx)
        /\ Enqueue("mBig", {C}, {D}).do = "enqueue"
        /\ Enqueue("mBig", {C}, {D}).queue = "mBig"
        BY <2>5, BigDeed
  <2> QED BY <2>6 DEF copyToDevice, copyToHost
<1>6. c \in S /\ c.do = "host"
  <2>1. {B} \in SUBSET Place /\ {B, A} \in SUBSET Place  BY <1>1
  <2>2. \A pl \in {B} \union {B, A} : pl[1] = "host" /\ ~ Since(pl, 6, p, ridx)
        BY <1>1, <1>3
  <2> QED BY <2>1, <2>2, HostDeed
<1>7. ~ Conflict(b.what, c.what)
      BY <1>1 DEF Conflict, Access, Host, Enqueue
<1> HIDE DEF a, b, c, S
<1> DEFINE P == <<a>>
           M == IF avail THEN <<b, c>> ELSE <<>>
<1>8. P \in Seq(S) /\ Ordered(P) /\ \A j \in DOMAIN P : P[j].do # "enqueue"
      BY <1>4 DEF Ordered
<1>9. M \in Seq(S) /\ Ordered(M)
  <2>1. CASE avail
    <3>1. M = <<b, c>>  BY <2>1
    <3> HIDE DEF M
    <3> QED BY <1>5, <1>6, <1>7, <3>1 DEF Ordered
  <2>2. CASE ~ avail
    <3>1. M = <<>>  BY <2>2
    <3> HIDE DEF M
    <3> QED BY <3>1 DEF Ordered
  <2> QED BY <2>1, <2>2
<1>10. CopyFound(p, i, avail) = P \o M  BY <1>2
<1> HIDE DEF P, M
<1> QED BY <1>8, <1>9, <1>10, OrderedBehind DEF S

LEMMA TestsRight ==
    ASSUME ridx \in 0 .. 1, NEW p \in Nat, NEW whole \in BOOLEAN
    PROVE  /\ Tests(p, whole) \in Seq(NextDeeds(6, p, 7, p + 1, ridx))
           /\ Ordered(Tests(p, whole))
<1> DEFINE S == NextDeeds(6, p, 7, p + 1, ridx)
           A == count(p, ridx)
           B == count(p, widx)
           C == devAt("count", 0, p, widx)
           D == info(p, ridx)
           E == dev("hashBufNamed")
           F == devAt("input", 0, p, 0)
           G == devAt("output", 0, p, 0)
           H == info(p, widx)
           J == dev("finalInfo")
           K == dev("finalCount")
           a == Host({A}, {B})
           b == copyToDevice("mBig", B, C)
           c == Enqueue("mBig", {D, E}, {F})
           d == Enqueue("mBig", {F}, {G})
           e == Enqueue("mBig", {G, D}, {H, C, J, K})
           f == copyToHost("mBig", B, C)
<1>1. /\ {A, B, C, D, E, F, G, H, J, K} \subseteq Place
      /\ A[1] = "host" /\ A[2] = "count" /\ A[4] = p
      /\ B[1] = "host" /\ B[2] = "count" /\ B[4] = p /\ B[5] = 1 - ridx
      /\ C[1] = "device" /\ C[2] = "count" /\ D[1] = "device" /\ D[2] = "info"
      /\ E[1] = "device" /\ E[2] = "hashBufNamed" /\ F[1] = "device" /\ F[2] = "input"
      /\ G[1] = "device" /\ G[2] = "output" /\ H[1] = "device" /\ H[2] = "info"
      /\ J[1] = "device" /\ J[2] = "finalInfo" /\ K[1] = "device" /\ K[2] = "finalCount"
  <2>1. widx = 1 - ridx /\ widx \in 0 .. 1 /\ 0 \in Nat /\ 0 \in 0 .. 1  BY DEF widx
  <2>2. /\ "count" \in Buffer /\ "info" \in Buffer /\ "input" \in Buffer
        /\ "output" \in Buffer /\ "finalInfo" \in Buffer /\ "finalCount" \in Buffer
        /\ "hashBufNamed" \in Buffer
        BY DEF Buffer, BigBuffers, SharedBuffers
  <2>3. At(A, "host", "count", p, ridx)
        BY <2>1, <2>2, HostPlace DEF count, info
  <2>4. At(B, "host", "count", p, widx)
        BY <2>1, <2>2, HostPlace DEF count, info
  <2>5. At(C, "device", "count", p, widx)
        BY <2>1, <2>2, DevPlace DEF count, info
  <2>6. At(D, "device", "info", p, ridx)
        BY <2>1, <2>2, DevPlace DEF count, info
  <2>7. At(E, "device", "hashBufNamed", 0, 0)
        BY <2>1, <2>2, DevName DEF count, info
  <2>8. At(F, "device", "input", p, 0)
        BY <2>1, <2>2, DevPlace DEF count, info
  <2>9. At(G, "device", "output", p, 0)
        BY <2>1, <2>2, DevPlace DEF count, info
  <2>10. At(H, "device", "info", p, widx)
        BY <2>1, <2>2, DevPlace DEF count, info
  <2>11. At(J, "device", "finalInfo", 0, 0)
        BY <2>1, <2>2, DevName DEF count, info
  <2>12. At(K, "device", "finalCount", 0, 0)
        BY <2>1, <2>2, DevName DEF count, info
  <2> HIDE DEF A, B, C, D, E, F, G, H, J, K
  <2> QED BY <2>1, <2>3, <2>4, <2>5, <2>6, <2>7, <2>8, <2>9, <2>10, <2>11, <2>12 DEF At
<1>2. Tests(p, whole) = <<a, b>> \o (IF whole THEN <<c, d, e, f>> ELSE <<>>)
      BY DEF Tests
<1> HIDE DEF A, B, C, D, E, F, G, H, J, K
<1>3. /\ \A pl \in {A, B} : ~ Since(pl, 6, p, ridx)
      /\ Since(B, 7, p + 1, ridx)
      BY <1>1 DEF Since
<1>4. a \in S /\ a.do = "host"
  <2>1. {A} \in SUBSET Place /\ {B} \in SUBSET Place  BY <1>1
  <2>2. \A pl \in {A} \union {B} : pl[1] = "host" /\ ~ Since(pl, 6, p, ridx)
        BY <1>1, <1>3
  <2> QED BY <2>1, <2>2, HostDeed
<1>5. b \in S /\ b.do = "enqueue" /\ b.queue = "mBig"
  <2>1. {B} \in SUBSET Place /\ {C} \in SUBSET Place  BY <1>1
  <2>2. \A pl \in {C} : pl[2] \in BigBuffers  BY <1>1 DEF BigBuffers
  <2>3. \A pl \in {B} : \/ pl[2] \in BigBuffers \/ pl[2] = "hashBufNamed"
                        \/ pl[2] = "sieveBuffers" /\ pl[5] = ridx
        BY <1>1 DEF BigBuffers
  <2>4. \A pl \in {B} \union {C} : pl[1] = "host" => Since(pl, 7, p + 1, ridx)
        BY <1>1, <1>3
  <2>5. BigSound({B}, {C}, 7, p + 1, ridx)
        BY <2>1, <2>2, <2>3, <2>4 DEF BigSound
  <2>6. /\ Enqueue("mBig", {B}, {C}) \in NextDeeds(6, p, 7, p + 1, ridx)
        /\ Enqueue("mBig", {B}, {C}).do = "enqueue"
        /\ Enqueue("mBig", {B}, {C}).queue = "mBig"
        BY <2>5, BigDeed
  <2> QED BY <2>6 DEF copyToDevice, copyToHost
<1>6. c \in S /\ c.do = "enqueue" /\ c.queue = "mBig"
  <2>1. {D, E} \in SUBSET Place /\ {F} \in SUBSET Place  BY <1>1
  <2>2. \A pl \in {F} : pl[2] \in BigBuffers  BY <1>1 DEF BigBuffers
  <2>3. \A pl \in {D, E} : \/ pl[2] \in BigBuffers \/ pl[2] = "hashBufNamed"
                           \/ pl[2] = "sieveBuffers" /\ pl[5] = ridx
        BY <1>1 DEF BigBuffers
  <2>4. \A pl \in {D, E} \union {F} : pl[1] = "host" => Since(pl, 7, p + 1, ridx)
        BY <1>1, <1>3
  <2>5. BigSound({D, E}, {F}, 7, p + 1, ridx)
        BY <2>1, <2>2, <2>3, <2>4 DEF BigSound
  <2>6. /\ Enqueue("mBig", {D, E}, {F}) \in NextDeeds(6, p, 7, p + 1, ridx)
        /\ Enqueue("mBig", {D, E}, {F}).do = "enqueue"
        /\ Enqueue("mBig", {D, E}, {F}).queue = "mBig"
        BY <2>5, BigDeed
  <2> QED BY <2>6 DEF copyToDevice, copyToHost
<1>7. d \in S /\ d.do = "enqueue" /\ d.queue = "mBig"
  <2>1. {F} \in SUBSET Place /\ {G} \in SUBSET Place  BY <1>1
  <2>2. \A pl \in {G} : pl[2] \in BigBuffers  BY <1>1 DEF BigBuffers
  <2>3. \A pl \in {F} : \/ pl[2] \in BigBuffers \/ pl[2] = "hashBufNamed"
                        \/ pl[2] = "sieveBuffers" /\ pl[5] = ridx
        BY <1>1 DEF BigBuffers
  <2>4. \A pl \in {F} \union {G} : pl[1] = "host" => Since(pl, 7, p + 1, ridx)
        BY <1>1, <1>3
  <2>5. BigSound({F}, {G}, 7, p + 1, ridx)
        BY <2>1, <2>2, <2>3, <2>4 DEF BigSound
  <2>6. /\ Enqueue("mBig", {F}, {G}) \in NextDeeds(6, p, 7, p + 1, ridx)
        /\ Enqueue("mBig", {F}, {G}).do = "enqueue"
        /\ Enqueue("mBig", {F}, {G}).queue = "mBig"
        BY <2>5, BigDeed
  <2> QED BY <2>6 DEF copyToDevice, copyToHost
<1>8. e \in S /\ e.do = "enqueue" /\ e.queue = "mBig"
  <2>1. {G, D} \in SUBSET Place /\ {H, C, J, K} \in SUBSET Place  BY <1>1
  <2>2. \A pl \in {H, C, J, K} : pl[2] \in BigBuffers  BY <1>1 DEF BigBuffers
  <2>3. \A pl \in {G, D} : \/ pl[2] \in BigBuffers \/ pl[2] = "hashBufNamed"
                           \/ pl[2] = "sieveBuffers" /\ pl[5] = ridx
        BY <1>1 DEF BigBuffers
  <2>4. \A pl \in {G, D} \union {H, C, J, K} : pl[1] = "host" => Since(pl, 7, p + 1, ridx)
        BY <1>1, <1>3
  <2>5. BigSound({G, D}, {H, C, J, K}, 7, p + 1, ridx)
        BY <2>1, <2>2, <2>3, <2>4 DEF BigSound
  <2>6. /\ Enqueue("mBig", {G, D}, {H, C, J, K}) \in NextDeeds(6, p, 7, p + 1, ridx)
        /\ Enqueue("mBig", {G, D}, {H, C, J, K}).do = "enqueue"
        /\ Enqueue("mBig", {G, D}, {H, C, J, K}).queue = "mBig"
        BY <2>5, BigDeed
  <2> QED BY <2>6 DEF copyToDevice, copyToHost
<1>9. f \in S /\ f.do = "enqueue" /\ f.queue = "mBig"
  <2>1. {C} \in SUBSET Place /\ {B} \in SUBSET Place  BY <1>1
  <2>2. \A pl \in {B} : pl[2] \in BigBuffers  BY <1>1 DEF BigBuffers
  <2>3. \A pl \in {C} : \/ pl[2] \in BigBuffers \/ pl[2] = "hashBufNamed"
                        \/ pl[2] = "sieveBuffers" /\ pl[5] = ridx
        BY <1>1 DEF BigBuffers
  <2>4. \A pl \in {C} \union {B} : pl[1] = "host" => Since(pl, 7, p + 1, ridx)
        BY <1>1, <1>3
  <2>5. BigSound({C}, {B}, 7, p + 1, ridx)
        BY <2>1, <2>2, <2>3, <2>4 DEF BigSound
  <2>6. /\ Enqueue("mBig", {C}, {B}) \in NextDeeds(6, p, 7, p + 1, ridx)
        /\ Enqueue("mBig", {C}, {B}).do = "enqueue"
        /\ Enqueue("mBig", {C}, {B}).queue = "mBig"
        BY <2>5, BigDeed
  <2> QED BY <2>6 DEF copyToDevice, copyToHost
<1> HIDE DEF a, b, c, d, e, f, S
<1> DEFINE P == <<a, b>>
           M == IF whole THEN <<c, d, e, f>> ELSE <<>>
<1>10. P \in Seq(S) /\ Ordered(P)
       BY <1>4, <1>5 DEF Ordered
<1>11. M \in Seq(S) /\ \A k \in DOMAIN M : M[k].do # "host"
  <2>1. CASE whole
    <3>1. M = <<c, d, e, f>>  BY <2>1
    <3> HIDE DEF M
    <3> QED BY <1>6, <1>7, <1>8, <1>9, <3>1
  <2>2. CASE ~ whole
    <3>1. M = <<>>  BY <2>2
    <3> HIDE DEF M
    <3> QED BY <3>1
  <2> QED BY <2>1, <2>2
<1>12. Tests(p, whole) = P \o M  BY <1>2
<1> HIDE DEF P, M
<1>13. Ordered(M)  BY <1>11, OrderedAnyway
<1> QED BY <1>10, <1>11, <1>12, <1>13, OrderedBehind DEF S

LEMMA FinalRight ==
    ASSUME NEW s0, NEW p0, NEW p, NEW h
    PROVE  FetchFinal \in Seq(NextDeeds(s0, p0, 8, p, h)) /\ Ordered(FetchFinal)
<1> DEFINE S == NextDeeds(s0, p0, 8, p, h)
           A == host("finalInfo")
           B == dev("finalInfo")
           C == host("finalCount")
           D == dev("finalCount")
           a == copyToHost("mBig", A, B)
           b == copyToHost("mBig", C, D)
<1>1. /\ {A, B, C, D} \subseteq Place
      /\ A[1] = "host" /\ A[2] = "finalInfo" /\ C[1] = "host" /\ C[2] = "finalCount"
      /\ B[1] = "device" /\ B[2] = "finalInfo" /\ D[1] = "device" /\ D[2] = "finalCount"
      BY Places DEF BigBuffers
<1>2. FetchFinal = <<a, b>>  BY DEF FetchFinal
<1> HIDE DEF A, B, C, D
<1>3. Since(A, 8, p, h) /\ Since(C, 8, p, h)
      BY <1>1 DEF Since
<1>4. a \in S /\ a.do = "enqueue" /\ a.queue = "mBig"
  <2>1. {B} \in SUBSET Place /\ {A} \in SUBSET Place  BY <1>1
  <2>2. \A pl \in {A} : pl[2] \in BigBuffers  BY <1>1 DEF BigBuffers
  <2>3. \A pl \in {B} : \/ pl[2] \in BigBuffers \/ pl[2] = "hashBufNamed"
                        \/ pl[2] = "sieveBuffers" /\ pl[5] = h
        BY <1>1 DEF BigBuffers
  <2>4. \A pl \in {B} \union {A} : pl[1] = "host" => Since(pl, 8, p, h)
        BY <1>1, <1>3
  <2>5. BigSound({B}, {A}, 8, p, h)
        BY <2>1, <2>2, <2>3, <2>4 DEF BigSound
  <2>6. /\ Enqueue("mBig", {B}, {A}) \in NextDeeds(s0, p0, 8, p, h)
        /\ Enqueue("mBig", {B}, {A}).do = "enqueue"
        /\ Enqueue("mBig", {B}, {A}).queue = "mBig"
        BY <2>5, BigDeed
  <2> QED BY <2>6 DEF copyToDevice, copyToHost
<1>5. b \in S /\ b.do = "enqueue" /\ b.queue = "mBig"
  <2>1. {D} \in SUBSET Place /\ {C} \in SUBSET Place  BY <1>1
  <2>2. \A pl \in {C} : pl[2] \in BigBuffers  BY <1>1 DEF BigBuffers
  <2>3. \A pl \in {D} : \/ pl[2] \in BigBuffers \/ pl[2] = "hashBufNamed"
                        \/ pl[2] = "sieveBuffers" /\ pl[5] = h
        BY <1>1 DEF BigBuffers
  <2>4. \A pl \in {D} \union {C} : pl[1] = "host" => Since(pl, 8, p, h)
        BY <1>1, <1>3
  <2>5. BigSound({D}, {C}, 8, p, h)
        BY <2>1, <2>2, <2>3, <2>4 DEF BigSound
  <2>6. /\ Enqueue("mBig", {D}, {C}) \in NextDeeds(s0, p0, 8, p, h)
        /\ Enqueue("mBig", {D}, {C}).do = "enqueue"
        /\ Enqueue("mBig", {D}, {C}).queue = "mBig"
        BY <2>5, BigDeed
  <2> QED BY <2>6 DEF copyToDevice, copyToHost
<1> HIDE DEF a, b, S
<1> QED BY <1>2, <1>4, <1>5 DEF Ordered, S

LEMMA CountsRight ==
    ASSUME ridx \in 0 .. 1, FERMAT_PIPELINES \in Nat, NEW p, NEW r
    PROVE  ReadCounts \in Seq(NextDeeds(8, p, 9, r, ridx)) /\ Ordered(ReadCounts)
<1> DEFINE S == NextDeeds(8, p, 9, r, ridx)
           A == {count(k, ridx) : k \in 0 .. FERMAT_PIPELINES - 1}
           a == Host(A, {})
<1>1. \A pl \in A : pl \in Place /\ pl[1] = "host" /\ pl[2] = "count" /\ pl[5] = ridx
  <2>1. "count" \in Buffer /\ 0 \in Nat  BY DEF Buffer, BigBuffers
  <2> QED BY <2>1, HostPlace DEF count, At
<1>2. ReadCounts = <<a>>  BY DEF ReadCounts
<1> HIDE DEF A
<1>3. a \in S /\ a.do = "host"
  <2>1. \A pl \in A \union {} : pl[1] = "host" /\ ~ Since(pl, 8, p, ridx)
        BY <1>1 DEF Since
  <2>2. A \in SUBSET Place /\ {} \in SUBSET Place  BY <1>1
  <2> QED BY <2>1, <2>2, HostDeed
<1> HIDE DEF a, S
<1> QED BY <1>2, <1>3 DEF Ordered, S

LEMMA FinishRight ==
    ASSUME NEW s0, NEW p0, NEW s, NEW p, NEW h
    PROVE  /\ Finish \in Seq(NextDeeds(s0, p0, s, p, h)) /\ Ordered(Finish)
           /\ \A k \in DOMAIN Finish : Finish[k].do = "wait"
           /\ \A q \in Queues : \E k \in DOMAIN Finish : Finish[k].queue = q
<1> DEFINE S == NextDeeds(s0, p0, s, p, h)
           a == Wait("mBig")
           b == Wait("mSmall")
<1>1. a \in S /\ a.do = "wait" /\ a.queue = "mBig" /\ b \in S /\ b.do = "wait" /\ b.queue = "mSmall"
      BY WaitDeed DEF Queues
<1>2. Finish = <<a, b>>  BY DEF Finish
<1> HIDE DEF a, b, S
<1>3. Finish \in Seq(S) /\ Ordered(Finish) /\ \A k \in DOMAIN Finish : Finish[k].do = "wait"
      BY <1>1, <1>2 DEF Ordered
<1>4. 1 \in DOMAIN Finish /\ Finish[1] = a /\ 2 \in DOMAIN Finish /\ Finish[2] = b
      BY <1>2
<1> QED BY <1>1, <1>3, <1>4 DEF Queues, S

-----------------------------------------------------------------------------
(* The steps from one segment to the next.                                 *)

LEMMA NewIterationPreserves ==
    ASSUME QueueIInv, NewIteration
    PROVE  QueueIInv'
<1>1. /\ segment = 10 /\ todo = <<>> /\ segment' = 1 /\ ridx' = widx /\ turn' = 0
      /\ pipeline' = 0 /\ UNCHANGED <<sieves, queued>>
      /\ todo' = Reset \/ todo' = <<>>
      BY DEF NewIteration, GoOn
<1>2. /\ sieves \in 1 .. QueueSieves /\ FERMAT_PIPELINES \in Nat /\ sieves \in Nat
      /\ ridx' \in 0 .. 1 /\ 0 \in 0 .. QueueSieves /\ 0 \in 0 .. FERMAT_PIPELINES
      BY <1>1, QueuesAssumption DEF QueueIInv, QueueTypeOK, widx
<1>3. \A q \in Queues : queued[q] = <<>>
      BY <1>1, NothingPending
<1>4. /\ todo' \in Seq(NextDeeds(2, 0, 1, 0, ridx')) /\ Ordered(todo')
      /\ todo' = Reset => /\ Len(todo') = 4 /\ todo'[4].do = "wait" /\ todo'[4].queue = "mBig"
                          /\ \A k \in DOMAIN todo' : todo'[k].do = "enqueue" => todo'[k].queue = "mBig"
  <2>1. CASE todo' = Reset  BY <1>2, <2>1, ResetRight
  <2>2. CASE todo' = <<>> /\ todo' # Reset  BY <2>2 DEF Ordered
  <2> QED BY <1>1, <2>1, <2>2
<1>5. Quiet'
  <2> SUFFICES ASSUME NEW q \in Queues PROVE Settles(q)'
      BY DEF Quiet
  <2>1. CASE todo' = <<>>
        BY <1>1, <1>3, <2>1 DEF Settles
  <2>2. CASE todo' = Reset /\ q = "mSmall"
    <3>1. \A k \in DOMAIN todo' : ~ (todo'[k].do = "enqueue" /\ todo'[k].queue = q)
          BY <1>4, <2>2
    <3> QED BY <1>1, <1>3, <3>1 DEF Settles
  <2>3. CASE todo' = Reset /\ q = "mBig"
    <3>1. DOMAIN todo' = 1 .. 4  BY <1>4, <2>3
    <3>2. 4 \in DOMAIN todo' /\ \A j \in DOMAIN todo' : ~ j > 4  BY <3>1
    <3> QED BY <1>4, <2>3, <3>2 DEF Settles
  <2> QED BY <1>1, <2>1, <2>2, <2>3 DEF Queues
<1>6. /\ segment' \in 1 .. 10 /\ sieves' \in 1 .. QueueSieves /\ turn' \in 0 .. QueueSieves
      /\ pipeline' \in 0 .. FERMAT_PIPELINES
      /\ todo' \in Seq(NextDeeds(2, 0, segment', pipeline', ridx')) /\ Ordered(todo)'
      BY <1>1, <1>2, <1>4
<1>7. AtPipeline'  BY <1>1 DEF AtPipeline
<1> QED BY <1>1, <1>2, <1>3, <1>5, <1>6, <1>7, GoOnPreserves

\* Between the iteration's ends there is nothing to say of Quiet.
LEMMA HashmodFetchPreserves ==
    ASSUME QueueIInv, HashmodFetch
    PROVE  QueueIInv'
<1>1. /\ segment = 1 /\ todo = <<>> /\ segment' = 2
      /\ UNCHANGED <<turn, pipeline, ridx, sieves, queued>>
      /\ \E found \in BOOLEAN : todo' = FetchHashmod(found)
      BY DEF HashmodFetch, GoOn
<1>2. \A q \in Queues : queued[q] = <<>>
      BY <1>1, NothingPending
<1>3. todo' \in Seq(NextDeeds(0, 0, segment', pipeline', ridx')) /\ Ordered(todo)'
  <2>1. PICK found \in BOOLEAN : todo' = FetchHashmod(found)
        BY <1>1
  <2> QED BY <1>1, <2>1, FetchRight
<1>4. Quiet'  BY <1>1 DEF Quiet
<1>5. /\ segment' \in 1 .. 10 /\ ridx' \in 0 .. 1 /\ sieves' \in 1 .. QueueSieves
      /\ turn' \in 0 .. QueueSieves /\ pipeline' \in 0 .. FERMAT_PIPELINES
      BY <1>1 DEF QueueIInv, QueueTypeOK
<1>6. AtPipeline'  BY <1>1 DEF AtPipeline
<1> QED BY <1>1, <1>2, <1>3, <1>4, <1>5, <1>6, GoOnPreserves

\* The same for the steps with which nothing need have completed.
LEMMA WithinIteration ==
    ASSUME QueueIInv, todo = <<>>, UNCHANGED <<queued, ridx>>,
           segment \in 2 .. 9, segment' \in 3 .. 9,
           segment <= segment' \/ (segment = 7 /\ segment' = 6),
           sieves' \in 1 .. QueueSieves, turn' \in 0 .. QueueSieves,
           pipeline' \in 0 .. FERMAT_PIPELINES, pipeline <= pipeline',
           todo' \in Seq(NextDeeds(segment, pipeline, segment', pipeline', ridx)),
           Ordered(todo'), AtPipeline'
    PROVE  QueueIInv'
<1>1. Quiet'  BY DEF Quiet
<1>2. ridx' \in 0 .. 1 /\ ridx' = ridx  BY DEF QueueIInv, QueueTypeOK
<1>3. segment' \in 1 .. 10 /\ segment' \in 3 .. 10 /\ UNCHANGED queued  OBVIOUS
<1>4. todo' \in Seq(NextDeeds(segment, pipeline, segment', pipeline', ridx')) /\ Ordered(todo)'
      BY <1>2
<1> QED BY <1>1, <1>2, <1>3, <1>4, GoOnPreserves

LEMMA HashmodDispatchPreserves ==
    ASSUME QueueIInv, HashmodDispatch
    PROVE  QueueIInv'
<1>1. /\ segment = 2 /\ todo = <<>> /\ segment' = 3
      /\ UNCHANGED <<turn, pipeline, ridx, sieves, queued>>
      /\ \/ todo' = simplePrecalcSHA256 \o DispatchHashmod
         \/ todo' = DispatchHashmod
         \/ todo' = <<>>
      BY DEF HashmodDispatch, GoOn
<1>2. todo' \in Seq(NextDeeds(2, pipeline, 3, pipeline, ridx)) /\ Ordered(todo')
  <2>1. CASE todo' = <<>>  BY <2>1 DEF Ordered
  <2>2. CASE todo' = DispatchHashmod  BY <2>2, HashmodRight
  <2>3. CASE todo' = simplePrecalcSHA256 \o DispatchHashmod  BY <2>3, HashmodRight
  <2> QED BY <1>1, <2>1, <2>2, <2>3
<1>3. /\ sieves \in 1 .. QueueSieves /\ turn \in 0 .. QueueSieves
      /\ pipeline \in 0 .. FERMAT_PIPELINES /\ pipeline <= pipeline
      BY QueuesAssumption DEF QueueIInv, QueueTypeOK
<1>4. AtPipeline'  BY <1>1 DEF AtPipeline
<1> QED BY <1>1, <1>2, <1>3, <1>4, WithinIteration

LEMMA SieveDispatchPreserves ==
    ASSUME QueueIInv, SieveDispatch
    PROVE  QueueIInv'
<1>1. /\ segment \in {3, 4} /\ todo = <<>> /\ segment' = 4 /\ turn < sieves /\ turn' = turn + 1
      /\ todo' = DispatchSieve(turn)
      /\ UNCHANGED <<pipeline, ridx, sieves, queued>>
      BY DEF SieveDispatch, GoOn
<1>2. /\ sieves \in 1 .. QueueSieves /\ turn \in Nat /\ ridx \in 0 .. 1 /\ FERMAT_PIPELINES \in Nat
      /\ pipeline \in 0 .. FERMAT_PIPELINES /\ pipeline <= pipeline
      BY QueuesAssumption DEF QueueIInv, QueueTypeOK
<1>3. turn' \in 0 .. QueueSieves /\ segment <= segment'
      BY <1>1, <1>2, QueuesAssumption
<1>4. todo' \in Seq(NextDeeds(segment, pipeline, 4, pipeline, ridx)) /\ Ordered(todo')
      BY <1>1, <1>2, SieveRight
<1>5. AtPipeline'  BY <1>1 DEF AtPipeline
<1> QED BY <1>1, <1>2, <1>3, <1>4, <1>5, WithinIteration

LEMMA GetCandisPreserves ==
    ASSUME QueueIInv, GetCandis
    PROVE  QueueIInv'
<1>1. /\ segment \in {3, 4} /\ todo = <<>> /\ segment' = 5 /\ todo' = FetchCandis
      /\ UNCHANGED <<turn, pipeline, ridx, sieves, queued>>
      BY DEF GetCandis, GoOn
<1>2. /\ sieves \in 1 .. QueueSieves /\ turn \in 0 .. QueueSieves
      /\ pipeline \in 0 .. FERMAT_PIPELINES /\ pipeline <= pipeline
      BY QueuesAssumption DEF QueueIInv, QueueTypeOK
<1>3. todo' \in Seq(NextDeeds(segment, pipeline, 5, pipeline, ridx)) /\ Ordered(todo')
      BY <1>1, CandisRight
<1>4. AtPipeline'  BY <1>1 DEF AtPipeline
<1> QED BY <1>1, <1>2, <1>3, <1>4, WithinIteration

LEMMA FermatDispatchPreserves ==
    ASSUME QueueIInv, FermatDispatch
    PROVE  QueueIInv'
<1>1. /\ segment \in {5, 7} /\ todo = <<>> /\ segment' = 6 /\ turn' = 0
      /\ UNCHANGED <<pipeline, ridx, sieves, queued>>
      /\ \E left \in BOOLEAN : todo' = CopyLeft(pipeline, left)
      BY DEF FermatDispatch, GoOn
<1>2. /\ sieves \in 1 .. QueueSieves /\ 0 \in 0 .. QueueSieves /\ ridx \in 0 .. 1
      /\ pipeline \in 0 .. FERMAT_PIPELINES /\ pipeline <= pipeline /\ pipeline \in Nat
      BY QueuesAssumption DEF QueueIInv, QueueTypeOK
<1>3. todo' \in Seq(NextDeeds(segment, pipeline, 6, pipeline, ridx)) /\ Ordered(todo')
  <2>1. PICK left \in BOOLEAN : todo' = CopyLeft(pipeline, left)
        BY <1>1
  <2> QED BY <1>1, <1>2, <2>1, LeftRight
<1>4. AtPipeline'  BY <1>1, <1>2 DEF FermatDispatch, AtPipeline
<1> QED BY <1>1, <1>2, <1>3, <1>4, WithinIteration

LEMMA FermatFoundPreserves ==
    ASSUME QueueIInv, FermatFound
    PROVE  QueueIInv'
<1>1. /\ segment = 6 /\ todo = <<>> /\ segment' = 6 /\ turn < sieves /\ turn' = turn + 1
      /\ UNCHANGED <<pipeline, ridx, sieves, queued>>
      /\ \E avail \in BOOLEAN : todo' = CopyFound(pipeline, turn, avail)
      BY DEF FermatFound, GoOn
<1>2. /\ sieves \in 1 .. QueueSieves /\ turn \in Nat /\ ridx \in 0 .. 1
      /\ pipeline \in 0 .. FERMAT_PIPELINES /\ pipeline <= pipeline /\ pipeline \in Nat
      BY QueuesAssumption DEF QueueIInv, QueueTypeOK
<1>3. turn' \in 0 .. QueueSieves
      BY <1>1, <1>2, QueuesAssumption
<1>4. todo' \in Seq(NextDeeds(6, pipeline, 6, pipeline, ridx)) /\ Ordered(todo')
  <2>1. PICK avail \in BOOLEAN : todo' = CopyFound(pipeline, turn, avail)
        BY <1>1
  <2> QED BY <1>2, <2>1, FoundRight
<1>5. AtPipeline'  BY <1>1 DEF QueueIInv, AtPipeline
<1> QED BY <1>1, <1>2, <1>3, <1>4, <1>5, WithinIteration

LEMMA FermatTestsPreserves ==
    ASSUME QueueIInv, FermatTests
    PROVE  QueueIInv'
<1>1. /\ segment = 6 /\ todo = <<>> /\ segment' = 7 /\ pipeline' = pipeline + 1
      /\ UNCHANGED <<turn, ridx, sieves, queued>>
      /\ \E whole \in BOOLEAN : todo' = Tests(pipeline, whole)
      BY DEF FermatTests, GoOn
<1>2. /\ sieves \in 1 .. QueueSieves /\ turn \in 0 .. QueueSieves /\ ridx \in 0 .. 1
      /\ pipeline \in Nat
      BY QueuesAssumption DEF QueueIInv, QueueTypeOK
<1>3. todo' \in Seq(NextDeeds(6, pipeline, 7, pipeline + 1, ridx)) /\ Ordered(todo')
  <2>1. PICK whole \in BOOLEAN : todo' = Tests(pipeline, whole)
        BY <1>1
  <2> QED BY <1>2, <2>1, TestsRight
<1>4. pipeline' \in 0 .. FERMAT_PIPELINES /\ pipeline <= pipeline'
      BY <1>1, <1>2, QueuesAssumption DEF QueueIInv, AtPipeline
<1>5. AtPipeline'  BY <1>1 DEF AtPipeline
<1> QED BY <1>1, <1>2, <1>3, <1>4, <1>5, WithinIteration

LEMMA GetFinalPreserves ==
    ASSUME QueueIInv, GetFinal
    PROVE  QueueIInv'
<1>1. /\ segment \in {5, 7} /\ todo = <<>> /\ segment' = 8 /\ todo' = FetchFinal
      /\ UNCHANGED <<turn, pipeline, ridx, sieves, queued>>
      BY DEF GetFinal, GoOn
<1>2. /\ sieves \in 1 .. QueueSieves /\ turn \in 0 .. QueueSieves
      /\ pipeline \in 0 .. FERMAT_PIPELINES /\ pipeline <= pipeline
      BY QueuesAssumption DEF QueueIInv, QueueTypeOK
<1>3. todo' \in Seq(NextDeeds(segment, pipeline, 8, pipeline, ridx)) /\ Ordered(todo')
      BY <1>1, FinalRight
<1>4. AtPipeline'  BY <1>1 DEF AtPipeline
<1> QED BY <1>1, <1>2, <1>3, <1>4, WithinIteration

LEMMA AdjustPreserves ==
    ASSUME QueueIInv, Adjust
    PROVE  QueueIInv'
<1>1. /\ segment = 8 /\ todo = <<>> /\ segment' = 9 /\ todo' = ReadCounts
      /\ UNCHANGED <<turn, pipeline, ridx, queued>>
      /\ sieves' \in {sieves, IF sieves < QueueSieves THEN sieves + 1 ELSE sieves}
      BY DEF Adjust, GoOn
<1>2. /\ sieves \in 1 .. QueueSieves /\ turn \in 0 .. QueueSieves /\ ridx \in 0 .. 1
      /\ pipeline \in 0 .. FERMAT_PIPELINES /\ pipeline <= pipeline /\ FERMAT_PIPELINES \in Nat
      BY QueuesAssumption DEF QueueIInv, QueueTypeOK
<1>3. sieves' \in 1 .. QueueSieves
      BY <1>1, <1>2, QueuesAssumption
<1>4. todo' \in Seq(NextDeeds(8, pipeline, 9, pipeline, ridx)) /\ Ordered(todo')
      BY <1>1, <1>2, CountsRight
<1>5. AtPipeline'  BY <1>1 DEF AtPipeline
<1> QED BY <1>1, <1>2, <1>3, <1>4, <1>5, WithinIteration

LEMMA EndIterationPreserves ==
    ASSUME QueueIInv, EndIteration
    PROVE  QueueIInv'
<1>1. /\ segment = 9 /\ todo = <<>> /\ segment' = 10 /\ todo' = Finish
      /\ UNCHANGED <<turn, pipeline, ridx, sieves, queued>>
      BY DEF EndIteration, GoOn
<1>2. /\ todo' \in Seq(NextDeeds(segment, pipeline, segment', pipeline', ridx')) /\ Ordered(todo)'
      /\ \A k \in DOMAIN todo' : todo'[k].do = "wait"
      /\ \A q \in Queues : \E k \in DOMAIN todo' : todo'[k].queue = q
      BY <1>1, FinishRight
<1>3. Quiet'
  <2> SUFFICES ASSUME NEW q \in Queues PROVE Settles(q)'
      BY DEF Quiet
  <2>1. PICK k \in DOMAIN todo' : todo'[k].queue = q
        BY <1>2
  <2> QED BY <1>2, <2>1 DEF Settles
<1>4. /\ segment' \in 1 .. 10 /\ ridx' \in 0 .. 1 /\ sieves' \in 1 .. QueueSieves
      /\ turn' \in 0 .. QueueSieves /\ pipeline' \in 0 .. FERMAT_PIPELINES
      /\ segment \in 2 .. 9 /\ segment' \in 3 .. 10 /\ pipeline <= pipeline' /\ segment <= segment'
      BY <1>1, QueuesAssumption DEF QueueIInv, QueueTypeOK
<1>5. AtPipeline'  BY <1>1 DEF AtPipeline
<1> QED BY <1>1, <1>2, <1>3, <1>4, <1>5, GoOnPreserves

-----------------------------------------------------------------------------

LEMMA StepPreserves == QueueIInv /\ [QueueNext]_queueVars => QueueIInv'
<1> SUFFICES ASSUME QueueIInv, [QueueNext]_queueVars PROVE QueueIInv'
    OBVIOUS
<1>1. CASE NewIteration      BY <1>1, NewIterationPreserves
<1>2. CASE HashmodFetch      BY <1>2, HashmodFetchPreserves
<1>3. CASE HashmodDispatch   BY <1>3, HashmodDispatchPreserves
<1>4. CASE SieveDispatch     BY <1>4, SieveDispatchPreserves
<1>5. CASE GetCandis         BY <1>5, GetCandisPreserves
<1>6. CASE FermatDispatch    BY <1>6, FermatDispatchPreserves
<1>7. CASE FermatFound       BY <1>7, FermatFoundPreserves
<1>8. CASE FermatTests       BY <1>8, FermatTestsPreserves
<1>9. CASE GetFinal          BY <1>9, GetFinalPreserves
<1>10. CASE Adjust           BY <1>10, AdjustPreserves
<1>11. CASE EndIteration     BY <1>11, EndIterationPreserves
<1>12. CASE HostStep         BY <1>12, HostStepPreserves
<1>13. CASE \E q \in Queues : Execute(q)
       BY <1>13, ExecutePreserves
<1>14. CASE UNCHANGED queueVars
       BY <1>14 DEF queueVars, QueueIInv, QueueTypeOK, AllRight, HostClear, Ordered, Quiet,
                  Settles, AtPipeline
<1> QED BY <1>1, <1>2, <1>3, <1>4, <1>5, <1>6, <1>7, <1>8, <1>9, <1>10, <1>11, <1>12, <1>13,
           <1>14 DEF QueueNext

LEMMA InvariantHolds == QueueSpec => []QueueIInv
<1> QED BY InitEstablishes, StepPreserves, PTL DEF QueueSpec

\* The commands and what the host has to do are what they should be, for any number of
\* pipelines and sieves (the buffers that Mining makes, xpmclient.cpp 303-326).
THEOREM QueueTypeCorrect == QueueSpec => []QueueTypeOK
<1>1. QueueIInv => QueueTypeOK  BY DEF QueueIInv
<1> QED BY <1>1, InvariantHolds, PTL

\* Mining's two queues and its host never touch a buffer at the same time, however late the
\* queues run: the one blocking write, the two halves of the sieve buffers and the clFinish
\* of both queues at the end of an iteration (xpmclient.cpp 691-697) are enough.
THEOREM NothingTwiceCorrect == QueueSpec => []NothingTouchedTwice
<1> QED BY InvariantHolds, InvariantSuffices, PTL

==============================================================================
