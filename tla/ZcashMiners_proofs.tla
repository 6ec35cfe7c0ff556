---------------------------- MODULE ZcashMiners_proofs ----------------------------
(***************************************************************************)
(* Proofs about the ZCash clients and what they share with the Primecoin   *)
(* client: the pipelined GPU thread (ZcashPipeline) for every number of    *)
(* instances, the CPU thread (ZcashCpuMiner) for every number of works and *)
(* nonces, the rate it reports (SolutionRate) for every length of the      *)
(* window, and the start of a client (ClientSetup) for every number of     *)
(* devices and every list of those in use.                                 *)
(***************************************************************************)
EXTENDS ZcashPipeline, ZcashCpuMiner, ClientSetup, SolutionRate,
        SequenceTheorems, FiniteSetTheorems, LoopTheorems

-----------------------------------------------------------------------------
(* ZcashPipeline: which instance is read, and what its queue               *)
(* still holds when the thread waits for it.                               *)

TheHeader == [work |-> work, nonce |-> nNonce]

ReadyIsCurrent ==
    /\ readyInstance >= 0 => readyInstance = currentInstance /\ nNonce >= pipelinesNum
    /\ readyInstance < 0  => /\ currentInstance = readyInstance + pipelinesNum
                             /\ nNonce = readyInstance + pipelinesNum

EndsWithLaunch(q) ==
    Len(q) >= 2 /\ q[Len(q) - 1] = "write" /\ q[Len(q)] = "solve"

LastLaunchPending ==
    pc = "collect" =>
       /\ readyInstance >= 0
       /\ state[readyInstance] = TheHeader
       /\ nonce[readyInstance] = nNonce
       /\ \/ EndsWithLaunch(queue[readyInstance])
          \/ /\ queue[readyInstance] = <<"solve">>
             /\ devState[readyInstance] = TheHeader
             /\ devSols[readyInstance] = {}
          \/ /\ queue[readyInstance] = << >>
             /\ devSols[readyInstance] = {TheHeader}

CollectedSoFar ==
    \A n \in 0 .. MaxNonce :
       [work |-> work, nonce |-> n] \in collected <=>
          work > 0 /\ pipelinesNum <= n /\ n < nNonce

CollectedNotAhead == \A c \in collected : c.work \in 1 .. work

CollectNeedsWork == pc = "collect" => work > 0

IInv ==
    /\ GpuTypeOK
    /\ ReadyIsCurrent
    /\ LastLaunchPending
    /\ CollectedSoFar
    /\ CollectedNotAhead
    /\ CollectNeedsWork
    /\ ShareOfOnePiece

LEMMA Modulus ==
    ASSUME NEW n \in Nat \ {0}
    PROVE  n % n = 0 /\ \A x \in 0 .. n - 1 : x % n = x
OBVIOUS

\* What the device does next for a queue that ends with a launch.
LEMMA EndsWithLaunchCases ==
    ASSUME NEW q \in Seq(Command), EndsWithLaunch(q)
    PROVE  \/ EndsWithLaunch(Tail(q))
           \/ Head(q) = "write" /\ Tail(q) = <<"solve">>
<1>1. Len(q) \in Nat /\ Len(q) >= 2 /\ q # << >>
      BY DEF EndsWithLaunch
<1>2. /\ Tail(q) \in Seq(Command)
      /\ Len(Tail(q)) = Len(q) - 1
      /\ \A i \in 1 .. Len(Tail(q)) : Tail(q)[i] = q[i + 1]
      BY <1>1, HeadTailProperties
<1>3. CASE Len(q) > 2
  <2>1. EndsWithLaunch(Tail(q))  BY <1>1, <1>2, <1>3 DEF EndsWithLaunch
  <2> QED BY <2>1
<1>4. CASE Len(q) = 2
  <2>1. q[1] = "write" /\ q[2] = "solve"  BY <1>4 DEF EndsWithLaunch
  <2>2. Head(q) = q[1]  BY <1>1
  <2>3. <<"solve">> \in Seq(Command) /\ Len(<<"solve">>) = 1 /\ <<"solve">>[1] = "solve"
        BY DEF Command
  <2>4. Len(Tail(q)) = 1 /\ Tail(q)[1] = "solve"  BY <1>2, <1>4, <2>1
  <2>5. \A i \in 1 .. Len(Tail(q)) : Tail(q)[i] = <<"solve">>[i]
        BY <2>3, <2>4
  <2>6. Tail(q) = <<"solve">>  BY <1>2, <2>3, <2>4, <2>5, SeqEqual
  <2> QED BY <2>1, <2>2, <2>6
<1>5. \A n \in Nat : n >= 2 => n > 2 \/ n = 2  OBVIOUS
<1>6. Len(q) > 2 \/ Len(q) = 2  BY <1>1, <1>5
<1> QED BY <1>3, <1>4, <1>6

LEMMA InvariantsSuffice == IInv => AllButTheFirstCollected
<1> SUFFICES ASSUME IInv, work > 0
             PROVE  Collected(work) = pipelinesNum .. nNonce - 1
    BY DEF AllButTheFirstCollected
<1> USE PipelinesAssumption, BoundsAssumption DEF IInv
<1>1. work \in 0 .. MaxWork /\ nNonce \in 0 .. MaxNonce /\ collected \subseteq Header
      BY DEF GpuTypeOK
<1>2. \A n \in Collected(work) : n \in pipelinesNum .. nNonce - 1
  <2> SUFFICES ASSUME NEW c \in collected, c.work = work
               PROVE  c.nonce \in pipelinesNum .. nNonce - 1
      BY DEF Collected
  <2>1. c \in Header  BY <1>1
  <2>2. c = [work |-> work, nonce |-> c.nonce] /\ c.nonce \in 0 .. MaxNonce
        BY <2>1 DEF Header
  <2> QED BY <1>1, <2>2 DEF CollectedSoFar
<1>3. \A n \in pipelinesNum .. nNonce - 1 : n \in Collected(work)
  <2> SUFFICES ASSUME NEW n \in pipelinesNum .. nNonce - 1
               PROVE  n \in Collected(work)
      OBVIOUS
  <2> DEFINE c == [work |-> work, nonce |-> n]
  <2>1. c \in collected  BY <1>1 DEF CollectedSoFar
  <2>2. c.work = work /\ c.nonce = n  OBVIOUS
  <2> HIDE DEF c
  <2> QED BY <2>1, <2>2 DEF Collected
<1> QED BY <1>2, <1>3

LEMMA InitEstablishes == GpuInit => IInv
<1> SUFFICES ASSUME GpuInit PROVE IInv
    OBVIOUS
<1> USE PipelinesAssumption, BoundsAssumption DEF GpuInit
<1>1. NoHeader \in Header  BY DEF NoHeader, Header
<1>2. 0 \in Instance  BY DEF Instance
<1>3. GpuTypeOK  BY <1>1, <1>2 DEF GpuTypeOK, NoShare
<1>4. ReadyIsCurrent /\ LastLaunchPending /\ CollectedNotAhead /\ CollectNeedsWork
      BY DEF ReadyIsCurrent, LastLaunchPending, CollectedNotAhead, CollectNeedsWork
<1>5. CollectedSoFar /\ ShareOfOnePiece
      BY DEF CollectedSoFar, ShareOfOnePiece
<1> QED BY <1>3, <1>4, <1>5 DEF IInv

-----------------------------------------------------------------------------
(* The steps.                                                              *)

LEMMA TypeOKStep == GpuTypeOK /\ LastLaunchPending /\ [GpuNext]_gpuVars => GpuTypeOK'
<1> SUFFICES ASSUME GpuTypeOK, LastLaunchPending, [GpuNext]_gpuVars PROVE GpuTypeOK'
    OBVIOUS
<1> USE PipelinesAssumption, BoundsAssumption DEF GpuTypeOK
<1>1. NoHeader \in Header  BY DEF NoHeader, Header
<1>2. 0 \in Instance  BY DEF Instance
<1>3. ASSUME NEW w \in Work, NewWork(w) PROVE GpuTypeOK'
      BY <1>2, <1>3 DEF NewWork, NoneReady, instances, Work
<1>4. [work |-> work, nonce |-> nNonce] \in Header  BY DEF Header
<1>5. ASSUME Advance
      PROVE  /\ nNonce' \in 0 .. MaxNonce
             /\ currentInstance' \in Instance
             /\ readyInstance' \in -pipelinesNum .. pipelinesNum - 1
      BY <1>5 DEF Advance, Instance
<1>6. CASE Iterate
  <2>1. state' \in [Instance -> Header] /\ nonce' \in [Instance -> 0 .. MaxNonce]
        BY <1>4, <1>6 DEF Iterate, Launch
  <2>2. queue' \in [Instance -> Seq(Command)]
    <3>1. <<"write", "solve">> \in Seq(Command)  BY DEF Command
    <3>2. \A i \in Instance : queue[i] \o <<"write", "solve">> \in Seq(Command)
          BY <3>1
    <3> QED BY <1>6, <3>2 DEF Iterate, Launch
  <2>3. /\ pc' \in {"top", "collect"} /\ nNonce' \in 0 .. MaxNonce
        /\ currentInstance' \in Instance
        /\ readyInstance' \in -pipelinesNum .. pipelinesNum - 1
        BY <1>5, <1>6 DEF Iterate
  <2> QED BY <1>6, <2>1, <2>2, <2>3 DEF Iterate
<1>7. CASE Collect
  <2>1. readyInstance \in Instance
        BY <1>7 DEF Collect, LastLaunchPending, Instance
  <2>2. devSols[readyInstance] \subseteq Header  BY <2>1
  <2>3. collected' \subseteq Header  BY <1>7, <2>2 DEF Collect
  <2>4. nonce[readyInstance] \in 0 .. MaxNonce  BY <2>1
  <2>5. share' \in [merkle : 0 .. MaxWork, hash : Header, bignonce : 0 .. MaxNonce,
                    solves : Header]
        BY <1>4, <1>7, <2>2, <2>4 DEF Collect
  <2> QED BY <1>5, <1>7, <2>3, <2>5 DEF Collect, instances
<1>8. ASSUME NEW i \in Instance, Execute(i) PROVE GpuTypeOK'
  <2>1. Tail(queue[i]) \in Seq(Command)  BY <1>8 DEF Execute
  <2>2. queue' \in [Instance -> Seq(Command)]  BY <1>8, <2>1 DEF Execute
  <2>3. devState[i] \in Header /\ state[i] \in Header /\ devSols[i] \subseteq Header
        BY <1>8
  <2>4. CASE Head(queue[i]) = "write"
    <3>1. /\ devState' = [devState EXCEPT ![i] = state[i]]
          /\ devSols' = [devSols EXCEPT ![i] = {}]
          BY <1>8, <2>4 DEF Execute
    <3>2. devState' \in [Instance -> Header] /\ devSols' \in [Instance -> SUBSET Header]
          BY <2>3, <3>1
    <3> QED BY <1>8, <2>2, <3>2 DEF Execute
  <2>5. CASE Head(queue[i]) # "write"
    <3>1. /\ devSols' = [devSols EXCEPT ![i] = @ \cup {devState[i]}]
          /\ devState' = devState
          BY <1>8, <2>5 DEF Execute
    <3>2. devSols' \in [Instance -> SUBSET Header]
          BY <2>3, <3>1
    <3> QED BY <1>8, <2>2, <3>1, <3>2 DEF Execute
  <2> QED BY <2>4, <2>5
<1>9. CASE UNCHANGED gpuVars  BY <1>9 DEF gpuVars, instances
<1> QED BY <1>3, <1>6, <1>7, <1>8, <1>9 DEF GpuNext

LEMMA NewWorkPreserves ==
    ASSUME IInv, NEW w \in Work, NewWork(w)
    PROVE  /\ ReadyIsCurrent' /\ LastLaunchPending' /\ CollectedSoFar'
           /\ CollectedNotAhead' /\ CollectNeedsWork' /\ ShareOfOnePiece'
<1> USE PipelinesAssumption, BoundsAssumption DEF IInv, NewWork
<1>1. work \in 0 .. MaxWork /\ w \in 1 .. MaxWork  BY DEF GpuTypeOK, Work
<1>2. ReadyIsCurrent'  BY DEF ReadyIsCurrent, NoneReady
<1>3. LastLaunchPending' /\ CollectNeedsWork'
      BY DEF LastLaunchPending, CollectNeedsWork
<1>4. CollectedSoFar'
  <2>1. \A n \in 0 .. MaxNonce : [work |-> w, nonce |-> n] \notin collected
        BY <1>1 DEF CollectedNotAhead
  <2> QED BY <2>1 DEF CollectedSoFar
<1>5. CollectedNotAhead'  BY <1>1 DEF CollectedNotAhead
<1>6. ShareOfOnePiece'  BY DEF ShareOfOnePiece
<1> QED BY <1>2, <1>3, <1>4, <1>5, <1>6

\* The two instances move together.
LEMMA AdvanceKeepsReady ==
    ASSUME GpuTypeOK, ReadyIsCurrent, Advance
    PROVE  ReadyIsCurrent'
<1> USE PipelinesAssumption, BoundsAssumption DEF GpuTypeOK, Instance
<1>0. /\ nNonce' = nNonce + 1
      /\ currentInstance' = (currentInstance + 1) % pipelinesNum
      /\ readyInstance' = IF readyInstance + 1 >= 0
                          THEN (readyInstance + 1) % pipelinesNum
                          ELSE readyInstance + 1
      BY DEF Advance
<1>1. CASE readyInstance >= 0
  <2>1. (readyInstance + 1) % pipelinesNum \in Nat  BY <1>1
  <2>2. readyInstance' = currentInstance' /\ readyInstance' >= 0
        BY <1>0, <1>1, <2>1 DEF ReadyIsCurrent
  <2>3. nNonce' >= pipelinesNum  BY <1>0, <1>1 DEF ReadyIsCurrent
  <2>4. ~(readyInstance' < 0)  BY <1>0, <1>1, <2>1
  <2> QED BY <2>2, <2>3, <2>4 DEF ReadyIsCurrent
<1>2. CASE readyInstance < 0 /\ readyInstance + 1 < 0
  <2>1. currentInstance + 1 \in 0 .. pipelinesNum - 1
        BY <1>2 DEF ReadyIsCurrent
  <2>2. (currentInstance + 1) % pipelinesNum = currentInstance + 1
        BY <2>1, Modulus
  <2>3. /\ currentInstance' = currentInstance + 1
        /\ readyInstance' = readyInstance + 1
        BY <1>0, <1>2, <2>2
  <2>4. currentInstance + 1 = (readyInstance + 1) + pipelinesNum
        BY <1>2 DEF ReadyIsCurrent
  <2>5. nNonce' = (readyInstance + 1) + pipelinesNum  BY <1>0, <1>2 DEF ReadyIsCurrent
  <2> QED BY <1>2, <2>3, <2>4, <2>5 DEF ReadyIsCurrent
<1>3. CASE readyInstance = -1
  <2>1. currentInstance + 1 = pipelinesNum /\ nNonce + 1 = pipelinesNum
        BY <1>3 DEF ReadyIsCurrent
  <2>2. pipelinesNum % pipelinesNum = 0 /\ 0 % pipelinesNum = 0  BY Modulus
  <2>3. readyInstance + 1 = 0  BY <1>3
  <2>4. currentInstance' = 0 /\ readyInstance' = 0 /\ nNonce' = pipelinesNum
        BY <1>0, <2>1, <2>2, <2>3
  <2> QED BY <2>4 DEF ReadyIsCurrent
<1> QED BY <1>1, <1>2, <1>3

LEMMA IteratePreserves ==
    ASSUME IInv, Iterate
    PROVE  /\ ReadyIsCurrent' /\ LastLaunchPending' /\ CollectedSoFar'
           /\ CollectedNotAhead' /\ CollectNeedsWork' /\ ShareOfOnePiece'
<1> USE PipelinesAssumption, BoundsAssumption DEF IInv, Iterate
<1>1. ReadyIsCurrent'
  <2>1. CASE readyInstance >= 0  BY <2>1 DEF ReadyIsCurrent
  <2>2. CASE ~(readyInstance >= 0)  BY <2>2, AdvanceKeepsReady
  <2> QED BY <2>1, <2>2
<1>2. LastLaunchPending'
  <2>1. CASE readyInstance >= 0
    <3> DEFINE i == readyInstance  q == queue[i]
    <3>1. i = currentInstance /\ i \in Instance
          BY <2>1 DEF ReadyIsCurrent, GpuTypeOK, Instance
    <3>2. q \in Seq(Command)  BY <3>1 DEF GpuTypeOK
    <3>3. /\ readyInstance' = i /\ nNonce' = nNonce /\ work' = work
          BY <2>1
    <3>4. /\ state'[i] = TheHeader /\ nonce'[i] = nNonce
          /\ queue'[i] = q \o <<"write", "solve">>
          BY <3>1 DEF Launch, GpuTypeOK, TheHeader
    <3>5. EndsWithLaunch(q \o <<"write", "solve">>)
          BY <3>2 DEF EndsWithLaunch, Command
    <3>6. TheHeader' = TheHeader  BY <3>3 DEF TheHeader
    <3>7. /\ readyInstance' >= 0
          /\ state'[readyInstance'] = TheHeader'
          /\ nonce'[readyInstance'] = nNonce'
          /\ EndsWithLaunch(queue'[readyInstance'])
          BY <2>1, <3>3, <3>4, <3>5, <3>6
    <3> QED BY <3>7 DEF LastLaunchPending
  <2>2. CASE ~(readyInstance >= 0)
        BY <2>2 DEF LastLaunchPending
  <2> QED BY <2>1, <2>2
<1>3. CollectedSoFar'
  <2>1. CASE readyInstance >= 0  BY <2>1 DEF CollectedSoFar
  <2>2. CASE ~(readyInstance >= 0)
    <3>1. nNonce < pipelinesNum /\ nNonce \in Nat
          BY <2>2 DEF ReadyIsCurrent, GpuTypeOK
    <3>2. nNonce' = nNonce + 1  BY <2>2 DEF Advance
    <3>3. \A n \in 0 .. MaxNonce : (n < nNonce' <=> n < nNonce) \/ n < pipelinesNum
          BY <3>1, <3>2
    <3> QED BY <3>3 DEF CollectedSoFar
  <2> QED BY <2>1, <2>2
<1>4. CollectedNotAhead' /\ ShareOfOnePiece'
      BY DEF CollectedNotAhead, ShareOfOnePiece
<1>5. CollectNeedsWork'  BY DEF CollectNeedsWork
<1> QED BY <1>1, <1>2, <1>3, <1>4, <1>5

LEMMA CollectPreserves ==
    ASSUME IInv, Collect
    PROVE  /\ ReadyIsCurrent' /\ LastLaunchPending' /\ CollectedSoFar'
           /\ CollectedNotAhead' /\ CollectNeedsWork' /\ ShareOfOnePiece'
<1> USE PipelinesAssumption, BoundsAssumption DEF IInv
<1>1. /\ readyInstance >= 0
      /\ nonce[readyInstance] = nNonce
      /\ devSols[readyInstance] = {TheHeader}
  <2>1. ~EndsWithLaunch(queue[readyInstance])  BY DEF Collect, EndsWithLaunch
  <2>2. queue[readyInstance] # <<"solve">>  BY DEF Collect
  <2> QED BY <2>1, <2>2 DEF Collect, LastLaunchPending
<1>2. collected' = collected \cup {TheHeader}  BY <1>1 DEF Collect
<1>3. work' = work /\ pc' = "top" /\ Advance  BY DEF Collect
<1>4. ReadyIsCurrent'  BY <1>3, AdvanceKeepsReady
<1>5. LastLaunchPending' /\ CollectNeedsWork'
      BY <1>3 DEF LastLaunchPending, CollectNeedsWork
<1>6. work > 0 /\ work \in Nat  BY DEF Collect, CollectNeedsWork, GpuTypeOK
<1>7. CollectedSoFar'
  <2>1. nNonce >= pipelinesNum /\ nNonce \in Nat /\ nNonce' = nNonce + 1
        BY <1>1, <1>3 DEF ReadyIsCurrent, GpuTypeOK, Advance
  <2>2. \A n \in 0 .. MaxNonce : [work |-> work, nonce |-> n] = TheHeader <=> n = nNonce
        BY DEF TheHeader
  <2>3. \A n \in 0 .. MaxNonce :
           [work |-> work, nonce |-> n] \in collected' <=>
              (pipelinesNum <= n /\ n < nNonce) \/ n = nNonce
        BY <1>2, <1>6, <2>2 DEF CollectedSoFar
  <2>4. \A n \in 0 .. MaxNonce :
           (pipelinesNum <= n /\ n < nNonce) \/ n = nNonce <=>
              work > 0 /\ pipelinesNum <= n /\ n < nNonce'
        BY <1>6, <2>1
  <2>5. \A n \in 0 .. MaxNonce :
           [work |-> work, nonce |-> n] \in collected' <=>
              work > 0 /\ pipelinesNum <= n /\ n < nNonce'
        BY <2>3, <2>4
  <2> QED BY <1>3, <2>5 DEF CollectedSoFar
<1>8. CollectedNotAhead'
  <2>1. TheHeader.work = work  BY DEF TheHeader
  <2> QED BY <1>2, <1>3, <1>6, <2>1 DEF CollectedNotAhead
<1>9. ShareOfOnePiece'
  <2>1. CASE share' = share  BY <2>1 DEF ShareOfOnePiece
  <2>2. CASE share' = [merkle |-> work, hash |-> TheHeader,
                       bignonce |-> nonce[readyInstance], solves |-> TheHeader]
        BY <1>1, <2>2 DEF ShareOfOnePiece, TheHeader
  <2> QED BY <1>1, <2>1, <2>2 DEF Collect, TheHeader
<1> QED BY <1>4, <1>5, <1>7, <1>8, <1>9

LEMMA ExecutePreserves ==
    ASSUME IInv, NEW i \in Instance, Execute(i)
    PROVE  /\ ReadyIsCurrent' /\ LastLaunchPending' /\ CollectedSoFar'
           /\ CollectedNotAhead' /\ CollectNeedsWork' /\ ShareOfOnePiece'
<1> USE PipelinesAssumption, BoundsAssumption DEF IInv, Execute
<1>1. ReadyIsCurrent' /\ CollectedSoFar' /\ CollectedNotAhead'
      BY DEF ReadyIsCurrent, CollectedSoFar, CollectedNotAhead
<1>2. CollectNeedsWork' /\ ShareOfOnePiece'
      BY DEF CollectNeedsWork, ShareOfOnePiece
<1>3. LastLaunchPending'
  <2>1. SUFFICES ASSUME pc = "collect"
                 PROVE  LastLaunchPending'
        BY DEF LastLaunchPending
  <2> DEFINE r == readyInstance  q == queue[r]
  <2>2. r \in Instance  BY <2>1 DEF LastLaunchPending, GpuTypeOK, Instance
  <2>3. /\ readyInstance' = r /\ TheHeader' = TheHeader /\ pc' = pc /\ nNonce' = nNonce
        /\ state' = state /\ nonce' = nonce
        BY DEF TheHeader
  <2>4. CASE i # r
    <3>1. queue'[r] = q /\ devState'[r] = devState[r] /\ devSols'[r] = devSols[r]
          BY <2>2, <2>4 DEF GpuTypeOK
    <3> QED BY <2>1, <2>3, <3>1 DEF LastLaunchPending
  <2>5. CASE i = r
    <3>1. q \in Seq(Command) /\ q # << >>  BY <2>2, <2>5 DEF GpuTypeOK
    <3>2. queue'[r] = Tail(q)  BY <2>2, <2>5 DEF GpuTypeOK
    <3>3. CASE EndsWithLaunch(Tail(q))
          BY <2>1, <2>3, <3>2, <3>3 DEF LastLaunchPending
    <3>4. CASE Head(q) = "write" /\ Tail(q) = <<"solve">>
      <4>1. devState'[r] = state[r] /\ devSols'[r] = {}
            BY <2>2, <2>5, <3>4 DEF GpuTypeOK
      <4> QED BY <2>1, <2>3, <3>2, <3>4, <4>1 DEF LastLaunchPending
    <3>5. CASE q = <<"solve">> /\ devState[r] = TheHeader /\ devSols[r] = {}
      <4>1. Head(q) = "solve" /\ Tail(q) = << >>  BY <3>5
      <4>2. devSols'[r] = {TheHeader}
            BY <2>2, <2>5, <3>5, <4>1 DEF GpuTypeOK
      <4> QED BY <2>1, <2>3, <3>2, <4>1, <4>2 DEF LastLaunchPending
    <3>6. \/ EndsWithLaunch(q)
          \/ q = <<"solve">> /\ devState[r] = TheHeader /\ devSols[r] = {}
          BY <2>1, <3>1 DEF LastLaunchPending
    <3>7. CASE EndsWithLaunch(q)
      <4> HIDE DEF q
      <4>1. EndsWithLaunch(Tail(q)) \/ (Head(q) = "write" /\ Tail(q) = <<"solve">>)
            BY <3>1, <3>7, EndsWithLaunchCases
      <4> QED BY <3>3, <3>4, <4>1
    <3> QED BY <3>5, <3>6, <3>7
  <2> QED BY <2>4, <2>5
<1> QED BY <1>1, <1>2, <1>3

LEMMA StepPreserves == IInv /\ [GpuNext]_gpuVars => IInv'
<1> SUFFICES ASSUME IInv, [GpuNext]_gpuVars PROVE IInv'
    OBVIOUS
<1>1. GpuTypeOK'  BY TypeOKStep DEF IInv
<1>2. CASE GpuNext
      BY <1>1, <1>2, NewWorkPreserves, IteratePreserves, CollectPreserves,
         ExecutePreserves DEF GpuNext, IInv
<1>3. CASE UNCHANGED gpuVars
  <2> USE <1>3 DEF gpuVars, instances
  <2>1. ReadyIsCurrent' /\ LastLaunchPending'
        BY DEF IInv, ReadyIsCurrent, LastLaunchPending, TheHeader, EndsWithLaunch
  <2>2. CollectedSoFar' /\ CollectedNotAhead' /\ CollectNeedsWork' /\ ShareOfOnePiece'
        BY DEF IInv, CollectedSoFar, CollectedNotAhead, CollectNeedsWork, ShareOfOnePiece
  <2> QED BY <1>1, <2>1, <2>2 DEF IInv
<1> QED BY <1>2, <1>3

LEMMA InvariantHolds == GpuSpec => []IInv
<1> QED BY InitEstablishes, StepPreserves, PTL DEF GpuSpec

-----------------------------------------------------------------------------

\* The variables have their types.
THEOREM TypeCorrect == GpuSpec => []GpuTypeOK
<1>1. IInv => GpuTypeOK  BY DEF IInv
<1> QED BY <1>1, InvariantHolds, PTL

\* For every number of instances, a share never mixes two headers: the wait of
\* lines 381-382 together with the arithmetic of lines 451-453.
THEOREM SharesOfOnePiece == GpuSpec => []ShareOfOnePiece
<1>1. IInv => ShareOfOnePiece  BY DEF IInv
<1> QED BY <1>1, InvariantHolds, PTL

\* For every number of instances, each nonce but the first pipelinesNum ones of
\* a work is read.
THEOREM AllButTheFirst == GpuSpec => []AllButTheFirstCollected
<1> QED BY InvariantsSuffice, InvariantHolds, PTL

-----------------------------------------------------------------------------
(* ZcashCpuMiner.  Works wait in the order they were published in, without *)
(* a gap, up to the last one.                                              *)

WaitInOrder ==
    \A k \in DOMAIN worksub : worksub[k] = published - Len(worksub) + k

\* What the thread works on has been published.
OnPublished == cpuHeader.work <= published

\* A call of cancel() that is not late is one for a work the thread does not have yet.
CancelMeansNewer == _cancel /\ ~ late => cpuHeader.work < published

\* While a nonce is solved, current_sha is that of its header unless a solution of this
\* nonce has been judged.
ShaOfThisNonce ==
    cpuPc = "solve" => \/ current_sha = HeaderOnly
                       \/ judged.header = cpuHeader

CpuIInv ==
    /\ CpuTypeOK /\ WaitInOrder /\ OnPublished /\ CancelMeansNewer /\ ShaOfThisNonce

LEMMA HeaderFields ==
    /\ \A h \in Header : h.work \in 0 .. MaxWork /\ h.nonce \in 0 .. MaxNonce
    /\ \A w \in 0 .. MaxWork, n \in 0 .. MaxNonce : [work |-> w, nonce |-> n] \in Header
    /\ \A h \in Header, n \in 0 .. MaxNonce :
          [h EXCEPT !.nonce = n] \in Header /\ [h EXCEPT !.nonce = n].work = h.work
BY DEF Header

LEMMA CpuInitEstablishes == CpuInit => CpuIInv
<1> SUFFICES ASSUME CpuInit  PROVE CpuIInv
    OBVIOUS
<1>1. cpuHeader \in Header /\ cpuHeader.work = 0
      BY HeaderFields, BoundsAssumption DEF CpuInit
<1>2. CpuTypeOK
  <2>1. current_sha \in Bytes  BY <1>1 DEF CpuInit, Bytes, HeaderOnly
  <2>2. judged \in [header : Header, hashed : {"nothing", "header", "remains"}]
        BY <1>1 DEF CpuInit, NoneJudged
  <2>3. published \in 0 .. MaxWork /\ worksub \in Seq(Work)
        BY BoundsAssumption DEF CpuInit
  <2> QED BY <1>1, <2>1, <2>2, <2>3 DEF CpuInit, CpuTypeOK, PCs
<1> QED BY <1>1, <1>2
        DEF CpuInit, CpuIInv, WaitInOrder, OnPublished, CancelMeansNewer, ShaOfThisNonce

LEMMA CpuTakeWorkPreserves == CpuIInv /\ TakeWork => CpuIInv'
<1> SUFFICES ASSUME CpuIInv, TakeWork  PROVE CpuIInv'
    OBVIOUS
<1>1. /\ published' = published + 1 /\ published < MaxWork
      /\ worksub' = Append(worksub, published')
      /\ mpc' = "cancel"
      /\ UNCHANGED <<_cancel, cpuPc, cpuHeader, current_sha, judged, late>>
      BY DEF TakeWork
<1>2. /\ published \in 0 .. MaxWork /\ worksub \in Seq(Work)
      /\ cpuHeader.work \in Int /\ cpuHeader.work <= published
      /\ WaitInOrder
      BY HeaderFields DEF CpuIInv, CpuTypeOK, OnPublished
<1>3. published' \in Work /\ published' \in 0 .. MaxWork
      BY <1>1, <1>2, BoundsAssumption DEF Work
<1>4. worksub' \in Seq(Work)  BY <1>1, <1>2, <1>3
<1>5. CpuTypeOK'
      BY <1>1, <1>3, <1>4 DEF CpuIInv, CpuTypeOK
<1>6. WaitInOrder'
      BY <1>1, <1>2, BoundsAssumption DEF WaitInOrder
<1>7. cpuHeader'.work <= published' /\ cpuHeader'.work < published'
      BY <1>1, <1>2, BoundsAssumption
<1>8. CancelMeansNewer'  BY <1>7 DEF CancelMeansNewer
<1>9. OnPublished'  BY <1>7 DEF OnPublished
<1>10. ShaOfThisNonce'  BY <1>1 DEF CpuIInv, ShaOfThisNonce, HeaderOnly
<1> QED BY <1>5, <1>6, <1>8, <1>9, <1>10 DEF CpuIInv

LEMMA CpuCancelPreserves == CpuIInv /\ Cancel => CpuIInv'
<1> SUFFICES ASSUME CpuIInv, Cancel  PROVE CpuIInv'
    OBVIOUS
<1>1. /\ _cancel' = TRUE /\ late' = (late \/ cpuHeader.work = published)
      /\ mpc' = "idle"
      /\ UNCHANGED <<published, worksub, cpuPc, cpuHeader, current_sha, judged>>
      BY DEF Cancel
<1>2. published \in Int /\ cpuHeader.work \in Int /\ cpuHeader.work <= published
      BY HeaderFields DEF CpuIInv, CpuTypeOK, OnPublished
<1>3. CpuTypeOK'  BY <1>1 DEF CpuIInv, CpuTypeOK
<1>4. cpuHeader.work # published => cpuHeader.work < published
      BY <1>2
<1>5. CancelMeansNewer'  BY <1>1, <1>4 DEF CancelMeansNewer
<1>6. WaitInOrder' /\ OnPublished' /\ ShaOfThisNonce'
      BY <1>1 DEF CpuIInv, WaitInOrder, OnPublished, ShaOfThisNonce, HeaderOnly
<1> QED BY <1>3, <1>5, <1>6 DEF CpuIInv

\* What is left of the works that wait is in order, and what was taken comes just before.
LEMMA CpuTakePreserves == CpuIInv /\ Take => CpuIInv'
<1> SUFFICES ASSUME CpuIInv, Take  PROVE CpuIInv'
    OBVIOUS
<1>1. PICK k \in 1 .. Len(worksub) :
         /\ worksub' = SubSeq(worksub, k + 1, Len(worksub))
         /\ IF worksub[k] \in Unsupported
            THEN cpuPc' = "aborted" /\ UNCHANGED <<cpuHeader, _cancel, late>>
            ELSE /\ cpuHeader' = [work |-> worksub[k], nonce |-> 0]
                 /\ _cancel' = FALSE /\ late' = FALSE
                 /\ cpuPc' = "nonce"
      BY DEF Take
<1>2. UNCHANGED <<mpc, published, current_sha, judged>>
      BY DEF Take, mainVars
<1>3. /\ worksub \in Seq(Work) /\ published \in Int /\ Len(worksub) \in Nat /\ k \in DOMAIN worksub
      BY DEF CpuIInv, CpuTypeOK
<1>4. /\ worksub' \in Seq(Work) /\ Len(worksub') = Len(worksub) - k
      /\ \A i \in 1 .. Len(worksub) - k : worksub'[i] = worksub[i + k]
      BY <1>1, <1>3
<1>5. WaitInOrder'
  <2> SUFFICES ASSUME NEW i \in DOMAIN worksub'
               PROVE  worksub'[i] = published - Len(worksub') + i
      BY <1>2 DEF WaitInOrder
  <2>1. i \in 1 .. Len(worksub) - k  BY <1>3, <1>4
  <2>2. i + k \in DOMAIN worksub  BY <2>1, <1>3
  <2>3. worksub[i + k] = published - Len(worksub) + (i + k)
        BY <2>2 DEF CpuIInv, WaitInOrder
  <2> QED BY <2>1, <2>3, <1>3, <1>4
<1>6. worksub[k] \in Work /\ worksub[k] <= published
  <2>1. worksub[k] = published - Len(worksub) + k
        BY <1>3 DEF CpuIInv, WaitInOrder
  <2> QED BY <2>1, <1>3
<1>7. cpuHeader' \in Header /\ cpuHeader'.work <= published
  <2>1. worksub[k] \in 0 .. MaxWork  BY <1>6 DEF Work
  <2>2. CASE worksub[k] \in Unsupported
        BY <2>2, <1>1 DEF CpuIInv, CpuTypeOK, OnPublished
  <2>3. CASE worksub[k] \notin Unsupported
    <3>1. cpuHeader' = [work |-> worksub[k], nonce |-> 0]  BY <2>3, <1>1
    <3>2. 0 \in 0 .. MaxNonce  BY BoundsAssumption
    <3> QED BY <3>1, <3>2, <2>1, <1>6, HeaderFields
  <2> QED BY <2>2, <2>3
<1>8. CpuTypeOK'
      BY <1>1, <1>2, <1>4, <1>7 DEF CpuIInv, CpuTypeOK, PCs
<1>9. CancelMeansNewer'
      BY <1>1, <1>2 DEF CpuIInv, CancelMeansNewer
<1>10. ShaOfThisNonce'
      BY <1>1 DEF ShaOfThisNonce
<1> QED BY <1>2, <1>5, <1>7, <1>8, <1>9, <1>10 DEF CpuIInv, OnPublished

\* The steps of the mining thread between two works.
LEMMA CpuNoncePreserves ==
    CpuIInv /\ (GoOn \/ StartNonce \/ EndNonce \/ Cancelled \/ validBlock) => CpuIInv'
<1> SUFFICES ASSUME CpuIInv, GoOn \/ StartNonce \/ EndNonce \/ Cancelled \/ validBlock
             PROVE  CpuIInv'
    OBVIOUS
<1>1. UNCHANGED <<mpc, published, worksub, _cancel, late>>
      BY DEF GoOn, StartNonce, EndNonce, Cancelled, validBlock, mainVars
<1>2. /\ cpuHeader' \in Header /\ cpuHeader'.work = cpuHeader.work
  <2>1. CASE UNCHANGED cpuHeader
        BY <2>1, HeaderFields DEF CpuIInv, CpuTypeOK
  <2>2. CASE NextNonce
    <3>1. cpuHeader \in Header  BY DEF CpuIInv, CpuTypeOK
    <3>2. cpuHeader.nonce + 1 \in 0 .. MaxNonce
          BY <2>2, <3>1, HeaderFields, BoundsAssumption DEF NextNonce
    <3>3. cpuHeader' = [cpuHeader EXCEPT !.nonce = cpuHeader.nonce + 1]
          BY <2>2 DEF NextNonce
    <3> QED BY <3>1, <3>2, <3>3, HeaderFields
  <2> QED BY <2>1, <2>2 DEF GoOn, StartNonce, EndNonce, Cancelled, validBlock
<1>3. cpuPc' \in PCs
      BY DEF CpuIInv, CpuTypeOK, GoOn, StartNonce, EndNonce, Cancelled, validBlock, NextNonce, PCs
<1>4. current_sha' \in Bytes
      BY DEF CpuIInv, CpuTypeOK, GoOn, StartNonce, EndNonce, Cancelled, validBlock, Bytes, HeaderOnly
<1>5. judged' \in [header : Header, hashed : {"nothing", "header", "remains"}]
  <2>1. CASE validBlock
        BY <2>1 DEF CpuIInv, CpuTypeOK, validBlock
  <2>2. CASE ~ validBlock
        BY <2>2 DEF CpuIInv, CpuTypeOK, GoOn, StartNonce, EndNonce, Cancelled
  <2> QED BY <2>1, <2>2
<1>6. CpuTypeOK'
      BY <1>1, <1>2, <1>3, <1>4, <1>5 DEF CpuIInv, CpuTypeOK
<1>7. ShaOfThisNonce'
  <2>1. CASE StartNonce  BY <2>1 DEF StartNonce, ShaOfThisNonce, HeaderOnly
  <2>2. CASE validBlock
    <3>1. judged'.header = cpuHeader'  BY <2>2 DEF validBlock
    <3> QED BY <3>1 DEF ShaOfThisNonce
  <2>3. CASE GoOn \/ EndNonce \/ Cancelled
    <3>1. cpuPc' # "solve"  BY <2>3 DEF GoOn, EndNonce, Cancelled, NextNonce
    <3> QED BY <3>1 DEF ShaOfThisNonce
  <2> QED BY <2>1, <2>2, <2>3
<1>8. WaitInOrder' /\ OnPublished' /\ CancelMeansNewer'
      BY <1>1, <1>2 DEF CpuIInv, WaitInOrder, OnPublished, CancelMeansNewer
<1> QED BY <1>6, <1>7, <1>8 DEF CpuIInv

LEMMA CpuStepPreserves == CpuIInv /\ [CpuNext]_cpuVars => CpuIInv'
<1>1. CpuIInv /\ UNCHANGED cpuVars => CpuIInv'
      BY DEF CpuIInv, CpuTypeOK, WaitInOrder, OnPublished, CancelMeansNewer, ShaOfThisNonce,
             HeaderOnly, cpuVars, mainVars
<1> QED BY <1>1, CpuTakeWorkPreserves, CpuCancelPreserves, CpuTakePreserves, CpuNoncePreserves
        DEF CpuNext

LEMMA CpuInvariantHolds == CpuSpec => []CpuIInv
BY CpuInitEstablishes, CpuStepPreserves, PTL DEF CpuSpec

\* The variables of the CPU miner have their types for every number of works, nonces
\* and places in the subscription, and whatever works n and k are unknown of.
THEOREM CpuTypeCorrect == CpuSpec => []CpuTypeOK
<1>1. CpuIInv => CpuTypeOK  BY DEF CpuIInv
<1> QED BY <1>1, CpuInvariantHolds, PTL

\* The solver is given up only for a newer work, but for the late call, and the first
\* solution of a nonce is hashed with the header of that nonce.
THEOREM CpuMinerCorrect == CpuSpec => CpuMinerRight
<1>1. CpuIInv /\ CpuIInv' /\ [CpuNext]_cpuVars
         => [GivenUpForNewerWork' /\ FirstSolutionHashedRight]_cpuVars
  <2>1. CpuIInv => GivenUpForNewerWork
        BY DEF CpuIInv, CancelMeansNewer, GivenUpForNewerWork
  <2>2. CpuIInv' => GivenUpForNewerWork'
        BY <2>1, PTL
  <2>3. CpuIInv => FirstSolutionHashedRight
        BY DEF CpuIInv, ShaOfThisNonce, FirstSolutionHashedRight, validBlock, HeaderOnly
  <2> QED BY <2>2, <2>3
<1> QED BY <1>1, CpuInvariantHolds, PTL DEF CpuSpec, CpuMinerRight

-----------------------------------------------------------------------------
(* SolutionRate.                                                           *)

SolsPerSecond == [time : Nat, sols : Nat]

\* The solutions of the first n entries of a list.
SolsOfFirst(s) ==
    LET sum[n \in 0 .. Len(s)] == IF n = 0 THEN 0 ELSE sum[n - 1] + s[n].sols
    IN  sum

\* The entries are as old as their places say, and none is of the future.
EntriesInTime ==
    \A i \in DOMAIN _stats : Epoch + i - 1 <= _stats[i].time /\ _stats[i].time <= time

AllCounted == SolsOfFirst(_stats)[Len(_stats)] = mined

RateIInv == RateTypeOK /\ EntriesInTime /\ AllCounted

LEMMA EntryFields ==
    ASSUME NEW s \in Seq(SolsPerSecond), NEW i \in DOMAIN s
    PROVE  /\ s[i].time \in Nat /\ s[i].sols \in Nat
           /\ s[i] = [time |-> s[i].time, sols |-> s[i].sols]
<1>1. s[i] \in SolsPerSecond  OBVIOUS
<1> QED BY <1>1 DEF SolsPerSecond

LEMMA SolsOfFirstIs ==
    ASSUME NEW s \in Seq(SolsPerSecond)
    PROVE  /\ SolsOfFirst(s) \in [0 .. Len(s) -> Nat]
           /\ SolsOfFirst(s)[0] = 0
           /\ \A n \in 1 .. Len(s) : SolsOfFirst(s)[n] = SolsOfFirst(s)[n - 1] + s[n].sols
<1> DEFINE sum[n \in 0 .. Len(s)] == IF n = 0 THEN 0 ELSE sum[n - 1] + s[n].sols
           G == [i \in 1 .. Len(s) |-> [x \in Nat |-> x + s[i].sols]]
<1>0. Len(s) \in Nat  OBVIOUS
<1>1. \A n \in 1 .. Len(s) : s[n].sols \in Nat
  <2> TAKE n \in 1 .. Len(s)
  <2>1. s[n] \in SolsPerSecond  OBVIOUS
  <2> QED BY <2>1 DEF SolsPerSecond
<1>2. G \in [1 .. Len(s) -> [Nat -> Nat]]
      BY <1>1
<1>3. PICK f : IsLoop(f, Len(s), Nat, 0, G)
  <2> HIDE DEF G
  <2>1. 0 \in Nat  OBVIOUS
  <2> QED BY <1>0, <1>2, <2>1, LoopExists
<1>4. /\ f \in [0 .. Len(s) -> Nat] /\ f[0] = 0
      /\ \A i \in 1 .. Len(s) : f[i] = f[i - 1] + s[i].sols
  <2> USE <1>3 DEF IsLoop
  <2> SUFFICES ASSUME NEW i \in 1 .. Len(s)  PROVE f[i] = f[i - 1] + s[i].sols
      OBVIOUS
  <2>1. f[i - 1] \in Nat  BY <1>0
  <2> QED BY <2>1
<1>5. f = [n \in 0 .. Len(s) |-> IF n = 0 THEN 0 ELSE f[n - 1] + s[n].sols]
      BY <1>4
<1>6. sum = [n \in 0 .. Len(s) |-> IF n = 0 THEN 0 ELSE sum[n - 1] + s[n].sols]
  <2> HIDE DEF G
  <2> QED BY <1>5
<1> HIDE DEF sum, G
<1>7. /\ sum[0] = 0
      /\ \A n \in 1 .. Len(s) : sum[n] = sum[n - 1] + s[n].sols
      BY <1>6
<1> DEFINE Typed == {k \in 0 .. Len(s) : sum[k] \in Nat}
<1>8. 0 \in Typed  BY <1>7
<1>9. ASSUME NEW k \in 0 .. Len(s), k < Len(s), k \in Typed  PROVE k + 1 \in Typed
  <2>1. k + 1 \in 1 .. Len(s) /\ k + 1 - 1 = k  BY <1>9
  <2> QED BY <2>1, <1>1, <1>7, <1>9
<1> HIDE DEF Typed
<1>10. \A k \in 0 .. Len(s) : k \in Typed
       BY <1>0, <1>8, <1>9, InductionUpTo
<1>11. sum \in [0 .. Len(s) -> Nat]
       BY <1>6, <1>10 DEF Typed
<1>12. SolsOfFirst(s) = sum  BY DEF SolsOfFirst, sum
<1> QED BY <1>7, <1>11, <1>12

\* Lists with the same solutions up to m have the same sums up to m.
LEMMA SameSols ==
    ASSUME NEW s \in Seq(SolsPerSecond), NEW t \in Seq(SolsPerSecond), NEW m \in Nat,
           m <= Len(s), m <= Len(t),
           \A i \in 1 .. m : s[i].sols = t[i].sols
    PROVE  SolsOfFirst(s)[m] = SolsOfFirst(t)[m]
<1> DEFINE Same == {k \in 0 .. m : SolsOfFirst(s)[k] = SolsOfFirst(t)[k]}
<1>1. 0 \in Same  BY SolsOfFirstIs
<1>2. ASSUME NEW k \in 0 .. m, k < m, k \in Same  PROVE k + 1 \in Same
  <2>1. k + 1 \in 1 .. Len(s) /\ k + 1 \in 1 .. Len(t) /\ k + 1 \in 1 .. m /\ k + 1 - 1 = k
        BY <1>2
  <2>2. /\ SolsOfFirst(s)[k + 1] = SolsOfFirst(s)[k] + s[k + 1].sols
        /\ SolsOfFirst(t)[k + 1] = SolsOfFirst(t)[k] + t[k + 1].sols
        BY <2>1, SolsOfFirstIs
  <2> QED BY <2>1, <2>2, <1>2
<1> HIDE DEF Same
<1>3. \A k \in 0 .. m : k \in Same
      BY <1>1, <1>2, InductionUpTo
<1> QED BY <1>3 DEF Same

\* calcStats walks over the whole list, because no entry is ever too old for it.
LEMMA CalcStatsOfAll ==
    ASSUME RateIInv
    PROVE  calcStats = [sum |-> mined,
                        timeDiff |-> IF _stats = <<>> THEN 0 ELSE time - _stats[1].time]
<1> DEFINE n == Len(_stats)
           part == SolsOfFirst(_stats)
           at(i) == [on |-> TRUE, sum |-> part[n] - part[n - i],
                     last |-> IF i = 0 THEN time ELSE _stats[n - i + 1].time]
           step(f, i) == LET It == _stats[Len(_stats) - i + 1]
                         IN  IF f[i - 1].on /\ It.time - time < Window
                             THEN [on |-> TRUE, sum |-> f[i - 1].sum + It.sols, last |-> It.time]
                             ELSE [f[i - 1] EXCEPT !.on = FALSE]
           walk[i \in 0 .. Len(_stats)] ==
               IF i = 0 THEN [on |-> TRUE, sum |-> 0, last |-> time] ELSE step(walk, i)
           all == [i \in 0 .. n |-> at(i)]
<1>1. _stats \in Seq(SolsPerSecond) /\ n \in Nat /\ time \in Int
      BY RateAssumption DEF RateIInv, RateTypeOK, SolsPerSecond
<1>2. /\ part \in [0 .. n -> Nat]
      /\ \A i \in 1 .. n : part[i] = part[i - 1] + _stats[i].sols
      BY <1>1, SolsOfFirstIs
<1>3. \A i \in 1 .. n : /\ _stats[i].time \in Int /\ _stats[i].sols \in Int
                        /\ _stats[i].time - time < Window
  <2> TAKE i \in 1 .. n
  <2>1. _stats[i] \in SolsPerSecond  BY <1>1
  <2>2. _stats[i].time \in Int /\ _stats[i].sols \in Int  BY <2>1 DEF SolsPerSecond
  <2>3. _stats[i].time <= time  BY <1>1 DEF RateIInv, EntriesInTime
  <2> QED BY <1>1, <2>2, <2>3, RateAssumption
<1> HIDE DEF part, n
\* A turn that begins where the closed form says ends where it says.
<1>4. ASSUME NEW f, NEW i \in 1 .. n, f[i - 1] = at(i - 1)
      PROVE  step(f, i) = at(i)
  <2>1. n - i + 1 \in 1 .. n /\ n - i + 1 - 1 = n - i /\ n - (i - 1) = n - i + 1
        BY <1>1
  <2>2. f[i - 1].on = TRUE /\ f[i - 1].sum = part[n] - part[n - i + 1]
        BY <1>4, <2>1
  <2>3. step(f, i) = [on |-> TRUE, sum |-> f[i - 1].sum + _stats[n - i + 1].sols,
                      last |-> _stats[n - i + 1].time]
        BY <1>3, <2>1, <2>2 DEF n
  <2>4. part[n - i + 1] = part[n - i] + _stats[n - i + 1].sols
    <3> DEFINE j == n - i + 1
    <3>1. j \in 1 .. n /\ j - 1 = n - i  BY <1>1, <2>1
    <3> HIDE DEF j
    <3>2. part[j] = part[j - 1] + _stats[j].sols  BY <1>2, <3>1
    <3> QED BY <3>1, <3>2 DEF j
  <2>5. part[n] \in Int /\ part[n - i] \in Int /\ part[n - i + 1] \in Int
        BY <1>2, <1>1, <2>1
  <2>6. f[i - 1].sum + _stats[n - i + 1].sols = part[n] - part[n - i]
        BY <2>2, <2>4, <2>5, <1>3, <2>1
  <2>7. i # 0  OBVIOUS
  <2> HIDE DEF step
  <2> QED BY <2>3, <2>6, <2>7
<1>5. [on |-> TRUE, sum |-> 0, last |-> time] = at(0)
  <2>1. n - 0 = n /\ part[n] \in Int  BY <1>1, <1>2
  <2>2. part[n] - part[n - 0] = 0  BY <2>1
  <2> QED BY <2>2
<1> HIDE DEF at, step
<1>6. all = [i \in 0 .. Len(_stats) |->
                IF i = 0 THEN [on |-> TRUE, sum |-> 0, last |-> time] ELSE step(all, i)]
  <2>1. ASSUME NEW i \in 1 .. n  PROVE step(all, i) = at(i)
    <3>1. all[i - 1] = at(i - 1)  BY <1>1
    <3> HIDE DEF all
    <3> QED BY <3>1, <1>4
  <2> QED BY <2>1, <1>5, <1>1 DEF n
<1>7. walk = [i \in 0 .. Len(_stats) |->
                IF i = 0 THEN [on |-> TRUE, sum |-> 0, last |-> time] ELSE step(walk, i)]
  <2> HIDE DEF all
  <2> QED BY <1>6
<1> HIDE DEF walk, all
<1>16. /\ walk[0] = at(0)
       /\ \A i \in 1 .. n : walk[i] = step(walk, i)
  <2>1. \A i \in 0 .. n : walk[i] = IF i = 0 THEN at(0) ELSE step(walk, i)
        BY <1>7, <1>5 DEF n
  <2> QED BY <2>1, <1>1
<1> DEFINE Good == {i \in 0 .. n : walk[i] = at(i)}
<1>8. 0 \in Good
      BY <1>16, <1>1
<1>9. ASSUME NEW k \in 0 .. n, k < n, k \in Good  PROVE k + 1 \in Good
  <2>1. k + 1 \in 1 .. n /\ k + 1 - 1 = k /\ k + 1 # 0  BY <1>9, <1>1
  <2>2. walk[k + 1] = step(walk, k + 1)  BY <1>16, <2>1
  <2>3. step(walk, k + 1) = at(k + 1)  BY <1>4, <1>9, <2>1
  <2> QED BY <2>1, <2>2, <2>3
<1> HIDE DEF Good
<1>10. n \in Good
  <2>1. n \in 0 .. n  BY <1>1
  <2> QED BY <2>1, <1>1, <1>8, <1>9, InductionUpTo
<1>11. Walk = walk  BY DEF Walk, walk, step
<1>12. Walk[Len(_stats)] = at(n)
       BY <1>10, <1>11 DEF Good, n
<1>13. part[n] - part[n - n] = mined
  <2>1. part[n] = mined  BY DEF RateIInv, AllCounted, part, n
  <2>2. part[0] = 0 /\ n - n = 0  BY <1>1, SolsOfFirstIs DEF part
  <2>3. mined \in Int  BY <2>1, <1>1, <1>2
  <2> QED BY <2>1, <2>2, <2>3
<1>14. time - at(n).last = IF _stats = <<>> THEN 0 ELSE time - _stats[1].time
  <2>1. CASE n = 0
    <3>1. _stats = <<>>  BY <2>1, <1>1 DEF n
    <3> QED BY <3>1, <2>1, <1>1 DEF at
  <2>2. CASE n # 0
    <3>1. _stats # <<>> /\ n - n + 1 = 1  BY <2>2, <1>1 DEF n
    <3> QED BY <3>1, <2>2 DEF at
  <2> QED BY <2>1, <2>2
<1>15. at(n).sum = mined  BY <1>13 DEF at
<1> QED BY <1>12, <1>14, <1>15 DEF calcStats

\* cleanupStats drops nothing.
LEMMA CleanupKeepsAll == RateIInv => cleanupStats(_stats) = _stats
<1> SUFFICES ASSUME RateIInv  PROVE cleanupStats(_stats) = _stats
    OBVIOUS
<1> DEFINE old == {i \in DOMAIN _stats : \A j \in 1 .. i : IsOld(_stats[j])}
<1>1. _stats \in Seq(SolsPerSecond) /\ time \in Int
      BY RateAssumption DEF RateIInv, RateTypeOK, SolsPerSecond
<1>2. ASSUME NEW i \in DOMAIN _stats  PROVE ~ IsOld(_stats[i])
  <2>1. _stats[i].time \in Int  BY <1>1, EntryFields
  <2>2. _stats[i].time <= time  BY DEF RateIInv, EntriesInTime
  <2> QED BY <1>1, <2>1, <2>2, RateAssumption DEF IsOld
<1>3. old = {}
  <2> SUFFICES ASSUME NEW i \in old  PROVE FALSE
      OBVIOUS
  <2>1. i \in DOMAIN _stats /\ i \in 1 .. i  BY <1>1
  <2> QED BY <1>2, <2>1
<1>4. Cardinality(old) = 0  BY <1>3, FS_EmptySet
<1> HIDE DEF old
<1>5. SubSeq(_stats, Cardinality(old) + 1, Len(_stats)) = _stats
      BY <1>1, <1>4
<1> QED BY <1>5 DEF cleanupStats, old

\* pushStats adds to the last entry or behind it.
LEMMA PushStatsAdds ==
    ASSUME RateIInv, NEW nsols \in Nat
    PROVE  LET t == pushStats(nsols)
           IN  /\ t \in Seq(SolsPerSecond)
               /\ Len(t) <= time - Epoch + 1
               /\ \A i \in DOMAIN t : Epoch + i - 1 <= t[i].time /\ t[i].time <= time
               /\ SolsOfFirst(t)[Len(t)] = mined + nsols
<1> DEFINE n == Len(_stats)
<1>1. _stats \in Seq(SolsPerSecond) /\ n \in Nat /\ time \in Nat /\ Epoch \in Nat /\ mined \in Nat
      BY RateAssumption DEF RateIInv, RateTypeOK, SolsPerSecond
<1>2. SolsOfFirst(_stats)[n] = mined
      BY DEF RateIInv, AllCounted
<1>3. \A i \in 1 .. n : /\ _stats[i].time \in Nat /\ _stats[i].sols \in Nat
                        /\ _stats[i] = [time |-> _stats[i].time, sols |-> _stats[i].sols]
                        /\ Epoch + i - 1 <= _stats[i].time /\ _stats[i].time <= time
  <2> TAKE i \in 1 .. n
  <2>1. _stats[i] \in SolsPerSecond  BY <1>1
  <2>2. /\ _stats[i].time \in Nat /\ _stats[i].sols \in Nat
        /\ _stats[i] = [time |-> _stats[i].time, sols |-> _stats[i].sols]
        BY <2>1 DEF SolsPerSecond
  <2> QED BY <1>1, <2>2 DEF RateIInv, EntriesInTime
<1>4. CASE _stats # <<>> /\ _stats[n].time = time
  <2> DEFINE e == [time |-> time, sols |-> _stats[n].sols + nsols]
             t == [_stats EXCEPT ![n] = e]
  <2>1. n \in 1 .. n
    <3>1. Len(_stats) # 0  BY <1>1, <1>4, EmptySeq
    <3> QED BY <1>1, <3>1
  <2>2. e \in SolsPerSecond
    <3>1. _stats[n].sols \in Nat  BY <2>1, <1>1, EntryFields
    <3>2. _stats[n].sols + nsols \in Nat  BY <3>1
    <3> QED BY <1>1, <3>2 DEF SolsPerSecond
  <2>3. pushStats(nsols) = t
    <3>1. [_stats[n] EXCEPT !.sols = @ + nsols] = e
      <4>1. _stats[n] = [time |-> time, sols |-> _stats[n].sols]  BY <1>3, <1>4, <2>1
      <4> QED BY <4>1
    <3>2. pushStats(nsols) = [_stats EXCEPT ![n] = [_stats[n] EXCEPT !.sols = @ + nsols]]
          BY <1>4 DEF pushStats
    <3> QED BY <3>1, <3>2
  <2> HIDE DEF e
  <2>4. /\ t \in Seq(SolsPerSecond) /\ Len(t) = n
        /\ \A i \in 1 .. n : i # n => t[i] = _stats[i]
        /\ t[n] = e
        BY <1>1, <2>1, <2>2
  <2> HIDE DEF t
  <2>5. SolsOfFirst(t)[n - 1] = SolsOfFirst(_stats)[n - 1]
    <3>1. \A i \in 1 .. n - 1 : t[i].sols = _stats[i].sols
          BY <1>1, <2>1, <2>4
    <3>2. n - 1 \in Nat /\ n - 1 <= Len(t) /\ n - 1 <= Len(_stats)
          BY <1>1, <2>1, <2>4
    <3> QED BY <1>1, <2>4, <3>1, <3>2, SameSols
  <2>6. /\ SolsOfFirst(t)[n] = SolsOfFirst(t)[n - 1] + t[n].sols
        /\ SolsOfFirst(_stats)[n] = SolsOfFirst(_stats)[n - 1] + _stats[n].sols
        /\ SolsOfFirst(_stats)[n - 1] \in Nat
    <3>1. n - 1 \in 0 .. n  BY <1>1, <2>1
    <3>2. /\ SolsOfFirst(_stats)[n] = SolsOfFirst(_stats)[n - 1] + _stats[n].sols
          /\ SolsOfFirst(_stats)[n - 1] \in Nat
          BY <1>1, <2>1, <3>1, SolsOfFirstIs
    <3>3. SolsOfFirst(t)[n] = SolsOfFirst(t)[n - 1] + t[n].sols
          BY <2>1, <2>4, SolsOfFirstIs
    <3> QED BY <3>2, <3>3
  <2>7. t[n].sols = _stats[n].sols + nsols /\ t[n].time = time
        BY <2>4 DEF e
  <2>8. SolsOfFirst(t)[Len(t)] = mined + nsols
    <3>1. _stats[n].sols \in Nat  BY <1>3, <2>1
    <3> QED BY <1>2, <3>1, <2>4, <2>5, <2>6, <2>7
  <2>9. ASSUME NEW i \in DOMAIN t  PROVE Epoch + i - 1 <= t[i].time /\ t[i].time <= time
    <3>1. i \in 1 .. n  BY <2>4
    <3>2. CASE i = n  BY <3>2, <1>1, <1>3, <1>4, <2>1, <2>7
    <3>3. CASE i # n  BY <3>1, <3>3, <1>3, <2>4
    <3> QED BY <3>2, <3>3
  <2>10. Len(t) <= time - Epoch + 1
         BY <2>4 DEF RateIInv, RateTypeOK
  <2> QED BY <2>3, <2>4, <2>8, <2>9, <2>10
<1>5. CASE ~ (_stats # <<>> /\ _stats[n].time = time)
  <2> DEFINE e == [time |-> time, sols |-> nsols]
             t == Append(_stats, e)
  <2>1. pushStats(nsols) = t  BY <1>5 DEF pushStats
  <2>2. e \in SolsPerSecond  BY <1>1 DEF SolsPerSecond
  <2>3. e.time = time /\ e.sols = nsols  OBVIOUS
  <2> HIDE DEF e
  <2>4. /\ t \in Seq(SolsPerSecond) /\ Len(t) = n + 1
        /\ \A i \in 1 .. n : t[i] = _stats[i]
        /\ t[n + 1] = e
        BY <1>1, <2>2
  <2> HIDE DEF t
  <2>5. SolsOfFirst(t)[n] = SolsOfFirst(_stats)[n]
    <3>1. \A i \in 1 .. n : t[i].sols = _stats[i].sols
          BY <2>4
    <3>2. n <= Len(t) /\ n <= Len(_stats)
          BY <1>1, <2>4
    <3> QED BY <1>1, <2>4, <3>1, <3>2, SameSols
  <2>6. SolsOfFirst(t)[n + 1] = SolsOfFirst(t)[n] + t[n + 1].sols
    <3>1. n + 1 \in 1 .. Len(t) /\ n + 1 - 1 = n  BY <1>1, <2>4
    <3> QED BY <3>1, <2>4, SolsOfFirstIs
  <2>7. SolsOfFirst(t)[Len(t)] = mined + nsols
        BY <1>2, <2>3, <2>4, <2>5, <2>6
  <2>8. Epoch + n <= time
    <3>1. CASE n = 0  BY <3>1, <1>1 DEF RateIInv, RateTypeOK
    <3>2. CASE n # 0
      <4>1. n \in 1 .. n /\ _stats # <<>>
        <5>1. _stats # <<>>  BY <3>2
        <5> QED BY <1>1, <3>2, <5>1
      <4>2. _stats[n].time # time  BY <4>1, <1>5
      <4>3. /\ _stats[n].time \in Nat /\ _stats[n].time <= time
            /\ Epoch + n - 1 <= _stats[n].time
            BY <4>1, <1>3
      <4> QED BY <4>2, <4>3, <1>1
    <3> QED BY <3>1, <3>2
  <2>9. ASSUME NEW i \in DOMAIN t  PROVE Epoch + i - 1 <= t[i].time /\ t[i].time <= time
    <3>1. i \in 1 .. n + 1  BY <2>4
    <3>2. CASE i = n + 1  BY <3>2, <1>1, <2>3, <2>4, <2>8
    <3>3. CASE i # n + 1
      <4>1. i \in 1 .. n  BY <3>1, <3>3, <1>1
      <4> QED BY <4>1, <1>3, <2>4
    <3> QED BY <3>2, <3>3
  <2>10. Len(t) <= time - Epoch + 1
         BY <1>1, <2>4, <2>8
  <2> QED BY <2>1, <2>4, <2>7, <2>9, <2>10
<1> QED BY <1>4, <1>5

LEMMA RateInitEstablishes == RateInit => RateIInv
<1> SUFFICES ASSUME RateInit  PROVE RateIInv
    OBVIOUS
<1>1. _stats \in Seq(SolsPerSecond) /\ Len(_stats) = 0  BY DEF RateInit
<1>2. AllCounted
      BY <1>1, SolsOfFirstIs DEF RateInit, AllCounted
<1>3. RateTypeOK
      BY <1>1, RateAssumption DEF RateInit, RateTypeOK, SolsPerSecond
<1>4. EntriesInTime
      BY DEF RateInit, EntriesInTime
<1> QED BY <1>2, <1>3, <1>4 DEF RateIInv

LEMMA RateStepPreserves == RateIInv /\ [RateNext]_rateVars => RateIInv'
<1> SUFFICES ASSUME RateIInv, [RateNext]_rateVars  PROVE RateIInv'
    OBVIOUS
<1>0. /\ _stats \in Seq(SolsPerSecond) /\ time \in Epoch .. Epoch + Seconds /\ Epoch \in Nat
      /\ Seconds \in Nat /\ mined \in 0 .. MaxMined /\ MaxMined \in Nat /\ Len(_stats) \in Nat
      BY RateAssumption DEF RateIInv, RateTypeOK, SolsPerSecond
<1>1. CASE Tick
  <2>1. /\ time' = time + 1 /\ time < Epoch + Seconds
        /\ UNCHANGED <<_stats, statsTimeLabel, stats_sols, mined, atTop>>
        BY <1>1 DEF Tick
  <2>2. time' \in Epoch .. Epoch + Seconds /\ Len(_stats) <= time' - Epoch + 1
        BY <1>0, <2>1 DEF RateIInv, RateTypeOK
  <2>3. RateTypeOK'  BY <2>1, <2>2 DEF RateIInv, RateTypeOK
  <2>4. EntriesInTime'
    <3> SUFFICES ASSUME NEW i \in DOMAIN _stats
                 PROVE  Epoch + i - 1 <= _stats[i].time /\ _stats[i].time <= time'
        BY <2>1 DEF EntriesInTime
    <3>1. Epoch + i - 1 <= _stats[i].time /\ _stats[i].time <= time
          BY DEF RateIInv, EntriesInTime
    <3>2. _stats[i].time \in Int  BY <1>0, EntryFields
    <3> QED BY <1>0, <2>1, <3>1, <3>2
  <2>5. AllCounted'  BY <2>1 DEF RateIInv, AllCounted
  <2> QED BY <2>3, <2>4, <2>5 DEF RateIInv
<1>2. CASE Report
  <2>1. UNCHANGED <<_stats, time, mined>>
        BY <1>2, CleanupKeepsAll DEF Report
  <2>2. stats_sols' \in [sum : Nat, timeDiff : Nat]
    <3>1. CASE stats_sols' = calcStats
      <4>1. (IF _stats = <<>> THEN 0 ELSE time - _stats[1].time) \in Nat
        <5>1. CASE _stats = <<>>  BY <5>1
        <5>2. CASE _stats # <<>>
          <6>1. 1 \in DOMAIN _stats  BY <5>2, <1>0
          <6>2. _stats[1].time \in Nat /\ _stats[1].time <= time
                BY <6>1, <1>0, EntryFields DEF RateIInv, EntriesInTime
          <6> QED BY <6>2, <1>0, <5>2
        <5> QED BY <5>1, <5>2
      <4>2. mined \in Nat  BY <1>0
      <4> QED BY <3>1, <4>1, <4>2, CalcStatsOfAll
    <3>2. CASE UNCHANGED stats_sols  BY <3>2 DEF RateIInv, RateTypeOK
    <3> QED BY <1>2, <3>1, <3>2 DEF Report
  <2>3. statsTimeLabel' \in {0, Epoch} /\ atTop' \in BOOLEAN
        BY <1>2 DEF Report, RateIInv, RateTypeOK
  <2>4. RateTypeOK'  BY <2>1, <2>2, <2>3 DEF RateIInv, RateTypeOK
  <2> QED BY <2>1, <2>4 DEF RateIInv, EntriesInTime, AllCounted
<1>3. CASE NonceDone
  <2>1. PICK nsols \in Sols : /\ mined + nsols <= MaxMined
                              /\ _stats' = pushStats(nsols)
                              /\ mined' = mined + nsols
        BY <1>3 DEF NonceDone
  <2>2. nsols \in Nat  BY RateAssumption
  <2>3. UNCHANGED <<time, statsTimeLabel, stats_sols>> /\ atTop' = TRUE
        BY <1>3 DEF NonceDone
  <2>4. mined' \in 0 .. MaxMined  BY <1>0, <2>1, <2>2
  <2>5. /\ _stats' \in Seq(SolsPerSecond)
        /\ Len(_stats') <= time - Epoch + 1
        /\ \A i \in DOMAIN _stats' : Epoch + i - 1 <= _stats'[i].time /\ _stats'[i].time <= time
        /\ SolsOfFirst(_stats')[Len(_stats')] = mined'
        BY <2>1, <2>2, PushStatsAdds
  <2>6. RateTypeOK'
        BY <2>3, <2>4, <2>5 DEF RateIInv, RateTypeOK, SolsPerSecond
  <2> QED BY <2>3, <2>5, <2>6 DEF RateIInv, EntriesInTime, AllCounted
<1>4. CASE NothingDone \/ UNCHANGED rateVars
      BY <1>4 DEF NothingDone, rateVars, RateIInv, RateTypeOK, EntriesInTime, AllCounted
<1> QED BY <1>1, <1>2, <1>3, <1>4 DEF RateNext

LEMMA RateInvariantHolds == RateSpec => []RateIInv
BY RateInitEstablishes, RateStepPreserves, PTL DEF RateSpec

\* The list of solutions per second keeps its types; it has at most one entry for every
\* second.
THEOREM RateTypeCorrect == RateSpec => []RateTypeOK
<1>1. RateIInv => RateTypeOK  BY DEF RateIInv
<1> QED BY <1>1, RateInvariantHolds, PTL

\* Every report counts every solution of the run exactly once.
THEOREM RateCorrect == RateSpec => RateOfWholeRun
<1>1. RateIInv /\ [RateNext]_rateVars
         => [atTop /\ ~ atTop' /\ statsTimeLabel' = 0 =>
                /\ stats_sols'.sum = mined
                /\ stats_sols'.timeDiff = IF _stats = <<>> THEN 0
                                          ELSE time - _stats[1].time]_rateVars
  <2> SUFFICES ASSUME RateIInv, RateNext, atTop, ~ atTop', statsTimeLabel' = 0
               PROVE  /\ stats_sols'.sum = mined
                      /\ stats_sols'.timeDiff = IF _stats = <<>> THEN 0
                                                ELSE time - _stats[1].time
      OBVIOUS
  <2>1. Report
        BY DEF RateNext, Tick, NothingDone, NonceDone
  <2>2. time - statsTimeLabel >= Period
    <3>1. CASE statsTimeLabel = 0
          BY <3>1, RateAssumption DEF RateIInv, RateTypeOK
    <3>2. CASE statsTimeLabel # 0
      <4>1. statsTimeLabel' # statsTimeLabel  BY <3>2
      <4> QED BY <2>1, <4>1 DEF Report
    <3> QED BY <3>1, <3>2
  <2>3. stats_sols' = calcStats
        BY <2>1, <2>2 DEF Report
  <2> QED BY <2>3, CalcStatsOfAll
<1> QED BY <1>1, RateInvariantHolds, PTL DEF RateSpec, RateOfWholeRun

-----------------------------------------------------------------------------
(* ClientSetup.  The loop that numbers the devices.                        *)

LEMMA UsedIs ==
    /\ used \in [0 .. mNumDevices -> Seq(Devices)]
    /\ used[0] = <<>>
    /\ \A n \in 1 .. mNumDevices :
          used[n] = IF usegpu(n - 1) THEN Append(used[n - 1], n - 1) ELSE used[n - 1]
<1> DEFINE N == mNumDevices
           turn(n, x) == IF usegpu(n - 1) THEN Append(x, n - 1) ELSE x
           G == [n \in 1 .. N |-> [x \in Seq(Devices) |-> turn(n, x)]]
<1>0. N \in Nat /\ Devices = 0 .. N - 1  BY DevicesAssumption DEF Devices
<1>1. \A n \in 1 .. N, x \in Seq(Devices) : turn(n, x) \in Seq(Devices)
  <2> TAKE n \in 1 .. N, x \in Seq(Devices)
  <2>1. n - 1 \in Devices  BY <1>0
  <2> QED BY <2>1
<1>2. G \in [1 .. N -> [Seq(Devices) -> Seq(Devices)]]
  <2> HIDE DEF turn
  <2> QED BY <1>1
<1>3. PICK f : IsLoop(f, N, Seq(Devices), <<>>, G)
  <2> HIDE DEF G
  <2>1. <<>> \in Seq(Devices)  OBVIOUS
  <2> QED BY <1>0, <1>2, <2>1, LoopExists
<1> HIDE DEF turn
<1>4. ASSUME NEW g, g \in [0 .. N -> Seq(Devices)], NEW n \in 1 .. N
      PROVE  G[n][g[n - 1]] = turn(n, g[n - 1])
  <2>1. g[n - 1] \in Seq(Devices)  BY <1>0, <1>4
  <2> QED BY <2>1
<1>5. /\ f \in [0 .. N -> Seq(Devices)] /\ f[0] = <<>>
      /\ \A n \in 1 .. N : f[n] = turn(n, f[n - 1])
      BY <1>3, <1>4 DEF IsLoop
<1> HIDE DEF G
<1>6. f = [n \in 0 .. N |-> IF n = 0 THEN <<>> ELSE turn(n, f[n - 1])]
      BY <1>0, <1>5
<1> DEFINE u[n \in 0 .. N] == IF n = 0 THEN <<>> ELSE turn(n, u[n - 1])
<1>7. u = [n \in 0 .. N |-> IF n = 0 THEN <<>> ELSE turn(n, u[n - 1])]
      BY <1>6
<1>8. used = u  BY DEF used, turn
<1> HIDE DEF u
<1>9. used = [n \in 0 .. N |-> IF n = 0 THEN <<>> ELSE turn(n, used[n - 1])]
      BY <1>7, <1>8
<1>10. used[0] = <<>> /\ \A n \in 1 .. N : used[n] = turn(n, used[n - 1])
  <2> HIDE DEF N
  <2> QED BY <1>0, <1>9
<1> DEFINE Typed == {k \in 0 .. N : used[k] \in Seq(Devices)}
<1>11. 0 \in Typed
  <2>1. 0 \in 0 .. N /\ <<>> \in Seq(Devices)  BY <1>0
  <2>2. used[0] = <<>>  BY <1>10
  <2> QED BY <2>1, <2>2
<1>12. ASSUME NEW k \in 0 .. N, k < N, k \in Typed  PROVE k + 1 \in Typed
  <2>1. k + 1 \in 1 .. N /\ k + 1 - 1 = k  BY <1>0, <1>12
  <2> QED BY <2>1, <1>1, <1>10, <1>12
<1> HIDE DEF Typed
<1>13. \A k \in 0 .. N : k \in Typed
       BY <1>0, <1>11, <1>12, InductionUpTo
<1>14. used \in [0 .. N -> Seq(Devices)]
       BY <1>9, <1>13 DEF Typed
<1> QED BY <1>10, <1>14 DEF turn

\* gpus holds the devices in use, each where its number among them says.
UsedUpTo(n) ==
    /\ Len(used[n]) <= n
    /\ \A i \in 0 .. n - 1 : usegpu(i) => /\ Len(used[i]) + 1 \in DOMAIN used[n]
                                          /\ used[n][Len(used[i]) + 1] = i
    /\ \A k \in DOMAIN used[n] : /\ used[n][k] \in 0 .. n - 1
                                 /\ usegpu(used[n][k])
                                 /\ Len(used[used[n][k]]) = k - 1
    /\ (\A j \in 0 .. n - 1 : usegpu(j)) => Len(used[n]) = n

LEMMA UsedRight == \A n \in 0 .. mNumDevices : UsedUpTo(n)
<1> DEFINE N == mNumDevices
           Right == {n \in 0 .. N : UsedUpTo(n)}
<1>0. N \in Nat /\ Devices = 0 .. N - 1  BY DevicesAssumption DEF Devices
<1>1. 0 \in Right
  <2>1. used[0] = <<>> /\ 0 \in 0 .. N  BY <1>0, UsedIs
  <2> QED BY <2>1 DEF UsedUpTo
<1>2. ASSUME NEW m \in 0 .. N, m < N, m \in Right  PROVE m + 1 \in Right
  <2>1. m + 1 \in 1 .. N /\ m + 1 - 1 = m /\ m \in Nat  BY <1>0, <1>2
  <2>2. used[m + 1] = IF usegpu(m) THEN Append(used[m], m) ELSE used[m]
        BY <2>1, UsedIs
  <2>3. used[m] \in Seq(Devices) /\ Len(used[m]) \in Nat
        BY UsedIs
  <2>4. UsedUpTo(m)  BY <1>2
  <2>5. CASE ~ usegpu(m)
    <3>1. used[m + 1] = used[m]  BY <2>2, <2>5
    <3>2. \A i \in 0 .. m : usegpu(i) => i \in 0 .. m - 1
          BY <2>1, <2>5
    <3>3. ~ \A j \in 0 .. m : usegpu(j)
          BY <2>1, <2>5
    <3>4. UsedUpTo(m + 1)
          BY <2>1, <2>3, <2>4, <3>1, <3>2, <3>3 DEF UsedUpTo
    <3> QED BY <2>1, <3>4
  <2>6. CASE usegpu(m)
    <3> DEFINE l == Len(used[m])
    <3>1. /\ used[m + 1] = Append(used[m], m)
          /\ Len(used[m + 1]) = l + 1 /\ DOMAIN used[m + 1] = 1 .. l + 1
          /\ used[m + 1][l + 1] = m
          /\ \A k \in 1 .. l : used[m + 1][k] = used[m][k]
          /\ DOMAIN used[m] = 1 .. l
      <4>1. m \in Devices  BY <1>0, <1>2
      <4>2. used[m + 1] = Append(used[m], m)  BY <2>2, <2>6
      <4> QED BY <2>3, <4>1, <4>2
    <3> HIDE DEF l
    <3>2. l <= m /\ l \in Nat /\ l = Len(used[m])  BY <2>3, <2>4 DEF UsedUpTo, l
    <3>3. ASSUME NEW i \in 0 .. m, usegpu(i)
          PROVE  /\ Len(used[i]) + 1 \in DOMAIN used[m + 1]
                 /\ used[m + 1][Len(used[i]) + 1] = i
      <4>1. CASE i = m  BY <4>1, <3>1, <3>2
      <4>2. CASE i # m
        <5>1. i \in 0 .. m - 1  BY <2>1, <4>2
        <5>2. Len(used[i]) + 1 \in 1 .. l /\ used[m][Len(used[i]) + 1] = i
              BY <2>4, <3>1, <3>3, <5>1 DEF UsedUpTo
        <5> QED BY <3>1, <3>2, <5>2
      <4> QED BY <4>1, <4>2
    <3>4. ASSUME NEW k \in DOMAIN used[m + 1]
          PROVE  /\ used[m + 1][k] \in 0 .. m
                 /\ usegpu(used[m + 1][k])
                 /\ Len(used[used[m + 1][k]]) = k - 1
      <4>1. CASE k = l + 1  BY <4>1, <2>1, <2>6, <3>1, <3>2
      <4>2. CASE k # l + 1
        <5>1. k \in 1 .. l  BY <3>1, <3>2, <4>2
        <5>2. used[m][k] \in 0 .. m - 1 /\ usegpu(used[m][k]) /\ Len(used[used[m][k]]) = k - 1
              BY <2>4, <3>1, <5>1 DEF UsedUpTo
        <5> QED BY <2>1, <3>1, <5>1, <5>2
      <4> QED BY <4>1, <4>2
    <3>5. (\A j \in 0 .. m : usegpu(j)) => Len(used[m + 1]) = m + 1
      <4>1. (\A j \in 0 .. m : usegpu(j)) => \A j \in 0 .. m - 1 : usegpu(j)
            BY <2>1
      <4> QED BY <2>4, <3>1, <3>2, <4>1 DEF UsedUpTo
    <3>6. Len(used[m + 1]) <= m + 1  BY <2>1, <3>1, <3>2
    <3>7. UsedUpTo(m + 1)
          BY <2>1, <3>3, <3>4, <3>5, <3>6 DEF UsedUpTo
    <3> QED BY <2>1, <3>7
  <2> QED BY <2>5, <2>6
<1> HIDE DEF Right
<1>3. \A n \in 0 .. N : n \in Right
      BY <1>0, <1>1, <1>2, InductionUpTo
<1> QED BY <1>3 DEF Right

-----------------------------------------------------------------------------
(* ClientSetup.  The inductive invariant.                                  *)

TheMap == [i \in Devices |-> IF usegpu(i) THEN Len(used[i]) ELSE -1]
TheMapRev == [g \in 0 .. Len(gpus) - 1 |-> gpus[g + 1]]

\* The configuration is what it was when the devices were numbered.
MapsRight == setup # "off" => mDeviceMap = TheMap /\ mDeviceMapRev = TheMapRev

ProgramLoaded == setup \in {"start", "run"} => program = file /\ file # EmptyFile

Worker == {Failed} \cup [device : Devices, set : [WorkerLists[client] -> Int]]

\* Thread k has been given its device, its settings, and a program that fits.
WorkerRight(k) ==
    /\ workers[k] = [device |-> gpus[k], set |-> Settings(k - 1)]
    /\ program.arch = Arch[Targets[k]]
    /\ client = "xpm" => program.params = cfg.params

WorkersRight ==
    /\ workers \in Seq(Worker)
    /\ setup \notin {"start", "run"} => workers = <<>>
    /\ Len(workers) <= Len(gpus)
    /\ \A k \in DOMAIN workers : workers[k] = Failed \/ WorkerRight(k)

SetupIInv == SetupTypeOK /\ MapsRight /\ ProgramLoaded /\ WorkersRight

LEMMA SameConfiguration ==
    ASSUME UNCHANGED <<client, cfg>>
    PROVE  /\ UNCHANGED <<gpus, TheMap, TheMapRev, Targets, Worker>>
           /\ \A g : Settings(g)' = Settings(g)
<1>1. used' = used
      BY DEF used, usegpu, Entry, IsRead
<1>2. gpus' = gpus  BY <1>1 DEF gpus
<1>3. TheMap' = TheMap  BY <1>1 DEF TheMap, usegpu, Entry, IsRead
<1>4. TheMapRev' = TheMapRev  BY <1>2 DEF TheMapRev
<1>5. Targets' = Targets  BY <1>2 DEF Targets
<1>6. Worker' = Worker  BY DEF Worker
<1>7. \A g : Settings(g)' = Settings(g)
      BY DEF Settings, Entry, IsRead
<1> QED BY <1>2, <1>3, <1>4, <1>5, <1>6, <1>7

\* How many GPUs there are, and for which devices the program is compiled.
LEMMA GpusFacts ==
    /\ gpus \in Seq(Devices) /\ Len(gpus) \in 0 .. mNumDevices
    /\ \A k \in DOMAIN Targets : Targets[k] \in Devices
<1>1. mNumDevices \in 0 .. mNumDevices  BY DevicesAssumption
<1>2. gpus \in Seq(Devices)  BY <1>1, UsedIs DEF gpus
<1>3. Len(gpus) <= mNumDevices  BY <1>1, UsedRight DEF UsedUpTo, gpus
<1>4. \A k \in DOMAIN Targets : Targets[k] \in Devices
  <2>1. CASE client = "xpm"  BY <2>1, <1>2 DEF Targets
  <2>2. CASE client # "xpm"
    <3>1. Targets = [i \in 1 .. mNumDevices |-> i - 1]  BY <2>2 DEF Targets
    <3> QED BY <3>1, DevicesAssumption DEF Devices
  <2> QED BY <2>1, <2>2
<1> QED BY <1>2, <1>3, <1>4, DevicesAssumption

LEMMA SetupInitEstablishes == SetupInit => SetupIInv
<1> SUFFICES ASSUME SetupInit  PROVE SetupIInv
    OBVIOUS
<1>1. workers = <<>> /\ setup = "off" /\ dead = {} /\ program = NoFile /\ file = NoFile
      BY DEF SetupInit
<1>2. Len(workers) = 0 /\ DOMAIN workers = {}  BY <1>1
<1>3. SetupTypeOK  BY <1>1, <1>2, DevicesAssumption DEF SetupInit, SetupTypeOK
<1>4. WorkersRight  BY <1>1, <1>2, GpusFacts DEF WorkersRight
<1> QED BY <1>1, <1>3, <1>4 DEF SetupIInv, MapsRight, ProgramLoaded

\* The end of the process, in whatever way.
LEMMA EndsPreserves == SetupIInv /\ Ends /\ UNCHANGED <<client, file, cfg>> => SetupIInv'
<1> SUFFICES ASSUME SetupIInv, Ends, UNCHANGED <<client, file, cfg>>  PROVE SetupIInv'
    OBVIOUS
<1>1. /\ workers' = <<>> /\ setup' = "off" /\ dead' = {} /\ program' = NoFile /\ mPaused' = TRUE
      BY DEF Ends
<1>2. Len(workers') = 0 /\ DOMAIN workers' = {}  BY <1>1
<1>3. SetupTypeOK'
      BY <1>1, <1>2, DevicesAssumption DEF SetupIInv, SetupTypeOK
<1>4. Len(gpus') = Len(gpus) /\ Len(gpus) \in Nat
      BY SameConfiguration, GpusFacts, DevicesAssumption
<1>5. WorkersRight'  BY <1>1, <1>2, <1>4 DEF WorkersRight
<1> QED BY <1>1, <1>3, <1>5 DEF SetupIInv, MapsRight, ProgramLoaded

LEMMA EditPreserves == SetupIInv /\ Edit => SetupIInv'
<1> SUFFICES ASSUME SetupIInv, Edit  PROVE SetupIInv'
    OBVIOUS
<1>1. /\ setup = "off" /\ cfg' \in Configs /\ file' \in {file, NoFile}
      /\ UNCHANGED <<client, setup, program, mDeviceMap, mDeviceMapRev, workers, dead, mPaused>>
      BY DEF Edit
<1>2. workers = <<>> /\ Len(workers) = 0 /\ DOMAIN workers = {}
      BY <1>1 DEF SetupIInv, WorkersRight
<1>3. SetupTypeOK'
      BY <1>1 DEF SetupIInv, SetupTypeOK
<1>4. (Len(gpus) \in 0 .. mNumDevices)'
      BY GpusFacts, PTL
<1>5. WorkersRight'  BY <1>1, <1>2, <1>4, DevicesAssumption DEF WorkersRight
<1> QED BY <1>1, <1>3, <1>5 DEF SetupIInv, MapsRight, ProgramLoaded

\* Before a thread is started.
LEMMA PreparePreserves ==
    SetupIInv /\ (MapDevices \/ Compile \/ Save \/ Load) => SetupIInv'
<1> SUFFICES ASSUME SetupIInv, MapDevices \/ Compile \/ Save \/ Load  PROVE SetupIInv'
    OBVIOUS
<1>1. /\ setup \in {"off", "compile", "save", "load"}
      /\ setup' \in {"compile", "save", "load", "start"}
      /\ UNCHANGED <<client, cfg, workers, dead, mPaused>>
      BY DEF MapDevices, Compile, Save, Load
<1>2. workers = <<>> /\ Len(workers) = 0 /\ DOMAIN workers = {}
      BY <1>1 DEF SetupIInv, WorkersRight
<1>3. \A f \in {file', program'} : f \in {NoFile, EmptyFile} \/ f.arch \in {Arch[i] : i \in Devices}
  <2>1. CASE Compile
    <3>1. PICK k \in DOMAIN Targets : program'.arch = Arch[Targets[k]]
          BY <2>1 DEF Compile
    <3>2. Targets[k] \in Devices  BY GpusFacts
    <3> QED BY <2>1, <3>1, <3>2 DEF Compile
  <2>2. CASE ~ Compile
        BY <2>2 DEF MapDevices, Save, Load, SetupIInv, SetupTypeOK
  <2> QED BY <2>1, <2>2
<1>4. SetupTypeOK'
      BY <1>1, <1>3 DEF SetupIInv, SetupTypeOK
<1>5. /\ Len(gpus') = Len(gpus) /\ Len(gpus) \in Nat
      /\ UNCHANGED <<TheMap, TheMapRev>>
      BY <1>1, SameConfiguration, GpusFacts, DevicesAssumption
<1>6. WorkersRight'  BY <1>1, <1>2, <1>5 DEF WorkersRight
<1>7. ProgramLoaded'
      BY DEF MapDevices, Compile, Save, Load, ProgramLoaded
<1>8. MapsRight'
  <2>1. mDeviceMap' = TheMap /\ mDeviceMapRev' = TheMapRev
        BY DEF MapDevices, Compile, Save, Load, SetupIInv, MapsRight, TheMap, TheMapRev
  <2> QED BY <1>5, <2>1 DEF MapsRight
<1> QED BY <1>4, <1>6, <1>7, <1>8 DEF SetupIInv

LEMMA StartWorkerPreserves == SetupIInv /\ StartWorker => SetupIInv'
<1> SUFFICES ASSUME SetupIInv, StartWorker  PROVE SetupIInv'
    OBVIOUS
<1> DEFINE g == Len(workers)
           thread == [device |-> gpus[g + 1], set |-> Settings(g)]
<1>1. /\ setup = "start" /\ g < Len(gpus)
      /\ UNCHANGED <<client, file, cfg, setup, program, mDeviceMap, mDeviceMapRev, dead, mPaused>>
      BY DEF StartWorker
<1>2. \/ workers' = Append(workers, Failed)
      \/ /\ binstatus(g)
         /\ client = "xpm" => Compatible
         /\ workers' = Append(workers, thread)
      BY DEF StartWorker
<1>3. /\ workers \in Seq(Worker) /\ g \in Nat /\ gpus \in Seq(Devices) /\ Len(gpus) <= mNumDevices
      /\ mNumDevices \in Nat
      BY GpusFacts, DevicesAssumption DEF SetupIInv, WorkersRight
<1>4. UNCHANGED <<gpus, TheMap, TheMapRev, Targets, Worker>> /\ \A i : Settings(i)' = Settings(i)
      BY <1>1, SameConfiguration
<1>5. thread \in Worker
  <2>1. gpus[g + 1] \in Devices  BY <1>1, <1>3
  <2>2. \A list : Entry(list, g) \in Int
        BY <1>3 DEF Entry, Default
  <2>3. Settings(g) \in [WorkerLists[client] -> Int]
        BY <2>2 DEF Settings
  <2> QED BY <2>1, <2>3 DEF Worker
<1> HIDE DEF thread
<1>6. PICK new \in Worker :
         /\ workers' = Append(workers, new)
         /\ new = Failed \/ (new = thread /\ binstatus(g) /\ (client = "xpm" => Compatible))
  <2>1. Failed \in Worker  BY DEF Worker
  <2> QED BY <1>2, <1>5, <2>1
<1>7. /\ workers' \in Seq(Worker) /\ Len(workers') = g + 1 /\ DOMAIN workers' = 1 .. g + 1
      /\ workers'[g + 1] = new
      /\ \A k \in 1 .. g : workers'[k] = workers[k]
      /\ DOMAIN workers = 1 .. g
      BY <1>3, <1>6
<1>8. SetupTypeOK'
  <2>1. dead' \subseteq DOMAIN workers' /\ Len(workers') <= mNumDevices
        BY <1>1, <1>3, <1>7 DEF SetupIInv, SetupTypeOK
  <2> QED BY <1>1, <2>1 DEF SetupIInv, SetupTypeOK
<1>9. ASSUME NEW k \in DOMAIN workers'  PROVE workers'[k] = Failed \/ WorkerRight(k)'
  <2>1. CASE k = g + 1
    <3>1. CASE new = Failed  BY <2>1, <3>1, <1>7
    <3>2. CASE new # Failed
      <4>1. new = thread /\ binstatus(g) /\ (client = "xpm" => Compatible)
            BY <1>6, <3>2
      <4>2. k - 1 = g  BY <2>1, <1>3
      <4>3. thread = [device |-> gpus[k], set |-> Settings(k - 1)]
            BY <2>1, <4>2 DEF thread
      <4>4. program.arch = Arch[Targets[k]]
            BY <2>1, <4>1 DEF binstatus
      <4>5. client = "xpm" => program.params = cfg.params
            BY <4>1 DEF Compatible
      <4>6. workers'[k] = [device |-> gpus'[k], set |-> Settings(k - 1)']
            BY <1>4, <1>7, <2>1, <4>1, <4>3
      <4> QED BY <1>1, <1>4, <4>4, <4>5, <4>6 DEF WorkerRight
    <3> QED BY <3>1, <3>2
  <2>2. CASE k # g + 1
    <3>1. k \in 1 .. g  BY <1>3, <1>7, <2>2
    <3>2. workers'[k] = workers[k] /\ k \in DOMAIN workers  BY <3>1, <1>7
    <3>3. workers[k] = Failed \/ WorkerRight(k)
          BY <3>2 DEF SetupIInv, WorkersRight
    <3> QED BY <1>1, <1>4, <3>2, <3>3 DEF WorkerRight
  <2> QED BY <2>1, <2>2
<1>10. WorkersRight'
       BY <1>1, <1>3, <1>4, <1>7, <1>9 DEF WorkersRight
<1>11. MapsRight' /\ ProgramLoaded'
       BY <1>1, <1>4 DEF SetupIInv, MapsRight, ProgramLoaded
<1> QED BY <1>8, <1>10, <1>11 DEF SetupIInv

\* What happens while the threads run, and steps that change nothing.
LEMMA RunPreserves ==
    SetupIInv /\ (Started \/ ToggleAll \/ ThreadDies \/ UNCHANGED setupVars) => SetupIInv'
<1> SUFFICES ASSUME SetupIInv, Started \/ ToggleAll \/ ThreadDies \/ UNCHANGED setupVars
             PROVE  SetupIInv'
    OBVIOUS
<1>1. /\ UNCHANGED <<client, file, cfg, program, mDeviceMap, mDeviceMapRev, workers>>
      /\ (setup' = setup \/ (setup = "start" /\ setup' = "run"))
      BY DEF Started, ToggleAll, ThreadDies, setupVars
<1>2. UNCHANGED <<gpus, TheMap, TheMapRev, Targets, Worker>> /\ \A i : Settings(i)' = Settings(i)
      BY <1>1, SameConfiguration
<1>3. dead' \subseteq DOMAIN workers /\ mPaused' \in BOOLEAN
      BY DEF Started, ToggleAll, ThreadDies, setupVars, SetupIInv, SetupTypeOK
<1>4. SetupTypeOK'
      BY <1>1, <1>3 DEF SetupIInv, SetupTypeOK
<1>5. \A k \in DOMAIN workers : WorkerRight(k) => WorkerRight(k)'
      BY <1>1, <1>2 DEF WorkerRight
<1>6. WorkersRight'
      BY <1>1, <1>2, <1>5 DEF SetupIInv, WorkersRight
<1>7. MapsRight' /\ ProgramLoaded'
      BY <1>1, <1>2 DEF SetupIInv, MapsRight, ProgramLoaded
<1> QED BY <1>4, <1>6, <1>7 DEF SetupIInv

LEMMA SetupStepPreserves == SetupIInv /\ [SetupNext]_setupVars => SetupIInv'
<1>1. ASSUME Kill \/ CompileFails \/ LoadFails \/ Incompatible \/ ExitOnCrash
      PROVE  Ends /\ UNCHANGED <<client, file, cfg>>
      BY <1>1 DEF Kill, CompileFails, LoadFails, Incompatible, ExitOnCrash
<1> QED BY <1>1, EndsPreserves, EditPreserves, PreparePreserves, StartWorkerPreserves, RunPreserves
        DEF SetupNext

LEMMA SetupInvariantHolds == SetupSpec => []SetupIInv
BY SetupInitEstablishes, SetupStepPreserves, PTL DEF SetupSpec

LEMMA SetupInvariantSuffices == SetupIInv => SetupRight
<1> SUFFICES ASSUME SetupIInv, setup \in {"start", "run"}
             PROVE  /\ program = file /\ file # EmptyFile
                    /\ \A i \in Devices : mDeviceMap[i] # -1 => mDeviceMapRev[mDeviceMap[i]] = i
                    /\ \A g \in DOMAIN mDeviceMapRev : mDeviceMap[mDeviceMapRev[g]] = g
                    /\ \A k \in DOMAIN workers :
                          workers[k] # Failed =>
                             LET i == workers[k].device
                             IN  /\ i = mDeviceMapRev[k - 1]
                                 /\ client = "xpm" => program.params = cfg.params
                                 /\ ~ EarlierOff(i) \/ client = "xpm" => program.arch = Arch[i]
                                 /\ \/ EarlierOff(i)
                                    \/ \A list \in WorkerLists[client] :
                                          workers[k].set[list] = Entry(list, i)
    BY DEF SetupRight
<1>1. program = file /\ file # EmptyFile
      BY DEF SetupIInv, ProgramLoaded
<1>2. mDeviceMap = TheMap /\ mDeviceMapRev = TheMapRev
      BY DEF SetupIInv, MapsRight
<1>3. /\ mNumDevices \in Nat /\ Devices = 0 .. mNumDevices - 1 /\ gpus = used[mNumDevices]
      /\ gpus \in Seq(Devices) /\ Len(gpus) \in Nat
      BY DevicesAssumption, GpusFacts DEF Devices, gpus
<1>4. \A n \in 0 .. mNumDevices : UsedUpTo(n) /\ Len(used[n]) \in Nat
      BY UsedRight, UsedIs
<1>5. UsedUpTo(mNumDevices)  BY <1>3, <1>4
<1>6. ASSUME NEW i \in Devices, mDeviceMap[i] # -1  PROVE mDeviceMapRev[mDeviceMap[i]] = i
  <2>1. usegpu(i) /\ mDeviceMap[i] = Len(used[i])
        BY <1>2, <1>6 DEF TheMap
  <2>2. i \in 0 .. mNumDevices - 1  BY <1>3
  <2>3. Len(used[i]) + 1 \in DOMAIN gpus /\ gpus[Len(used[i]) + 1] = i
        BY <1>3, <1>5, <2>1, <2>2 DEF UsedUpTo
  <2>4. Len(used[i]) \in 0 .. Len(gpus) - 1
        BY <1>3, <1>4, <2>2, <2>3
  <2> QED BY <1>2, <2>1, <2>3, <2>4 DEF TheMapRev
<1>7. ASSUME NEW g \in DOMAIN mDeviceMapRev  PROVE mDeviceMap[mDeviceMapRev[g]] = g
  <2>1. g \in 0 .. Len(gpus) - 1 /\ mDeviceMapRev[g] = gpus[g + 1]
        BY <1>2, <1>7 DEF TheMapRev
  <2> DEFINE k == g + 1
  <2>2. k \in DOMAIN gpus /\ k - 1 = g /\ mDeviceMapRev[g] = gpus[k]  BY <1>3, <2>1
  <2> HIDE DEF k
  <2>3. gpus[k] \in Devices /\ usegpu(gpus[k]) /\ Len(used[gpus[k]]) = k - 1
        BY <1>3, <1>5, <2>2 DEF UsedUpTo
  <2> QED BY <1>2, <2>2, <2>3 DEF TheMap
<1>8. ASSUME NEW k \in DOMAIN workers, workers[k] # Failed
      PROVE  LET i == workers[k].device
             IN  /\ i = mDeviceMapRev[k - 1]
                 /\ client = "xpm" => program.params = cfg.params
                 /\ ~ EarlierOff(i) \/ client = "xpm" => program.arch = Arch[i]
                 /\ \/ EarlierOff(i)
                    \/ \A list \in WorkerLists[client] : workers[k].set[list] = Entry(list, i)
  <2>1. WorkerRight(k)  BY <1>8 DEF SetupIInv, WorkersRight
  <2>2. workers[k].device = gpus[k] /\ workers[k].set = Settings(k - 1)
        BY <2>1 DEF WorkerRight
  <2>3. k \in 1 .. Len(gpus) /\ k - 1 \in 0 .. Len(gpus) - 1 /\ k - 1 + 1 = k
    <3>1. workers \in Seq(Worker) /\ Len(workers) <= Len(gpus)
          BY DEF SetupIInv, WorkersRight
    <3> QED BY <1>3, <3>1
  <2>4. gpus[k] = mDeviceMapRev[k - 1]
        BY <1>2, <2>3 DEF TheMapRev
  <2>5. gpus[k] \in Devices /\ Len(used[gpus[k]]) = k - 1
        BY <1>3, <1>5, <2>3 DEF UsedUpTo
  <2>6. ASSUME ~ EarlierOff(gpus[k])  PROVE gpus[k] = k - 1
    <3>1. \A j \in 0 .. gpus[k] - 1 : usegpu(j)
          BY <2>6 DEF EarlierOff
    <3>2. gpus[k] \in 0 .. mNumDevices  BY <1>3, <2>5
    <3>3. Len(used[gpus[k]]) = gpus[k]
          BY <1>4, <3>1, <3>2 DEF UsedUpTo
    <3> QED BY <2>5, <3>3
  <2>7. ~ EarlierOff(gpus[k]) \/ client = "xpm" => program.arch = Arch[gpus[k]]
    <3>1. CASE client = "xpm"  BY <2>1, <3>1 DEF WorkerRight, Targets
    <3>2. CASE client # "xpm" /\ ~ EarlierOff(gpus[k])
      <4>1. k \in 1 .. mNumDevices  BY <1>3, <2>3, GpusFacts
      <4>2. Targets[k] = k - 1  BY <3>2, <4>1 DEF Targets
      <4> QED BY <2>1, <2>6, <3>2, <4>2 DEF WorkerRight
    <3> QED BY <3>1, <3>2
  <2>8. EarlierOff(gpus[k]) \/ \A list \in WorkerLists[client] : Settings(k - 1)[list] = Entry(list, gpus[k])
    <3>1. CASE ~ EarlierOff(gpus[k])
      <4>1. gpus[k] = k - 1  BY <2>6, <3>1
      <4> QED BY <4>1 DEF Settings
    <3> QED BY <3>1
  <2>9. client = "xpm" => program.params = cfg.params
        BY <2>1 DEF WorkerRight
  <2> QED BY <2>2, <2>4, <2>7, <2>8, <2>9
<1> QED BY <1>1, <1>6, <1>7, <1>8

\* A client that starts keeps its types, whatever was edited, failed or was killed.
THEOREM SetupTypeCorrect == SetupSpec => []SetupTypeOK
<1>1. SetupIInv => SetupTypeOK  BY DEF SetupIInv
<1> QED BY <1>1, SetupInvariantHolds, PTL

\* For every number of devices and every list of them in use, the two maps are inverse,
\* every thread has the device, the program and the settings it is meant to have.
THEOREM SetupCorrect == SetupSpec => []SetupRight
BY SetupInvariantHolds, SetupInvariantSuffices, PTL
===============================================================================
