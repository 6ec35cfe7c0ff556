------------------------- MODULE MiningWorker_proofs -------------------------
(***************************************************************************)
(* Proofs about MiningWorker, for every set of heights and every length of *)
(* the queues, and for a main thread that publishes whatever it likes.     *)
(***************************************************************************)
EXTENDS MiningWorker, SequenceTheorems, TLAPS

-----------------------------------------------------------------------------
(* The inductive invariant.                                                *)

\* Between iterations the header is the one of the current pair, and the work is
\* not ahead of the block.  Before the first work there is no header: the block
\* is then ahead.
BetweenIterations ==
    pc \in {"top", "paused", "mine"} =>
        /\ work <= block
        /\ work < block \/ header = <<block, work>>

\* In an iteration that has received no work so far, the header is that of a
\* block of the height of the work, unless the thread has to wait for a work.
LookingForWork ==
    pc = "getwork" /\ ~reset => work < block \/ header = <<work, work>>

LookingForBlock ==
    pc = "getblock" /\ ~reset => block <= work /\ header = <<work, work>>

\* An iteration without a reset has a matching pair.
MiningMatched ==
    pc = "mine" /\ ~reset => work = block

\* A signal is odd when the two threads differ about the pause.
SignalParity ==
    ~term /\ pc # "stopped" => (signals % 2 = 1 <=> ~(mPaused <=> pc = "paused"))

IInv == /\ TypeOK
        /\ BetweenIterations
        /\ LookingForWork
        /\ LookingForBlock
        /\ MiningMatched
        /\ HeaderCurrent
        /\ ShareConsistent
        /\ SignalParity

Pairing == /\ BetweenIterations /\ LookingForWork /\ LookingForBlock
           /\ MiningMatched /\ HeaderCurrent /\ ShareConsistent

\* Steps of the main thread do not disturb what the mining thread holds.
LEMMA MainPairing ==
    ASSUME Pairing, UNCHANGED workerVars
    PROVE  Pairing'
BY DEF Pairing, workerVars, BetweenIterations, LookingForWork, LookingForBlock,
   MiningMatched, HeaderCurrent, ShareConsistent

LEMMA OddEven ==
    ASSUME NEW n \in Nat
    PROVE  /\ (n + 1) % 2 = 1 <=> ~(n % 2 = 1)
           /\ n > 0 => ((n - 1) % 2 = 1 <=> ~(n % 2 = 1))
OBVIOUS

LEMMA InitIInv == Init => IInv
<1> SUFFICES ASSUME Init PROVE IInv
    OBVIOUS
<1>1. TypeOK
  <2>1. << >> \in Seq(Height)  BY EmptySeq
  <2>2. <<0, 0>> \in Nat \X Nat /\ NoShare \in [height : Nat, merkle : Nat, header : Nat \X Nat]
        BY DEF NoShare
  <2>3. 0 \in Nat /\ 1 \in Nat  OBVIOUS
  <2> QED BY <2>1, <2>2, <2>3 DEF Init, TypeOK, PCs
<1>2. Pairing
      BY DEF Init, Pairing, BetweenIterations, LookingForWork, LookingForBlock,
         MiningMatched, HeaderCurrent, ShareConsistent
<1>3. SignalParity
  <2>1. 1 % 2 = 1  OBVIOUS
  <2>2. signals % 2 = 1  BY <2>1 DEF Init
  <2>3. ~(mPaused <=> pc = "paused")  BY DEF Init
  <2> QED BY <2>2, <2>3 DEF SignalParity
<1> QED BY <1>1, <1>2, <1>3 DEF IInv, Pairing

LEMMA MainIInv ==
    ASSUME IInv, Main
    PROVE  IInv'
<1>1. UNCHANGED workerVars
      BY DEF Main, NotifyBlock, TakeWork, Toggle, Exit
<1>2. Pairing'
      BY <1>1, MainPairing DEF IInv, Pairing
<1>3. TypeOK'
  <2>1. ASSUME NEW h \in Height, NotifyBlock(h) PROVE TypeOK'
    <3>1. blocksub' \in Seq(Height)
          BY <2>1, AppendProperties DEF IInv, TypeOK, NotifyBlock
    <3> QED BY <2>1, <3>1 DEF IInv, TypeOK, NotifyBlock, mainVars, workerVars
  <2>2. ASSUME NEW h \in Height, TakeWork(h) PROVE TypeOK'
    <3>1. worksub' \in Seq(Height)
          BY <2>2, AppendProperties DEF IInv, TypeOK, TakeWork
    <3> QED BY <2>2, <3>1 DEF IInv, TypeOK, TakeWork, mainVars, workerVars
  <2>3. CASE Toggle
        BY <2>3 DEF IInv, TypeOK, Toggle, workerVars
  <2>4. CASE Exit
        BY <2>4 DEF IInv, TypeOK, Exit, workerVars
  <2> QED BY <2>1, <2>2, <2>3, <2>4 DEF Main
<1>4. SignalParity'
  <2>1. CASE \E h \in Height : NotifyBlock(h) \/ TakeWork(h)
        BY <2>1 DEF IInv, SignalParity, NotifyBlock, TakeWork, mainVars, workerVars
  <2>2. CASE Toggle
    <3>1. /\ signals' = signals + 1 /\ mPaused' = ~mPaused
          /\ pc' = pc /\ term' = term
          BY <2>2 DEF Toggle, workerVars
    <3>2. /\ signals \in Nat /\ mPaused \in BOOLEAN
          BY DEF IInv, TypeOK
    <3>3. (signals + 1) % 2 = 1 <=> ~(signals % 2 = 1)
          BY <3>2, OddEven
    <3>4. ~(mPaused' <=> pc = "paused") <=> (mPaused <=> pc = "paused")
          BY <3>1, <3>2
    <3> QED BY <3>1, <3>3, <3>4 DEF IInv, SignalParity
  <2>3. CASE Exit
        BY <2>3 DEF SignalParity, Exit
  <2> QED BY <2>1, <2>2, <2>3 DEF Main
<1> QED BY <1>2, <1>3, <1>4 DEF IInv, Pairing

LEMMA TopIInv ==
    ASSUME IInv, Top
    PROVE  IInv'
<1>1. /\ UNCHANGED <<mainVars, blocksub, worksub, block, work, header, share>>
      /\ pc = "top" /\ pc' \in {"paused", "getwork"} /\ reset' = FALSE
      /\ work <= block /\ work \in Nat /\ block \in Nat
      /\ work < block \/ header = <<block, work>>
      BY DEF IInv, TypeOK, Top, BetweenIterations
<1>2. TypeOK'
  <2>1. signals' \in Nat
        BY DEF IInv, TypeOK, Top
  <2> QED BY <1>1, <2>1 DEF IInv, TypeOK, mainVars, PCs
<1>3. Pairing'
      BY <1>1 DEF IInv, Pairing, BetweenIterations, LookingForWork, LookingForBlock,
         MiningMatched, HeaderCurrent, ShareConsistent
<1>4. SignalParity'
  <2> SUFFICES ASSUME ~term
               PROVE  signals' % 2 = 1 <=> ~(mPaused <=> pc' = "paused")
      BY <1>1 DEF SignalParity, mainVars
  <2>1. signals \in Nat /\ mPaused \in BOOLEAN
        /\ (signals % 2 = 1 <=> mPaused)
        BY <1>1 DEF IInv, TypeOK, SignalParity
  <2>2. CASE signals > 0
    <3>1. signals' = signals - 1 /\ pc' = "paused"
          BY <2>2 DEF Top
    <3>2. signals' % 2 = 1 <=> ~(signals % 2 = 1)
          BY <2>1, <2>2, <3>1, OddEven
    <3> QED BY <2>1, <3>1, <3>2
  <2>3. CASE ~(signals > 0)
        BY <2>1, <2>3 DEF Top
  <2> QED BY <2>2, <2>3
<1> QED BY <1>2, <1>3, <1>4 DEF IInv, Pairing

LEMMA ResumeIInv ==
    ASSUME IInv, Resume
    PROVE  IInv'
<1>1. /\ UNCHANGED <<mainVars, blocksub, worksub, block, work, reset, header, share>>
      /\ pc = "paused" /\ pc' = "getwork"
      /\ work <= block /\ work \in Nat /\ block \in Nat
      /\ work < block \/ header = <<block, work>>
      BY DEF IInv, TypeOK, Resume, BetweenIterations
<1>2. TypeOK'
      BY DEF IInv, TypeOK, Resume, mainVars, PCs
<1>3. Pairing'
      BY <1>1 DEF IInv, Pairing, BetweenIterations, LookingForWork, LookingForBlock,
         MiningMatched, HeaderCurrent, ShareConsistent
<1>4. SignalParity'
  <2> SUFFICES ASSUME ~term
               PROVE  signals' % 2 = 1 <=> mPaused
      BY <1>1 DEF SignalParity, mainVars
  <2>1. signals \in Nat /\ mPaused \in BOOLEAN
        /\ (signals % 2 = 1 <=> ~mPaused)
        BY <1>1 DEF IInv, TypeOK, SignalParity
  <2>2. signals > 0 /\ signals' = signals - 1
        BY DEF Resume
  <2>3. signals' % 2 = 1 <=> ~(signals % 2 = 1)
        BY <2>1, <2>2, OddEven
  <2> QED BY <2>1, <2>3
<1> QED BY <1>2, <1>3, <1>4 DEF IInv, Pairing

LEMMA GetWorkIInv ==
    ASSUME IInv, GetWork
    PROVE  IInv'
<1>1. /\ UNCHANGED <<mainVars, signals, blocksub, block, header, share>>
      /\ pc = "getwork" /\ pc' \in {"getblock", "stopped"}
      /\ work \in Nat /\ block \in Nat
      BY DEF IInv, TypeOK, GetWork, Stop
<1>2. TypeOK'
  <2>1. CASE worksub # << >> /\ work' = Head(worksub) /\ worksub' = Tail(worksub)
             /\ reset' = TRUE
    <3>1. work' \in Height /\ worksub' \in Seq(Height)
          BY <2>1, HeadTailProperties DEF IInv, TypeOK
    <3> QED BY <1>1, <2>1, <3>1, HeightAssumption DEF IInv, TypeOK, mainVars, PCs
  <2>2. CASE UNCHANGED <<work, worksub>>
        BY <1>1, <2>2 DEF IInv, TypeOK, mainVars, PCs, GetWork
  <2> QED BY <2>1, <2>2 DEF GetWork
<1>3. pc' = "getblock" /\ ~reset' => block <= work' /\ header = <<work', work'>>
  <2>1. ASSUME pc' = "getblock", ~reset'
        PROVE  ~(work < block) /\ UNCHANGED <<work, reset>>
        BY <2>1 DEF GetWork, Stop
  <2> QED BY <1>1, <2>1 DEF IInv, LookingForWork
<1>4. Pairing'
      BY <1>1, <1>3 DEF IInv, Pairing, BetweenIterations, LookingForWork,
         LookingForBlock, MiningMatched, HeaderCurrent, ShareConsistent
<1>5. SignalParity'
      BY <1>1 DEF IInv, SignalParity, mainVars
<1> QED BY <1>2, <1>4, <1>5 DEF IInv, Pairing

LEMMA GetBlockIInv ==
    ASSUME IInv, GetBlock
    PROVE  IInv'
<1>1. /\ UNCHANGED <<mainVars, signals, worksub, work, reset, share>>
      /\ pc = "getblock" /\ work \in Nat /\ block \in Nat /\ header \in Nat \X Nat
      /\ pc' \in {"getwork", "mine", "stopped"}
      BY DEF IInv, TypeOK, GetBlock, Stop
<1>2. CASE /\ blocksub # << >> /\ block' = Head(blocksub) /\ blocksub' = Tail(blocksub)
           /\ pc' = "getwork" /\ UNCHANGED header
  <2>1. block' \in Height /\ blocksub' \in Seq(Height)
        BY <1>2, HeadTailProperties DEF IInv, TypeOK
  <2>2. TypeOK'
        BY <1>1, <1>2, <2>1, HeightAssumption DEF IInv, TypeOK, mainVars, PCs
  <2>3. Pairing'
        BY <1>1, <1>2 DEF IInv, Pairing, BetweenIterations, LookingForWork,
           LookingForBlock, MiningMatched, HeaderCurrent, ShareConsistent
  <2>4. SignalParity'
        BY <1>1, <1>2 DEF IInv, SignalParity, mainVars
  <2> QED BY <2>2, <2>3, <2>4 DEF IInv, Pairing
<1>3. CASE /\ ~(work > block)
           /\ header' = IF reset THEN <<block, work>> ELSE header
           /\ pc' \in {"mine", "stopped"}
           /\ UNCHANGED <<block, blocksub>>
  <2>1. TypeOK'
        BY <1>1, <1>3 DEF IInv, TypeOK, mainVars, PCs
  <2>2. /\ work <= block /\ header' = <<block, work>>
        /\ ~reset => work = block
        BY <1>1, <1>3 DEF IInv, LookingForBlock
  <2>3. Pairing'
        BY <1>1, <1>3, <2>2 DEF IInv, Pairing, BetweenIterations, LookingForWork,
           LookingForBlock, MiningMatched, HeaderCurrent, ShareConsistent
  <2>4. SignalParity'
        BY <1>1, <1>3 DEF IInv, SignalParity, mainVars
  <2> QED BY <2>1, <2>3, <2>4 DEF IInv, Pairing
<1>4. CASE pc' = "stopped" /\ UNCHANGED <<block, blocksub, header>>
  <2>1. TypeOK'
        BY <1>1, <1>4 DEF IInv, TypeOK, mainVars, PCs
  <2>2. Pairing'
        BY <1>1, <1>4 DEF IInv, Pairing, BetweenIterations, LookingForWork,
           LookingForBlock, MiningMatched, HeaderCurrent, ShareConsistent
  <2>3. SignalParity'
        BY <1>4 DEF SignalParity
  <2> QED BY <2>1, <2>2, <2>3 DEF IInv, Pairing
<1> QED BY <1>2, <1>3, <1>4 DEF GetBlock, Stop

LEMMA FindShareIInv ==
    ASSUME IInv, FindShare
    PROVE  IInv'
<1>1. /\ UNCHANGED <<mainVars, signals, blocksub, worksub, pc, block, work, reset, header>>
      /\ share' = [height |-> block, merkle |-> work, header |-> header]
      /\ pc = "mine" /\ ~reset
      BY DEF FindShare, MayFindShare
<1>2. work = block /\ header = <<block, work>>
      BY <1>1 DEF IInv, MiningMatched, HeaderCurrent
<1>3. TypeOK'
      BY <1>1 DEF IInv, TypeOK, mainVars
<1>4. ShareConsistent'
      BY <1>1, <1>2 DEF ShareConsistent
<1>5. (BetweenIterations /\ LookingForWork /\ LookingForBlock /\ MiningMatched
       /\ HeaderCurrent /\ SignalParity)'
      BY <1>1 DEF IInv, BetweenIterations, LookingForWork, LookingForBlock,
         MiningMatched, HeaderCurrent, SignalParity, mainVars
<1> QED BY <1>3, <1>4, <1>5 DEF IInv

LEMMA EndIterationIInv ==
    ASSUME IInv, EndIteration
    PROVE  IInv'
<1>1. /\ UNCHANGED <<mainVars, signals, blocksub, worksub, block, work, reset, header, share>>
      /\ pc = "mine" /\ pc' \in {"top", "stopped"}
      BY DEF EndIteration, Stop
<1>2. TypeOK'
      BY <1>1 DEF IInv, TypeOK, mainVars, PCs
<1>3. Pairing'
      BY <1>1 DEF IInv, Pairing, BetweenIterations, LookingForWork, LookingForBlock,
         MiningMatched, HeaderCurrent, ShareConsistent
<1>4. SignalParity'
      BY <1>1 DEF IInv, SignalParity, mainVars
<1> QED BY <1>2, <1>3, <1>4 DEF IInv, Pairing

LEMMA NextIInv == IInv /\ [Next]_vars => IInv'
<1> SUFFICES ASSUME IInv, [Next]_vars PROVE IInv'
    OBVIOUS
<1>1. CASE Main  BY <1>1, MainIInv
<1>2. CASE Worker
      BY <1>2, TopIInv, ResumeIInv, GetWorkIInv, GetBlockIInv, FindShareIInv,
         EndIterationIInv DEF Worker
<1>3. CASE UNCHANGED vars
  <2>1. TypeOK'
        BY <1>3 DEF IInv, TypeOK, vars, mainVars, workerVars
  <2>2. Pairing'
        BY <1>3, MainPairing DEF IInv, Pairing, vars
  <2>3. SignalParity'
        BY <1>3 DEF IInv, SignalParity, vars, mainVars, workerVars
  <2> QED BY <2>1, <2>2, <2>3 DEF IInv, Pairing
<1> QED BY <1>1, <1>2, <1>3 DEF Next

LEMMA AlwaysIInv == Spec => []IInv
BY InitIInv, NextIInv, PTL DEF Spec

\* The types of the threads' variables, the queues and the pipe.
THEOREM TypeCorrect == Spec => []TypeOK
BY AlwaysIInv, PTL DEF IInv

\* A thread never mines with a work whose height is above its block's
\* (the get-work loop, xpmclient.cpp lines 396-412).
THEOREM NeverMinesAhead == Spec => []NeverAhead
<1>1. IInv => NeverAhead
      BY DEF IInv, BetweenIterations, NeverAhead
<1> QED BY <1>1, AlwaysIInv, PTL

\* The header that is mined always belongs to the current pair of block and work.
THEOREM MinesCurrentHeader == Spec => []HeaderCurrent
BY AlwaysIInv, PTL DEF IInv

\* A share never mixes heights, in whatever order blocks, works, late works and
\* signals reach the thread.
THEOREM SharesConsistent == Spec => []ShareConsistent
BY AlwaysIInv, PTL DEF IInv

\* Main thread and mining thread agree on the pause once the pipe is drained.
THEOREM PauseInPhase == Spec => []PausedInPhase
<1>1. IInv => PausedInPhase
  <2> SUFFICES ASSUME IInv, ~term, pc # "stopped", signals = 0
               PROVE  mPaused <=> pc = "paused"
      BY DEF PausedInPhase
  <2>1. ~(signals % 2 = 1)
        OBVIOUS
  <2> QED BY <2>1 DEF IInv, SignalParity
<1> QED BY <1>1, AlwaysIInv, PTL
=============================================================================
