-------------------------- MODULE PoolMining_proofs --------------------------
(***************************************************************************)
(* Proofs about PoolClient, for every set of heights and lengths, every    *)
(* bound of the queues, every kind of fault and of verdict; and about      *)
(* PoolMining: the composition implements both of its parts, the client    *)
(* (PoolClient) and the mining thread against a main thread that does what *)
(* it likes (MiningWorker), so that what is proved of each of them holds   *)
(* of the composition.                                                     *)
(***************************************************************************)
EXTENDS PoolMining, SequenceTheorems, FiniteSetTheorems, LoopTheorems

-----------------------------------------------------------------------------
(* The inductive invariant.                                                *)

\* Nothing the client knows or will be told is higher than the pool's block.
AtMostTip ==
    /\ gBlock <= tip /\ given <= tip
    /\ \A k \in DOMAIN sigs : sigs[k] <= tip
    /\ \A k \in DOMAIN replies : replies[k].block <= tip

\* An answer that brings a work.
Brings(m) == IsGetWork(m) /\ m.work > 0

\* Works come in the order of their heights: those in flight, the one being
\* handled and the one published last.
WorksInOrder ==
    /\ \A k \in DOMAIN replies :
          Brings(replies[k]) => given <= replies[k].work /\ replies[k].work <= tip
    /\ \A k, l \in DOMAIN replies :
          k < l /\ Brings(replies[k]) /\ Brings(replies[l])
              => replies[k].work <= replies[l].work
    /\ main = "reply" /\ Brings(rep) =>
          /\ given <= rep.work /\ rep.work <= tip
          /\ \A k \in DOMAIN replies : Brings(replies[k]) => rep.work <= replies[k].work

\* A share is sent under an id of its own, and is in one message at most.
OneMessage ==
    /\ \A r, s \in requests : IsShare(r) /\ IsShare(s) /\ r.id = s.id => r = s
    /\ \A r \in requests, k \in DOMAIN replies :
          IsShare(r) /\ IsShare(replies[k]) => r.id # replies[k].id
    /\ \A k, l \in DOMAIN replies :
          IsShare(replies[k]) /\ IsShare(replies[l]) /\ replies[k].id = replies[l].id => k = l
    /\ main = "reply" /\ IsShare(rep) =>
          /\ \A r \in requests : IsShare(r) => r.id # rep.id
          /\ \A k \in DOMAIN replies : IsShare(replies[k]) => replies[k].id # rep.id

\* The entry of a share is there while a message of it is on its way, with its length.
Sent(m) == m.id \in DOMAIN gSharesSent /\ gSharesSent[m.id] = m.length

EntriesThere ==
    /\ \A r \in requests : IsShare(r) => Sent(r)
    /\ \A k \in DOMAIN replies : IsShare(replies[k]) => Sent(replies[k])
    /\ main = "reply" /\ IsShare(rep) => Sent(rep)
    /\ \A c \in Counter : gShares[0][c] = 0

Rest == /\ AtMostTip
        /\ WorksInOrder
        /\ WorkOnTheWay
        /\ OneMessage
        /\ EntriesThere

IInv == TypeOK /\ Rest

-----------------------------------------------------------------------------
(* Messages and queues.                                                    *)

LEMMA TailFacts ==
    ASSUME NEW S, NEW s \in Seq(S), s # << >>
    PROVE  /\ Tail(s) \in Seq(S) /\ Head(s) \in S
           /\ 1 \in DOMAIN s /\ s[1] = Head(s)
           /\ \A k \in DOMAIN Tail(s) : k \in Nat /\ k + 1 \in DOMAIN s /\ Tail(s)[k] = s[k + 1]
           /\ \A k \in DOMAIN s : k # 1 => k - 1 \in DOMAIN Tail(s) /\ Tail(s)[k - 1] = s[k]
           /\ \A k \in DOMAIN Tail(s) : k + 1 # 1
<1>1. /\ Tail(s) \in Seq(S) /\ Head(s) \in S /\ Len(s) \in Nat /\ Len(s) # 0
      /\ Len(Tail(s)) = Len(s) - 1 /\ s[1] = Head(s)
      /\ \A k \in 1 .. Len(Tail(s)) : Tail(s)[k] = s[k + 1]
      BY HeadTailProperties, LenProperties, EmptySeq
<1>2. DOMAIN s = 1 .. Len(s) /\ DOMAIN Tail(s) = 1 .. Len(s) - 1
      BY <1>1, LenProperties
<1> QED BY <1>1, <1>2

LEMMA AppendFacts ==
    ASSUME NEW S, NEW s \in Seq(S), NEW e \in S
    PROVE  /\ Append(s, e) \in Seq(S)
           /\ \A k \in DOMAIN s : k \in Nat /\ k \in DOMAIN Append(s, e)
                                  /\ Append(s, e)[k] = s[k] /\ k < Len(s) + 1
           /\ \A k \in DOMAIN Append(s, e) : k \in DOMAIN s \/ k = Len(s) + 1
           /\ Len(s) + 1 \in DOMAIN Append(s, e) /\ Append(s, e)[Len(s) + 1] = e
           /\ Len(s) \in Nat
<1>1. /\ Append(s, e) \in Seq(S) /\ Len(s) \in Nat /\ Len(Append(s, e)) = Len(s) + 1
      /\ \A k \in 1 .. Len(s) : Append(s, e)[k] = s[k]
      /\ Append(s, e)[Len(s) + 1] = e
      BY AppendProperties, LenProperties
<1>2. DOMAIN s = 1 .. Len(s) /\ DOMAIN Append(s, e) = 1 .. Len(s) + 1
      BY <1>1, LenProperties
<1> QED BY <1>1, <1>2

LEMMA EmptyDomain ==
    /\ DOMAIN << >> = {}
    /\ \A S : << >> \in Seq(S)
BY EmptySeq

LEMMA ReplyFacts ==
    ASSUME NEW m \in Reply
    PROVE  /\ m.type \in {"GETWORK", "SHARE", "STATS"} /\ m.block \in Height \cup {0}
           /\ IsGetWork(m) => m.work \in Height \cup {0}
           /\ IsShare(m) => m.id \in Nat /\ m.length \in Length /\ m.error \in Error
BY DEF Reply, IsGetWork, IsShare

LEMMA RequestFacts ==
    ASSUME NEW m \in Request
    PROVE  /\ m.type \in {"GETWORK", "SHARE", "STATS"}
           /\ IsShare(m) => m.id \in Nat /\ m.length \in Length
BY DEF Request, IsShare

\* The types of the elements of the queues and of the numbers.
LEMMA Elements ==
    ASSUME TypeOK
    PROVE  /\ \A k \in DOMAIN replies : replies[k] \in Reply
           /\ \A k \in DOMAIN sigs : sigs[k] \in Height \cup {0}
           /\ tip \in Nat \ {0} /\ gBlock \in Nat /\ given \in Nat
           /\ \A h \in Height \cup {0} : h \in Nat
<1>1. \A k \in DOMAIN replies : replies[k] \in Reply
  <2>1. replies \in Seq(Reply) /\ DOMAIN replies = 1 .. Len(replies)
        BY LenProperties DEF TypeOK
  <2> QED BY <2>1, ElementOfSeq
<1>2. \A k \in DOMAIN sigs : sigs[k] \in Height \cup {0}
  <2>1. sigs \in Seq(Height \cup {0}) /\ DOMAIN sigs = 1 .. Len(sigs)
        BY LenProperties DEF TypeOK, SHUTDOWN
  <2> QED BY <2>1, ElementOfSeq
<1> QED BY <1>1, <1>2, HeightAssumption DEF TypeOK

LEMMA AnswerFacts ==
    ASSUME TypeOK, NEW r \in Request, NEW a \in Answers(r)
    PROVE  /\ a \in Reply /\ a.type = r.type
           /\ a.block \in {0, tip}
           /\ IsGetWork(a) => a.work \in {0, tip}
           /\ IsShare(a) => a.id = r.id /\ a.length = r.length
<1>1. tip \in Height
      BY DEF TypeOK
<1>2. CASE r.type = "GETWORK"
  <2>1. PICK w \in {0, tip}, b \in {0, tip} : a = [type |-> "GETWORK", work |-> w, block |-> b]
        BY <1>2 DEF Answers
  <2> QED BY <1>1, <1>2, <2>1 DEF Reply, IsGetWork, IsShare
<1>3. CASE r.type = "SHARE"
  <2>1. PICK e \in Error, b \in {0, tip} :
           a = [type |-> "SHARE", id |-> r.id, length |-> r.length, error |-> e, block |-> b]
        BY <1>3 DEF Answers
  <2>2. r.id \in Nat /\ r.length \in Length
        BY <1>3, RequestFacts DEF IsShare
  <2> QED BY <1>1, <1>3, <2>1, <2>2 DEF Reply, IsGetWork, IsShare
<1>4. CASE r.type = "STATS"
  <2>1. PICK b \in {0, tip} : a = [type |-> "STATS", block |-> b]
        BY <1>4 DEF Answers
  <2> QED BY <1>1, <1>4, <2>1 DEF Reply, IsGetWork, IsShare
<1> QED BY <1>2, <1>3, <1>4, RequestFacts

LEMMA GetWorkType ==
    ASSUME NEW h \in Height \cup {0}
    PROVE  GetWorkRequest(h) \in Request /\ ~ IsShare(GetWorkRequest(h))
BY DEF GetWorkRequest, Request, IsShare

LEMMA NewBlockFacts ==
    ASSUME TypeOK, NEW b \in Height \cup {0}, NEW known \in Height \cup {0},
           NEW pending \in SUBSET Request, HandleNewBlock(b, known, pending)
    PROVE  /\ gBlock' \in Height \cup {0} /\ requests' \subseteq Request
           /\ \/ gBlock' = known /\ requests' = pending
              \/ gBlock' = b /\ requests' = pending \cup {GetWorkRequest(b)}
           /\ pending \subseteq requests'
           /\ \A r \in requests' : IsShare(r) => r \in pending
BY GetWorkType DEF HandleNewBlock

-----------------------------------------------------------------------------
(* Types.                                                                  *)

LEMMA InitType == Init => TypeOK
<1> SUFFICES ASSUME Init PROVE TypeOK
    OBVIOUS
<1>1. NoReply \in Reply
      BY DEF NoReply, Reply
<1>2. gSharesSent = [id \in {} |-> 0] /\ DOMAIN gSharesSent = {}
      BY DEF Init
<1>3. gShares \in [Length \cup {0} -> [Counter -> Nat]]
      BY DEF Init
<1>4. shares \in Seq(Length) /\ replies \in Seq(Reply) /\ sigs \in Seq(Height \cup {SHUTDOWN})
      BY EmptyDomain DEF Init
<1> QED BY <1>1, <1>2, <1>3, <1>4 DEF Init, TypeOK, Places

\* The steps that change none of the structured variables but those named.
SameShares == UNCHANGED <<gNextReqID, gSharesSent, gShares, shares>>
SameNet == UNCHANGED <<requests, replies, sigs, tip, up, lost>>

LEMMA StartSessionType ==
    ASSUME TypeOK, NEW b \in {h \in Height \cup {0} : h <= tip}, StartSession(b)
    PROVE  TypeOK'
<1>1. gBlock' \in Height \cup {0} /\ requests' \subseteq Request
  <2>1. CASE b > 0
    <3>1. HandleNewBlock(b, 0, {})  BY <2>1 DEF StartSession
    <3> QED BY <3>1, NewBlockFacts
  <2>2. CASE ~ (b > 0)
        BY <2>2, GetWorkType DEF StartSession
  <2> QED BY <2>1, <2>2
<1>2. replies' \in Seq(Reply) /\ sigs' \in Seq(Height \cup {SHUTDOWN})
      BY EmptyDomain DEF StartSession
<1>3. main' \in Places /\ gHeartBeat' \in BOOLEAN /\ gExit' \in BOOLEAN
      /\ given' \in Height \cup {0} /\ lost' \in BOOLEAN
      BY DEF StartSession, Places
<1> QED BY <1>1, <1>2, <1>3 DEF TypeOK, StartSession, shareVars, poolVars

LEMMA SessionType ==
    ASSUME TypeOK, GiveUp \/ EnterLoop \/ Interrupt \/ LeaveLoop \/ Exit
    PROVE  TypeOK'
<1>1. CASE GiveUp
      BY <1>1 DEF TypeOK, GiveUp, Places, shareVars, netVars, poolVars
<1>2. CASE EnterLoop
      BY <1>2 DEF TypeOK, EnterLoop, Toggle, Places, shareVars, netVars, poolVars
<1>3. CASE Interrupt
      BY <1>3 DEF TypeOK, Interrupt, Places, shareVars, netVars, poolVars
<1>4. CASE LeaveLoop
  <2>1. replies' \in Seq(Reply) /\ sigs' \in Seq(Height \cup {SHUTDOWN}) /\ requests' \subseteq Request
        BY <1>4, EmptyDomain DEF LeaveLoop
  <2>2. main' \in Places /\ mPaused' \in BOOLEAN
        BY <1>4 DEF LeaveLoop, Toggle, Places, TypeOK
  <2> QED BY <1>4, <2>1, <2>2 DEF TypeOK, LeaveLoop, shareVars, poolVars
<1>5. CASE Exit
      BY <1>5 DEF TypeOK, Exit, Places, shareVars, netVars, poolVars
<1> QED BY <1>1, <1>2, <1>3, <1>4, <1>5

LEMMA HandleReplyType ==
    ASSUME TypeOK, HandleReply
    PROVE  TypeOK'
<1>1. PICK m \in Reply : m = Head(replies) /\ rep' = m
      BY TailFacts DEF HandleReply, TypeOK
<1>2. HandleNewBlock(m.block, gBlock, requests)
      BY <1>1 DEF HandleReply
<1>3. gBlock' \in Height \cup {0} /\ requests' \subseteq Request
      BY <1>2, NewBlockFacts, ReplyFacts DEF TypeOK
<1>4. replies' \in Seq(Reply)
      BY TailFacts DEF HandleReply, TypeOK
<1> QED BY <1>1, <1>3, <1>4 DEF TypeOK, HandleReply, shareVars, poolVars, Places

LEMMA ReplyHandledType ==
    ASSUME TypeOK, HandleNewWork \/ HandleShare \/ HandleOther
    PROVE  TypeOK'
<1>1. ReplyHandled /\ main = "reply"
      BY DEF HandleNewWork, HandleShare, HandleOther
<1>2. /\ main' \in Places /\ gHeartBeat' \in BOOLEAN /\ rep' \in Reply
      /\ UNCHANGED <<gBlock, gExit, mPaused, shares, requests, replies, tip, up, lost, told>>
      BY <1>1 DEF ReplyHandled, Places, NoReply, Reply, poolVars
<1>3. CASE HandleNewWork \/ HandleOther
  <2>1. given' \in Height \cup {0} /\ UNCHANGED <<gNextReqID, gSharesSent, gShares, sigs>>
        BY <1>3, ReplyFacts DEF TypeOK, HandleNewWork, HandleOther, shareVars, IsGetWork
  <2> QED BY <1>2, <2>1 DEF TypeOK
<1>4. CASE HandleShare
  <2>1. /\ UNCHANGED <<gNextReqID, given>>
        /\ DOMAIN gSharesSent' \subseteq 1 .. gNextReqID
        /\ \A id \in DOMAIN gSharesSent' : gSharesSent'[id] \in Length
        BY <1>4 DEF TypeOK, HandleShare
  <2>2. gShares' \in [Length \cup {0} -> [Counter -> Nat]]
    <3>1. PICK x, c : gShares' = gShares \/ gShares' = [gShares EXCEPT ![x][c] = @ + 1]
          BY <1>4 DEF HandleShare
    <3>2. CASE gShares' = gShares  BY <3>2 DEF TypeOK
    <3>3. CASE gShares' = [gShares EXCEPT ![x][c] = @ + 1]
      <4>1. gShares \in [Length \cup {0} -> [Counter -> Nat]]
            BY DEF TypeOK
      <4>2. ASSUME NEW y \in Length \cup {0}
            PROVE  gShares'[y] \in [Counter -> Nat]
        <5>1. PICK g \in [Counter -> Nat] : g = gShares[y]
              BY <4>1
        <5>2. gShares'[y] = g \/ gShares'[y] = [g EXCEPT ![c] = g[c] + 1]
              BY <3>3, <4>1, <5>1
        <5>3. [g EXCEPT ![c] = g[c] + 1] \in [Counter -> Nat]
          <6>1. CASE c \in Counter  BY <6>1
          <6>2. CASE c \notin Counter  BY <6>2
          <6> QED BY <6>1, <6>2
        <5> QED BY <5>2, <5>3
      <4>3. gShares' = [y \in Length \cup {0} |-> gShares'[y]]
            BY <3>3, <4>1
      <4> QED BY <4>2, <4>3
    <3> QED BY <3>1, <3>2, <3>3
  <2>3. sigs' \in Seq(Height \cup {SHUTDOWN})
        BY <1>4, EmptyDomain DEF TypeOK, HandleShare
  <2> QED BY <1>2, <2>1, <2>2, <2>3 DEF TypeOK
<1> QED BY <1>3, <1>4

LEMMA HandleSignalType ==
    ASSUME TypeOK, HandleSignal
    PROVE  TypeOK'
<1>1. PICK h \in Height \cup {0} : h = Head(sigs) /\ sigs' \in Seq(Height \cup {SHUTDOWN})
      BY TailFacts DEF HandleSignal, TypeOK, SHUTDOWN
<1>2. gBlock' \in Height \cup {0} /\ requests' \subseteq Request
  <2>1. CASE h = SHUTDOWN
        BY <1>1, <2>1 DEF HandleSignal, TypeOK
  <2>2. CASE h # SHUTDOWN
    <3>1. HandleNewBlock(h, gBlock, requests)
          BY <1>1, <2>2 DEF HandleSignal
    <3> QED BY <3>1, NewBlockFacts DEF TypeOK
  <2> QED BY <2>1, <2>2
<1>3. main' \in Places /\ gExit' \in BOOLEAN
      BY DEF HandleSignal, TypeOK, Places
<1> QED BY <1>1, <1>2, <1>3 DEF TypeOK, HandleSignal, shareVars, poolVars

LEMMA SubmitShareType ==
    ASSUME TypeOK, SubmitShare
    PROVE  TypeOK'
<1>1. PICK l \in Length, n \in Nat :
         /\ l = Head(shares) /\ n = gNextReqID + 1 /\ gNextReqID' = n
         /\ shares' \in Seq(Length)
      BY TailFacts DEF SubmitShare, TypeOK
<1>2. gSharesSent' = [id \in DOMAIN gSharesSent \cup {n} |->
                         IF id = n THEN l ELSE gSharesSent[id]]
      BY <1>1 DEF SubmitShare
<1>3. /\ DOMAIN gSharesSent' \subseteq 1 .. n
      /\ \A id \in DOMAIN gSharesSent' : gSharesSent'[id] \in Length
  <2>1. DOMAIN gSharesSent \subseteq 1 .. n /\ n \in 1 .. n
        BY <1>1 DEF TypeOK
  <2> QED BY <1>1, <1>2, <2>1 DEF TypeOK
<1>4. requests' \subseteq Request
  <2>1. requests' = requests \cup {[type |-> "SHARE", id |-> n, length |-> l]}
        BY <1>1 DEF SubmitShare
  <2>2. [type |-> "SHARE", id |-> n, length |-> l] \in Request
        BY <1>1 DEF Request
  <2> QED BY <2>1, <2>2 DEF TypeOK
<1> QED BY <1>1, <1>3, <1>4 DEF TypeOK, SubmitShare, poolVars

LEMMA HandleTimerType ==
    ASSUME TypeOK, HandleTimer
    PROVE  TypeOK'
<1>1. [type |-> "STATS"] \in Request
      BY DEF Request
<1>2. requests' \subseteq Request /\ main' \in Places /\ gExit' \in BOOLEAN /\ gHeartBeat' \in BOOLEAN
      BY <1>1 DEF HandleTimer, TypeOK, Places
<1> QED BY <1>2 DEF TypeOK, HandleTimer, shareVars, poolVars

LEMMA ThreadSendsShareType ==
    ASSUME TypeOK, NEW length \in Length, ThreadSendsShare(length)
    PROVE  TypeOK'
<1>1. shares' \in Seq(Length)
      BY AppendFacts DEF ThreadSendsShare, TypeOK
<1> QED BY <1>1 DEF TypeOK, ThreadSendsShare, shareVars, netVars, poolVars

LEMMA PoolType ==
    ASSUME TypeOK, Pool
    PROVE  TypeOK'
<1>1. PoolLeavesAlone
      BY DEF Pool, PoolAnswers, PoolNewBlock, PoolStops, PoolStarts, NetworkLoses
<1>2. /\ requests' \subseteq Request /\ replies' \in Seq(Reply)
      /\ sigs' \in Seq(Height \cup {SHUTDOWN})
      /\ tip' \in Height /\ up' \in BOOLEAN /\ lost' \in BOOLEAN
  <2>1. ASSUME NEW r \in requests, PoolAnswers(r) PROVE <1>2!:
    <3>1. PICK a \in Reply : replies' = Append(replies, a)
          BY <2>1, AnswerFacts DEF PoolAnswers, TypeOK
    <3>2. replies' \in Seq(Reply)
          BY <3>1, AppendFacts DEF TypeOK
    <3> QED BY <2>1, <3>2 DEF PoolAnswers, TypeOK, poolVars
  <2>2. ASSUME NEW h \in Height, PoolNewBlock(h) PROVE <1>2!:
    <3>1. sigs' \in Seq(Height \cup {SHUTDOWN})
          BY <2>2, AppendFacts DEF PoolNewBlock, TypeOK
    <3> QED BY <2>2, <3>1 DEF PoolNewBlock, TypeOK
  <2>3. CASE PoolStops
    <3>1. sigs' \in Seq(Height \cup {SHUTDOWN})
      <4>1. SHUTDOWN \in Height \cup {SHUTDOWN}
            OBVIOUS
      <4>2. Append(sigs, SHUTDOWN) \in Seq(Height \cup {SHUTDOWN})
            BY <4>1, AppendFacts DEF TypeOK
      <4> QED BY <2>3, <4>2 DEF PoolStops, TypeOK
    <3> QED BY <2>3, <3>1 DEF PoolStops, TypeOK
  <2>4. CASE PoolStarts
        BY <2>4 DEF PoolStarts, TypeOK, netVars
  <2>5. CASE NetworkLoses
    <3>1. requests' \subseteq Request
      <4>1. requests' = requests \/ \E r : requests' = requests \ {r}
            BY <2>5, Zenon DEF NetworkLoses
      <4> QED BY <4>1 DEF TypeOK
    <3>2. replies' \in Seq(Reply)
      <4>1. replies' = replies \/ (replies # << >> /\ replies' = Tail(replies))
            BY <2>5, Zenon DEF NetworkLoses
      <4> QED BY <4>1, TailFacts DEF TypeOK
    <3>3. sigs' \in Seq(Height \cup {SHUTDOWN})
      <4>1. sigs' = sigs \/ (sigs # << >> /\ sigs' = Tail(sigs))
            BY <2>5, Zenon DEF NetworkLoses
      <4>2. sigs \in Seq(Height \cup {SHUTDOWN})
            BY DEF TypeOK
      <4> QED BY <4>1, <4>2, TailFacts
    <3>4. tip' \in Height /\ up' \in BOOLEAN
          BY <2>5 DEF NetworkLoses, TypeOK, poolVars
    <3>5. lost' \in BOOLEAN
      <4>1. lost \in BOOLEAN
            BY DEF TypeOK
      <4>2. lost' = lost \/ \E m : lost' = (lost \/ IsGetWork(m))
            BY <2>5, Zenon DEF NetworkLoses
      <4>3. CASE lost' = lost
            BY <4>1, <4>3
      <4>4. ASSUME NEW m, lost' = (lost \/ IsGetWork(m)) PROVE lost' \in BOOLEAN
            BY <4>4 DEF IsGetWork
      <4> QED BY <4>2, <4>3, <4>4
    <3> QED BY <3>1, <3>2, <3>3, <3>4, <3>5
  <2> QED BY <2>1, <2>2, <2>3, <2>4, <2>5 DEF Pool
<1> QED BY <1>1, <1>2 DEF TypeOK, PoolLeavesAlone, shareVars

LEMMA NextType == TypeOK /\ [Next]_vars => TypeOK'
<1> SUFFICES ASSUME TypeOK, [Next]_vars PROVE TypeOK'
    OBVIOUS
<1>1. CASE Client
      BY <1>1, StartSessionType, SessionType, HandleReplyType, ReplyHandledType,
         HandleSignalType, SubmitShareType, HandleTimerType DEF Client
<1>2. CASE Pool  BY <1>2, PoolType
<1>3. CASE Threads  BY <1>3, ThreadSendsShareType DEF Threads
<1>4. CASE UNCHANGED vars
      BY <1>4 DEF TypeOK, vars, shareVars, netVars, poolVars
<1> QED BY <1>1, <1>2, <1>3, <1>4 DEF Next

-----------------------------------------------------------------------------
(* What a step leaves alone.                                               *)

LEMMA FrameTip ==
    ASSUME AtMostTip, UNCHANGED <<gBlock, given, sigs, replies, tip>>
    PROVE  AtMostTip'
BY DEF AtMostTip

LEMMA FrameOrder ==
    ASSUME WorksInOrder, UNCHANGED <<replies, given, rep, tip>>,
           main' = "reply" => main = "reply"
    PROVE  WorksInOrder'
BY DEF WorksInOrder, Brings, IsGetWork

LEMMA FrameWay ==
    ASSUME WorkOnTheWay, UNCHANGED <<gBlock, given, rep, replies, lost>>,
           requests \subseteq requests', InSession' => InSession,
           main = "reply" => main' = "reply"
    PROVE  WorkOnTheWay'
BY DEF WorkOnTheWay, GetWorkRequest, IsGetWork

LEMMA FrameMessages ==
    ASSUME OneMessage, EntriesThere, UNCHANGED <<replies, rep, gSharesSent, gShares>>,
           \A r \in requests' : IsShare(r) => r \in requests,
           main' = "reply" => main = "reply"
    PROVE  OneMessage' /\ EntriesThere'
<1>1. OneMessage'
      BY DEF OneMessage, IsShare
<1>2. EntriesThere'
      BY DEF EntriesThere, IsShare, Sent
<1> QED BY <1>1, <1>2

\* A session that is not there needs no work.
LEMMA NoSession ==
    ASSUME ~ InSession'
    PROVE  WorkOnTheWay'
BY DEF WorkOnTheWay

\* Without messages there is little to say.
LEMMA NoMessages ==
    ASSUME EntriesThere, replies' = << >>, \A r \in requests' : ~ IsShare(r),
           main' # "reply", UNCHANGED <<gSharesSent, gShares>>
    PROVE  WorksInOrder' /\ OneMessage' /\ EntriesThere'
<1>1. DOMAIN replies' = {}
      BY EmptyDomain
<1>2. WorksInOrder'
      BY <1>1 DEF WorksInOrder
<1>3. OneMessage'
      BY <1>1 DEF OneMessage, IsShare
<1>4. EntriesThere'
      BY <1>1 DEF EntriesThere, IsShare, Sent
<1> QED BY <1>2, <1>3, <1>4

\* A message has left the front of the queue of replies, or all of them have.
Dropped(d) ==
    \A k \in DOMAIN replies' :
        k \in Nat /\ k + d \in DOMAIN replies /\ replies'[k] = replies[k + d]

LEMMA DroppedOrder ==
    ASSUME WorksInOrder, NEW d \in {0, 1}, Dropped(d), \A k \in DOMAIN replies : k \in Nat,
           UNCHANGED <<given, rep, tip>>, main' = "reply" => main = "reply"
    PROVE  WorksInOrder'
<1>1. ASSUME NEW k \in DOMAIN replies', NEW l \in DOMAIN replies', k < l
      PROVE  k + d < l + d
      BY <1>1 DEF Dropped
<1> QED BY <1>1 DEF WorksInOrder, Brings, IsGetWork, Dropped

LEMMA DroppedMessages ==
    ASSUME OneMessage, EntriesThere, NEW d \in {0, 1}, Dropped(d),
           UNCHANGED <<rep, gSharesSent, gShares>>,
           \A r \in requests' : IsShare(r) => r \in requests,
           main' = "reply" => main = "reply"
    PROVE  OneMessage' /\ EntriesThere'
<1>1. ASSUME NEW k \in DOMAIN replies', NEW l \in DOMAIN replies', k + d = l + d
      PROVE  k = l
      BY <1>1 DEF Dropped
<1>2. OneMessage'
      BY <1>1 DEF OneMessage, IsShare, Dropped
<1>3. EntriesThere'
      BY DEF EntriesThere, IsShare, Sent, Dropped
<1> QED BY <1>2, <1>3

-----------------------------------------------------------------------------
(* The steps of the client.                                                *)

LEMMA InitRest == Init => Rest
<1> SUFFICES ASSUME Init PROVE Rest
    OBVIOUS
<1>1. DOMAIN replies = {} /\ DOMAIN sigs = {} /\ requests = {} /\ main = "connect"
      BY EmptyDomain DEF Init
<1>2. AtMostTip
  <2>1. tip \in Nat /\ gBlock = 0 /\ given = 0
        BY HeightAssumption DEF Init
  <2> QED BY <1>1, <2>1 DEF AtMostTip
<1>3. WorksInOrder /\ WorkOnTheWay /\ OneMessage
      BY <1>1 DEF WorksInOrder, WorkOnTheWay, OneMessage, InSession
<1>4. EntriesThere
      BY <1>1 DEF EntriesThere, Init
<1> QED BY <1>2, <1>3, <1>4 DEF Rest

LEMMA StartSessionRest ==
    ASSUME TypeOK, Rest, NEW b \in {h \in Height \cup {0} : h <= tip}, StartSession(b)
    PROVE  Rest'
<1>1. /\ gBlock' = b /\ requests' = {GetWorkRequest(b)}
      /\ ~ IsShare(GetWorkRequest(b)) /\ b <= tip /\ b \in Nat /\ tip \in Nat
  <2>1. b \in Nat /\ tip \in Nat  BY Elements
  <2>2. CASE b > 0  BY <2>1, <2>2, GetWorkType DEF StartSession, HandleNewBlock
  <2>3. CASE ~ (b > 0)
    <3>1. b = 0  BY <2>1, <2>3
    <3> QED BY <2>1, <2>3, <3>1, GetWorkType DEF StartSession
  <2> QED BY <2>1, <2>2, <2>3
<1>2. /\ replies' = << >> /\ sigs' = << >> /\ given' = 0 /\ tip' = tip /\ main' = "start"
      /\ UNCHANGED <<gSharesSent, gShares>>
      BY DEF StartSession, shareVars, poolVars
<1>3. AtMostTip'
      BY <1>1, <1>2, EmptyDomain DEF AtMostTip
<1>4. WorksInOrder' /\ OneMessage' /\ EntriesThere'
      BY <1>1, <1>2, NoMessages DEF Rest
<1>5. WorkOnTheWay'
      BY <1>1 DEF WorkOnTheWay, GetWorkRequest
<1> QED BY <1>3, <1>4, <1>5 DEF Rest

LEMMA SessionRest ==
    ASSUME TypeOK, Rest, GiveUp \/ EnterLoop \/ Interrupt \/ Exit
    PROVE  Rest'
<1>1. /\ UNCHANGED <<gBlock, given, rep, replies, sigs, requests, lost, tip>>
      /\ UNCHANGED <<gSharesSent, gShares>>
      /\ main # "reply" /\ main' # "reply"
      BY DEF GiveUp, EnterLoop, Interrupt, Exit, netVars, poolVars, shareVars
<1>2. InSession' => InSession
      BY DEF GiveUp, EnterLoop, Interrupt, Exit, InSession
<1> QED BY <1>1, <1>2, FrameTip, FrameOrder, FrameWay, FrameMessages DEF Rest

LEMMA LeaveLoopRest ==
    ASSUME TypeOK, Rest, LeaveLoop
    PROVE  Rest'
<1>1. /\ replies' = << >> /\ sigs' = << >> /\ requests' = {}
      /\ main' \in {"exit", "connect"} /\ UNCHANGED <<gBlock, given, tip, gSharesSent, gShares>>
      BY DEF LeaveLoop, shareVars, poolVars
<1>2. AtMostTip'
      BY <1>1, EmptyDomain DEF Rest, AtMostTip
<1>3. WorkOnTheWay'
      BY <1>1, NoSession DEF InSession
<1> QED BY <1>1, <1>2, <1>3, NoMessages DEF Rest

LEMMA HandleReplyRest ==
    ASSUME TypeOK, Rest, HandleReply
    PROVE  Rest'
<1>1. PICK m \in Reply : /\ m = replies[1] /\ 1 \in DOMAIN replies /\ rep' = m
                         /\ HandleNewBlock(m.block, gBlock, requests)
      BY TailFacts DEF HandleReply, TypeOK
<1>2. /\ main' = "reply" /\ main = "loop"
      /\ UNCHANGED <<gSharesSent, gShares, sigs, tip, given, lost>>
      BY DEF HandleReply, shareVars, poolVars
<1>3. /\ \A k \in DOMAIN replies' : /\ k \in Nat /\ k + 1 \in DOMAIN replies
                                    /\ replies'[k] = replies[k + 1] /\ 1 < k + 1 /\ k + 1 # 1
      /\ \A k \in DOMAIN replies : k # 1 => /\ k - 1 \in DOMAIN replies'
                                            /\ replies'[k - 1] = replies[k]
  <2>1. replies' = Tail(replies) /\ replies \in Seq(Reply) /\ replies # << >>
        BY DEF HandleReply, TypeOK
  <2>2. \A k \in DOMAIN replies' : /\ k \in Nat /\ k + 1 \in DOMAIN replies
                                   /\ replies'[k] = replies[k + 1] /\ k + 1 # 1
        BY <2>1, TailFacts
  <2>3. \A k \in DOMAIN replies : k # 1 => /\ k - 1 \in DOMAIN replies'
                                           /\ replies'[k - 1] = replies[k]
        BY <2>1, TailFacts
  <2>4. \A k \in DOMAIN replies' : 1 < k + 1
    <3>1. \A k \in Nat : k + 1 # 1 => 1 < k + 1  OBVIOUS
    <3> QED BY <2>2, <3>1
  <2> QED BY <2>2, <2>3, <2>4
<1>4. /\ \/ gBlock' = gBlock /\ requests' = requests
         \/ gBlock' = m.block /\ requests' = requests \cup {GetWorkRequest(m.block)}
      /\ requests \subseteq requests'
      /\ \A r \in requests' : IsShare(r) => r \in requests
  <2>1. m.block \in Height \cup {0}  BY ReplyFacts
  <2>2. gBlock \in Height \cup {0} /\ requests \in SUBSET Request  BY DEF TypeOK
  <2> QED BY <1>1, <2>1, <2>2, NewBlockFacts
<1>5. AtMostTip'
  <2>1. gBlock' <= tip'
        BY <1>1, <1>2, <1>4 DEF Rest, AtMostTip
  <2> QED BY <1>2, <1>3, <2>1 DEF Rest, AtMostTip
<1>6. WorksInOrder'
  <2>1. ASSUME NEW k \in DOMAIN replies', NEW l \in DOMAIN replies', k < l
        PROVE  k + 1 < l + 1
        BY <1>3, <2>1
  <2>2. \A k, l \in DOMAIN replies' :
            k < l /\ Brings(replies'[k]) /\ Brings(replies'[l])
              => replies'[k].work <= replies'[l].work
        BY <1>3, <2>1 DEF Rest, WorksInOrder
  <2>3. \A k \in DOMAIN replies' :
          Brings(replies'[k]) => given <= replies'[k].work /\ replies'[k].work <= tip
        BY <1>3 DEF Rest, WorksInOrder
  <2>4. Brings(m) => /\ given <= m.work /\ m.work <= tip
                     /\ \A k \in DOMAIN replies' : Brings(replies'[k]) => m.work <= replies'[k].work
        BY <1>1, <1>3 DEF Rest, WorksInOrder
  <2> QED BY <1>1, <1>2, <2>2, <2>3, <2>4 DEF WorksInOrder, Brings, IsGetWork
<1>7. WorkOnTheWay'
  <2>1. CASE gBlock' = m.block /\ requests' = requests \cup {GetWorkRequest(m.block)}
        BY <2>1 DEF WorkOnTheWay, GetWorkRequest
  <2>2. CASE gBlock' = gBlock /\ requests' = requests
    <3> SUFFICES ASSUME ~ lost
                 PROVE  \/ given >= gBlock
                        \/ GetWorkRequest(gBlock) \in requests
                        \/ \E k \in DOMAIN replies' :
                              IsGetWork(replies'[k]) /\ replies'[k].work >= gBlock
                        \/ IsGetWork(m) /\ m.work >= gBlock
        BY <1>1, <1>2, <2>2 DEF WorkOnTheWay, IsGetWork, GetWorkRequest
    <3>1. \/ given >= gBlock
          \/ GetWorkRequest(gBlock) \in requests
          \/ \E k \in DOMAIN replies : IsGetWork(replies[k]) /\ replies[k].work >= gBlock
          BY <1>2 DEF Rest, WorkOnTheWay, InSession
    <3>2. ASSUME NEW k \in DOMAIN replies, IsGetWork(replies[k]), replies[k].work >= gBlock
          PROVE  \/ \E j \in DOMAIN replies' :
                       IsGetWork(replies'[j]) /\ replies'[j].work >= gBlock
                 \/ IsGetWork(m) /\ m.work >= gBlock
          BY <1>1, <1>3, <3>2
    <3> QED BY <3>1, <3>2
  <2> QED BY <1>4, <2>1, <2>2
<1>8. OneMessage'
  <2>1. ASSUME NEW k \in DOMAIN replies', NEW l \in DOMAIN replies', k + 1 = l + 1
        PROVE  k = l
        BY <1>3, <2>1
  <2>2. \A k, l \in DOMAIN replies' :
          IsShare(replies'[k]) /\ IsShare(replies'[l]) /\ replies'[k].id = replies'[l].id => k = l
        BY <1>3, <2>1 DEF Rest, OneMessage
  <2>3. \A r, s \in requests' : IsShare(r) /\ IsShare(s) /\ r.id = s.id => r = s
        BY <1>4 DEF Rest, OneMessage
  <2>4. \A r \in requests', k \in DOMAIN replies' :
          IsShare(r) /\ IsShare(replies'[k]) => r.id # replies'[k].id
        BY <1>3, <1>4 DEF Rest, OneMessage
  <2>5. IsShare(m) => /\ \A r \in requests' : IsShare(r) => r.id # m.id
                      /\ \A k \in DOMAIN replies' : IsShare(replies'[k]) => replies'[k].id # m.id
        BY <1>1, <1>3, <1>4 DEF Rest, OneMessage
  <2> QED BY <1>1, <2>2, <2>3, <2>4, <2>5 DEF OneMessage, IsShare
<1>9. EntriesThere'
      BY <1>1, <1>2, <1>3, <1>4 DEF Rest, EntriesThere, IsShare, Sent
<1> QED BY <1>5, <1>6, <1>7, <1>8, <1>9 DEF Rest

LEMMA HandleNewWorkRest ==
    ASSUME TypeOK, Rest, HandleNewWork
    PROVE  Rest'
<1>1. /\ main = "reply" /\ IsGetWork(rep) /\ main' = "loop"
      /\ given' = IF rep.work > 0 THEN rep.work ELSE given
      /\ UNCHANGED <<gBlock, requests, replies, sigs, tip, lost, gSharesSent, gShares>>
      BY DEF HandleNewWork, ReplyHandled, shareVars, poolVars, IsGetWork
<1>2. rep.work \in Nat /\ given \in Nat /\ gBlock \in Nat /\ tip \in Nat
      BY <1>1, ReplyFacts, Elements DEF TypeOK
<1>3. given <= given' /\ given' <= tip /\ given' \in Nat /\ rep.work <= given'
      BY <1>1, <1>2 DEF Rest, AtMostTip, WorksInOrder, Brings
<1>4. AtMostTip'
      BY <1>1, <1>3 DEF Rest, AtMostTip
<1>5. WorksInOrder'
  <2>1. \A k \in DOMAIN replies :
          Brings(replies[k]) => given' <= replies[k].work /\ replies[k].work <= tip
        BY <1>1, <1>2 DEF Rest, WorksInOrder, Brings
  <2> QED BY <1>1, <2>1 DEF Rest, WorksInOrder, Brings, IsGetWork
<1>6. WorkOnTheWay'
  <2> SUFFICES ASSUME ~ lost
               PROVE  \/ given' >= gBlock
                      \/ GetWorkRequest(gBlock) \in requests
                      \/ \E k \in DOMAIN replies :
                            IsGetWork(replies[k]) /\ replies[k].work >= gBlock
      BY <1>1 DEF WorkOnTheWay, IsGetWork, GetWorkRequest
  <2>1. InSession  BY <1>1 DEF InSession
  <2> QED BY <1>1, <1>2, <1>3, <2>1 DEF Rest, WorkOnTheWay
<1>7. OneMessage' /\ EntriesThere'
  <2>1. OneMessage'
        BY <1>1 DEF Rest, OneMessage, IsShare
  <2>2. EntriesThere'
        BY <1>1 DEF Rest, EntriesThere, IsShare, Sent
  <2> QED BY <2>1, <2>2
<1> QED BY <1>4, <1>5, <1>6, <1>7 DEF Rest

LEMMA HandleShareRest ==
    ASSUME TypeOK, Rest, HandleShare
    PROVE  Rest'
<1>1. /\ main = "reply" /\ rep.type = "SHARE" /\ IsShare(rep) /\ ~ IsGetWork(rep) /\ main' = "loop"
      /\ UNCHANGED <<gBlock, requests, replies, tip, lost, given>>
      /\ sigs' = sigs \/ sigs' = << >>
      BY DEF HandleShare, ReplyHandled, poolVars, IsShare, IsGetWork
<1>2. AtMostTip'
      BY <1>1, EmptyDomain DEF Rest, AtMostTip
<1>3. WorksInOrder'
      BY <1>1 DEF Rest, WorksInOrder, Brings, IsGetWork
<1>4. WorkOnTheWay'
      BY <1>1 DEF Rest, WorkOnTheWay, IsGetWork, GetWorkRequest, InSession
<1>5. OneMessage'
      BY <1>1 DEF Rest, OneMessage, IsShare
<1>6. EntriesThere'
  <2>1. gSharesSent' = [id \in DOMAIN gSharesSent \ {rep.id} |-> gSharesSent[id]]
        BY DEF HandleShare
  <2>2. \A r \in requests : IsShare(r) => Sent(r) /\ r.id # rep.id
        BY <1>1 DEF Rest, EntriesThere, OneMessage
  <2>3. \A k \in DOMAIN replies : IsShare(replies[k]) => Sent(replies[k]) /\ replies[k].id # rep.id
        BY <1>1 DEF Rest, EntriesThere, OneMessage
  <2>4. \A c \in Counter : gShares'[0][c] = 0
    <3>1. rep.length \in Length /\ rep.length # 0 /\ SentLength(rep.id) = rep.length
          BY <1>1, ReplyFacts, LengthAssumption DEF Rest, EntriesThere, Sent, SentLength, TypeOK
    <3>2. PICK c : \/ gShares' = gShares
                   \/ gShares' = [gShares EXCEPT ![rep.length][c] = @ + 1]
          BY <3>1 DEF HandleShare
    <3>3. gShares'[0] = gShares[0]
          BY <3>1, <3>2 DEF TypeOK
    <3> QED BY <3>3 DEF Rest, EntriesThere
  <2>5. \A r \in requests : IsShare(r) => Sent(r)'
        BY <2>1, <2>2 DEF Sent
  <2>6. \A k \in DOMAIN replies : IsShare(replies[k]) =>
           /\ replies[k].id \in DOMAIN gSharesSent'
           /\ gSharesSent'[replies[k].id] = replies[k].length
        BY <2>1, <2>3 DEF Sent
  <2> QED BY <1>1, <2>4, <2>5, <2>6 DEF EntriesThere, IsShare, Sent
<1> QED BY <1>2, <1>3, <1>4, <1>5, <1>6 DEF Rest

LEMMA HandleOtherRest ==
    ASSUME TypeOK, Rest, HandleOther
    PROVE  Rest'
<1>1. /\ main = "reply" /\ ~ IsShare(rep) /\ ~ IsGetWork(rep) /\ main' = "loop"
      /\ UNCHANGED <<gBlock, requests, replies, tip, lost, given, sigs, gSharesSent, gShares>>
      BY DEF HandleOther, ReplyHandled, poolVars, shareVars, IsShare, IsGetWork
<1>2. WorksInOrder'
      BY <1>1 DEF Rest, WorksInOrder, Brings, IsGetWork
<1>3. WorkOnTheWay'
      BY <1>1 DEF Rest, WorkOnTheWay, IsGetWork, GetWorkRequest, InSession
<1>4. OneMessage'
      BY <1>1 DEF Rest, OneMessage, IsShare
<1>5. EntriesThere'
      BY <1>1 DEF Rest, EntriesThere, IsShare, Sent
<1> QED BY <1>1, <1>2, <1>3, <1>4, <1>5, FrameTip DEF Rest

LEMMA HandleSignalRest ==
    ASSUME TypeOK, Rest, HandleSignal
    PROVE  Rest'
<1>1. PICK h \in Height \cup {0} : /\ h = sigs[1] /\ 1 \in DOMAIN sigs /\ h = Head(sigs)
                                   /\ \A k \in DOMAIN sigs' : k + 1 \in DOMAIN sigs
                                                             /\ sigs'[k] = sigs[k + 1]
      BY TailFacts DEF HandleSignal, TypeOK, SHUTDOWN
<1>2. /\ main = "loop" /\ main' \in {"loop", "end"}
      /\ UNCHANGED <<replies, rep, tip, lost, given, gSharesSent, gShares>>
      BY DEF HandleSignal, shareVars, poolVars
<1>3. /\ \/ gBlock' = gBlock /\ requests' = requests
         \/ gBlock' = h /\ requests' = requests \cup {GetWorkRequest(h)}
      /\ requests \subseteq requests'
      /\ \A r \in requests' : IsShare(r) => r \in requests
  <2>1. CASE h = SHUTDOWN
        BY <1>1, <2>1 DEF HandleSignal
  <2>2. CASE h # SHUTDOWN
    <3>1. HandleNewBlock(h, gBlock, requests)
          BY <1>1, <2>2 DEF HandleSignal
    <3>2. gBlock \in Height \cup {0} /\ requests \in SUBSET Request  BY DEF TypeOK
    <3> QED BY <3>1, <3>2, NewBlockFacts
  <2> QED BY <2>1, <2>2
<1>4. AtMostTip'
  <2>1. gBlock' <= tip
        BY <1>1, <1>3 DEF Rest, AtMostTip
  <2> QED BY <1>1, <1>2, <2>1 DEF Rest, AtMostTip
<1>5. WorksInOrder' /\ OneMessage' /\ EntriesThere'
      BY <1>2, <1>3, FrameOrder, FrameMessages DEF Rest
<1>6. WorkOnTheWay'
  <2>1. CASE gBlock' = h /\ requests' = requests \cup {GetWorkRequest(h)}
        BY <2>1 DEF WorkOnTheWay, GetWorkRequest
  <2>2. CASE gBlock' = gBlock /\ requests' = requests
        BY <1>2, <2>2, FrameWay DEF Rest, InSession
  <2> QED BY <1>3, <2>1, <2>2
<1> QED BY <1>4, <1>5, <1>6 DEF Rest

LEMMA SubmitShareRest ==
    ASSUME TypeOK, Rest, SubmitShare
    PROVE  Rest'
<1>1. PICK l \in Length, n \in Nat :
         /\ n = gNextReqID + 1 /\ n \notin DOMAIN gSharesSent
         /\ requests' = requests \cup {[type |-> "SHARE", id |-> n, length |-> l]}
         /\ gSharesSent' = [id \in DOMAIN gSharesSent \cup {n} |->
                               IF id = n THEN l ELSE gSharesSent[id]]
  <2>1. PICK l \in Length, n \in Nat : l = Head(shares) /\ n = gNextReqID + 1 /\ gNextReqID' = n
        BY TailFacts DEF SubmitShare, TypeOK
  <2>2. n \notin DOMAIN gSharesSent
    <3>1. n \notin 1 .. gNextReqID  BY <2>1 DEF TypeOK
    <3> QED BY <3>1 DEF TypeOK
  <2> QED BY <2>1, <2>2 DEF SubmitShare
<1>2. /\ main = "loop" /\ main' = "loop"
      /\ UNCHANGED <<gBlock, replies, rep, tip, lost, given, sigs, gShares>>
      BY DEF SubmitShare, poolVars
<1>3. AtMostTip' /\ WorksInOrder'
      BY <1>2, FrameTip, FrameOrder DEF Rest
<1>4. WorkOnTheWay'
      BY <1>1, <1>2, FrameWay DEF Rest, InSession
<1>5. OneMessage'
  <2> DEFINE new == [type |-> "SHARE", id |-> n, length |-> l]
  <2>1. new.id = n  OBVIOUS
  <2>2. \A r \in requests : IsShare(r) => r.id # n
        BY <1>1 DEF Rest, EntriesThere, Sent
  <2>3. \A k \in DOMAIN replies : IsShare(replies[k]) => replies[k].id # n
        BY <1>1 DEF Rest, EntriesThere, Sent
  <2> HIDE DEF new
  <2>4. requests' = requests \cup {new}
        BY <1>1 DEF new
  <2>5. \A r, s \in requests' : IsShare(r) /\ IsShare(s) /\ r.id = s.id => r = s
        BY <2>1, <2>2, <2>4 DEF Rest, OneMessage
  <2>6. \A r \in requests', k \in DOMAIN replies :
          IsShare(r) /\ IsShare(replies[k]) => r.id # replies[k].id
        BY <2>1, <2>3, <2>4 DEF Rest, OneMessage
  <2> QED BY <1>2, <2>5, <2>6 DEF Rest, OneMessage, IsShare
<1>6. EntriesThere'
  <2>1. ASSUME NEW m, Sent(m)
        PROVE  m.id \in DOMAIN gSharesSent' /\ gSharesSent'[m.id] = m.length
        BY <1>1, <2>1 DEF Sent
  <2>2. \A r \in requests' : IsShare(r) =>
           r.id \in DOMAIN gSharesSent' /\ gSharesSent'[r.id] = r.length
    <3>1. ASSUME NEW r, r = [type |-> "SHARE", id |-> n, length |-> l]
          PROVE  r.id \in DOMAIN gSharesSent' /\ gSharesSent'[r.id] = r.length
          BY <1>1, <3>1
    <3>2. ASSUME NEW r \in requests, IsShare(r)
          PROVE  r.id \in DOMAIN gSharesSent' /\ gSharesSent'[r.id] = r.length
          BY <2>1, <3>2 DEF Rest, EntriesThere
    <3> QED BY <1>1, <3>1, <3>2
  <2>3. \A k \in DOMAIN replies : IsShare(replies[k]) =>
           /\ replies[k].id \in DOMAIN gSharesSent'
           /\ gSharesSent'[replies[k].id] = replies[k].length
        BY <2>1 DEF Rest, EntriesThere
  <2> QED BY <1>2, <2>2, <2>3 DEF Rest, EntriesThere, IsShare, Sent
<1> QED BY <1>3, <1>4, <1>5, <1>6 DEF Rest

LEMMA HandleTimerRest ==
    ASSUME TypeOK, Rest, HandleTimer
    PROVE  Rest'
<1>1. /\ main = "loop" /\ main' \in {"loop", "end"}
      /\ UNCHANGED <<gBlock, replies, rep, tip, lost, given, sigs, gSharesSent, gShares>>
      /\ requests \subseteq requests'
      /\ \A r \in requests' : IsShare(r) => r \in requests
      BY DEF HandleTimer, poolVars, shareVars, IsShare
<1> QED BY <1>1, FrameTip, FrameOrder, FrameWay, FrameMessages DEF Rest, InSession

LEMMA ThreadSendsShareRest ==
    ASSUME TypeOK, Rest, NEW length \in Length, ThreadSendsShare(length)
    PROVE  Rest'
<1>1. UNCHANGED <<main, gBlock, replies, rep, tip, lost, given, sigs, requests,
                  gSharesSent, gShares>>
      BY DEF ThreadSendsShare, netVars, poolVars, shareVars
<1> QED BY <1>1, FrameTip, FrameOrder, FrameWay, FrameMessages DEF Rest, InSession

-----------------------------------------------------------------------------
(* The steps of the pool and of the network.                               *)

LEMMA PoolAnswersRest ==
    ASSUME TypeOK, Rest, NEW r \in requests, PoolAnswers(r)
    PROVE  Rest'
<1>1. PICK a \in Reply :
         /\ replies' = Append(replies, a)
         /\ lost' = (lost \/ (r.type = "GETWORK" /\ a.work = 0))
         /\ a.type = r.type /\ a.block \in {0, tip}
         /\ IsGetWork(a) => a.work \in {0, tip}
         /\ IsShare(a) => a.id = r.id /\ a.length = r.length
      BY AnswerFacts DEF PoolAnswers, TypeOK
<1>2. PICK n \in Nat :
         /\ \A k \in DOMAIN replies : /\ k \in Nat /\ k \in DOMAIN replies'
                                      /\ replies'[k] = replies[k] /\ k < n
         /\ \A k \in DOMAIN replies' : k \in DOMAIN replies \/ k = n
         /\ n \in DOMAIN replies' /\ replies'[n] = a
  <2>1. replies \in Seq(Reply)  BY DEF TypeOK
  <2>2. PICK n \in Nat : n = Len(replies) + 1
        BY <2>1, LenProperties
  <2> QED BY <1>1, <2>1, <2>2, AppendFacts
<1>3. /\ requests' = requests \ {r}
      /\ UNCHANGED <<main, gBlock, rep, tip, given, sigs, gSharesSent, gShares>>
      BY DEF PoolAnswers, PoolLeavesAlone, shareVars, poolVars
<1>4. tip \in Nat /\ gBlock \in Nat /\ given \in Nat
      BY Elements
<1>5. AtMostTip'
      BY <1>1, <1>2, <1>3, <1>4 DEF Rest, AtMostTip
<1>6. WorksInOrder'
  <2>1. Brings(a) => a.work = tip
        BY <1>1, <1>4 DEF Brings
  <2>2. \A k \in DOMAIN replies' :
          Brings(replies'[k]) => given <= replies'[k].work /\ replies'[k].work <= tip
        BY <1>2, <1>4, <2>1 DEF Rest, AtMostTip, WorksInOrder
  <2>3. ASSUME NEW k \in DOMAIN replies', NEW l \in DOMAIN replies',
               k < l, Brings(replies'[k]), Brings(replies'[l])
        PROVE  replies'[k].work <= replies'[l].work
    <3>1. CASE l = n
          BY <1>2, <2>1, <2>2, <2>3, <3>1
    <3>2. CASE l # n
      <4>1. l \in DOMAIN replies /\ k # n /\ k \in DOMAIN replies
        <5>1. l \in DOMAIN replies /\ l < n /\ l \in Nat  BY <1>2, <3>2
        <5>2. k # n  BY <2>3, <5>1
        <5> QED BY <1>2, <5>1, <5>2
      <4> QED BY <1>2, <2>3, <4>1 DEF Rest, WorksInOrder
    <3> QED BY <3>1, <3>2
  <2>4. main = "reply" /\ Brings(rep) =>
           \A k \in DOMAIN replies' : Brings(replies'[k]) => rep.work <= replies'[k].work
        BY <1>2, <2>1 DEF Rest, WorksInOrder
  <2> QED BY <1>3, <2>2, <2>3, <2>4 DEF Rest, WorksInOrder, Brings, IsGetWork
<1>7. WorkOnTheWay'
  <2> SUFFICES ASSUME InSession, ~ lost'
               PROVE  \/ given >= gBlock
                      \/ GetWorkRequest(gBlock) \in requests'
                      \/ \E k \in DOMAIN replies' :
                            IsGetWork(replies'[k]) /\ replies'[k].work >= gBlock
                      \/ main = "reply" /\ IsGetWork(rep) /\ rep.work >= gBlock
      BY <1>3 DEF WorkOnTheWay, IsGetWork, GetWorkRequest, InSession
  <2>1. \/ given >= gBlock
        \/ GetWorkRequest(gBlock) \in requests
        \/ \E k \in DOMAIN replies : IsGetWork(replies[k]) /\ replies[k].work >= gBlock
        \/ main = "reply" /\ IsGetWork(rep) /\ rep.work >= gBlock
        BY <1>1 DEF Rest, WorkOnTheWay
  <2>2. CASE GetWorkRequest(gBlock) \in requests
    <3>1. CASE GetWorkRequest(gBlock) # r
          BY <1>3, <2>2, <3>1
    <3>2. CASE GetWorkRequest(gBlock) = r
      <4>1. r.type = "GETWORK" /\ IsGetWork(a)
            BY <1>1, <3>2 DEF GetWorkRequest, IsGetWork
      <4>2. a.work = tip /\ a.work >= gBlock
            BY <1>1, <1>4, <4>1 DEF Rest, AtMostTip
      <4> QED BY <1>2, <4>1, <4>2
    <3> QED BY <3>1, <3>2
  <2>3. CASE \E k \in DOMAIN replies : IsGetWork(replies[k]) /\ replies[k].work >= gBlock
        BY <1>2, <2>3
  <2> QED BY <2>1, <2>2, <2>3
<1>8. OneMessage'
  <2>1. IsShare(a) => IsShare(r) /\ a.id = r.id
        BY <1>1 DEF IsShare
  <2>2. IsShare(a) => \A s \in requests' : IsShare(s) => s.id # a.id
        BY <1>3, <2>1 DEF Rest, OneMessage
  <2>3. IsShare(a) => \A k \in DOMAIN replies : IsShare(replies[k]) => replies[k].id # a.id
        BY <2>1 DEF Rest, OneMessage
  <2>4. \A s \in requests', k \in DOMAIN replies' :
          IsShare(s) /\ IsShare(replies'[k]) => s.id # replies'[k].id
    <3>1. \A s \in requests' : s \in requests  BY <1>3
    <3> QED BY <1>2, <2>2, <3>1 DEF Rest, OneMessage
  <2>5. \A k, l \in DOMAIN replies' :
          IsShare(replies'[k]) /\ IsShare(replies'[l]) /\ replies'[k].id = replies'[l].id => k = l
        BY <1>2, <2>3 DEF Rest, OneMessage
  <2>6. main = "reply" /\ IsShare(rep) =>
           \A k \in DOMAIN replies' : IsShare(replies'[k]) => replies'[k].id # rep.id
        BY <1>2, <2>1 DEF Rest, OneMessage
  <2> QED BY <1>3, <2>4, <2>5, <2>6 DEF Rest, OneMessage, IsShare
<1>9. EntriesThere'
  <2>1. IsShare(a) => Sent(a)
        BY <1>1 DEF Rest, EntriesThere, IsShare, Sent
  <2>2. \A k \in DOMAIN replies' : IsShare(replies'[k]) => Sent(replies'[k])
        BY <1>2, <2>1 DEF Rest, EntriesThere
  <2> QED BY <1>3, <2>2 DEF Rest, EntriesThere, IsShare, Sent
<1> QED BY <1>5, <1>6, <1>7, <1>8, <1>9 DEF Rest

LEMMA PoolNewBlockRest ==
    ASSUME TypeOK, Rest, NEW h \in Height, PoolNewBlock(h)
    PROVE  Rest'
<1>1. /\ UNCHANGED <<main, gBlock, rep, replies, given, requests, lost, gSharesSent, gShares>>
      /\ tip' = h /\ h > tip
      /\ sigs' = Append(sigs, h) \/ sigs' = sigs
      BY DEF PoolNewBlock, PoolLeavesAlone, shareVars
<1>2. /\ tip \in Nat /\ h \in Nat /\ gBlock \in Nat /\ given \in Nat
      /\ \A k \in DOMAIN sigs : sigs[k] \in Nat
      /\ \A k \in DOMAIN replies : replies[k].block \in Nat
      /\ \A k \in DOMAIN replies : Brings(replies[k]) => replies[k].work \in Nat
      /\ Brings(rep) => rep.work \in Nat
      BY Elements, ReplyFacts, HeightAssumption DEF TypeOK, Brings
<1>3. \A k \in DOMAIN sigs' : sigs'[k] <= h
  <2>1. CASE sigs' = sigs
        BY <1>1, <1>2, <2>1 DEF Rest, AtMostTip
  <2>2. CASE sigs' = Append(sigs, h)
    <3>1. sigs \in Seq(Height \cup {SHUTDOWN}) /\ h \in Height \cup {SHUTDOWN}
          BY DEF TypeOK
    <3>2. \A k \in DOMAIN sigs' :
             \/ k \in DOMAIN sigs /\ sigs'[k] = sigs[k]
             \/ sigs'[k] = h
          BY <2>2, <3>1, AppendFacts
    <3> QED BY <1>1, <1>2, <3>2 DEF Rest, AtMostTip
  <2> QED BY <1>1, <2>1, <2>2
<1>4. AtMostTip'
      BY <1>1, <1>2, <1>3 DEF Rest, AtMostTip
<1>5. WorksInOrder'
      BY <1>1, <1>2 DEF Rest, WorksInOrder, Brings, IsGetWork
<1> QED BY <1>1, <1>4, <1>5, FrameWay, FrameMessages DEF Rest, InSession

LEMMA PoolStopsRest ==
    ASSUME TypeOK, Rest, PoolStops \/ PoolStarts
    PROVE  Rest'
<1>1. /\ UNCHANGED <<main, gBlock, rep, replies, tip, given, requests, lost, gSharesSent, gShares>>
      /\ sigs' = Append(sigs, SHUTDOWN) \/ sigs' = sigs
      BY DEF PoolStops, PoolStarts, PoolLeavesAlone, shareVars, netVars
<1>2. AtMostTip'
  <2>1. CASE sigs' = sigs
        BY <1>1, <2>1, FrameTip DEF Rest
  <2>2. CASE sigs' = Append(sigs, SHUTDOWN)
    <3>1. sigs \in Seq(Height \cup {SHUTDOWN}) /\ SHUTDOWN \in Height \cup {SHUTDOWN} /\ 0 <= tip
          BY Elements DEF TypeOK
    <3>2. \A k \in DOMAIN sigs' :
             \/ k \in DOMAIN sigs /\ sigs'[k] = sigs[k]
             \/ sigs'[k] = SHUTDOWN
          BY <2>2, <3>1, AppendFacts
    <3> QED BY <1>1, <3>1, <3>2 DEF Rest, AtMostTip, SHUTDOWN
  <2> QED BY <1>1, <2>1, <2>2
<1> QED BY <1>1, <1>2, FrameOrder, FrameWay, FrameMessages DEF Rest, InSession

LEMMA NetworkLosesRest ==
    ASSUME TypeOK, Rest, NetworkLoses
    PROVE  Rest'
<1>1. UNCHANGED <<main, gBlock, rep, tip, given, gSharesSent, gShares>>
      BY DEF NetworkLoses, PoolLeavesAlone, shareVars, poolVars
<1>2. ASSUME NEW r \in requests, requests' = requests \ {r},
             lost' = (lost \/ IsGetWork(r)), UNCHANGED <<replies, sigs>>
      PROVE  Rest'
  <2>1. WorkOnTheWay'
    <3>1. ~ lost' => GetWorkRequest(gBlock) # r /\ ~ lost
      <4>1. ASSUME GetWorkRequest(gBlock) = r PROVE IsGetWork(r)
            BY <4>1 DEF IsGetWork, GetWorkRequest
      <4> QED BY <1>2, <4>1
    <3> QED BY <1>1, <1>2, <3>1 DEF Rest, WorkOnTheWay, IsGetWork, GetWorkRequest, InSession
  <2> QED BY <1>1, <1>2, <2>1, FrameTip, FrameOrder, FrameMessages DEF Rest
<1>3. ASSUME replies # << >>, replies' = Tail(replies),
             lost' = (lost \/ IsGetWork(Head(replies))), UNCHANGED <<requests, sigs>>
      PROVE  Rest'
  <2>1. replies \in Seq(Reply)  BY DEF TypeOK
  <2>2. Dropped(1) /\ \A k \in DOMAIN replies : k \in Nat
    <3>1. \A k \in DOMAIN replies : k \in Nat
          BY <2>1, LenProperties
    <3> QED BY <1>3, <2>1, <3>1, TailFacts DEF Dropped
  <2>3. /\ \A k \in DOMAIN replies : k # 1 => /\ k - 1 \in DOMAIN replies'
                                              /\ replies'[k - 1] = replies[k]
        /\ replies[1] = Head(replies)
        BY <1>3, <2>1, TailFacts
  <2>4. AtMostTip'
        BY <1>1, <1>3, <2>2 DEF Rest, AtMostTip, Dropped
  <2>5. WorksInOrder'
        BY <1>1, <2>2, DroppedOrder DEF Rest
  <2>6. WorkOnTheWay'
    <3> SUFFICES ASSUME InSession, ~ lost'
                 PROVE  \/ given >= gBlock
                        \/ GetWorkRequest(gBlock) \in requests
                        \/ \E k \in DOMAIN replies' :
                              IsGetWork(replies'[k]) /\ replies'[k].work >= gBlock
                        \/ main = "reply" /\ IsGetWork(rep) /\ rep.work >= gBlock
        BY <1>1, <1>3 DEF WorkOnTheWay, IsGetWork, GetWorkRequest, InSession
    <3>1. ASSUME NEW k \in DOMAIN replies, IsGetWork(replies[k]), replies[k].work >= gBlock
          PROVE  \E j \in DOMAIN replies' : IsGetWork(replies'[j]) /\ replies'[j].work >= gBlock
      <4>1. k # 1  BY <1>3, <2>3, <3>1
      <4> QED BY <2>3, <3>1, <4>1
    <3> QED BY <1>3, <3>1 DEF Rest, WorkOnTheWay
  <2>7. OneMessage' /\ EntriesThere'
        BY <1>1, <1>3, <2>2, DroppedMessages DEF Rest
  <2> QED BY <2>4, <2>5, <2>6, <2>7 DEF Rest
<1>4. ASSUME sigs # << >>, sigs' = Tail(sigs), UNCHANGED <<requests, replies, lost>>
      PROVE  Rest'
  <2>1. AtMostTip'
    <3>1. \A k \in DOMAIN sigs' : k + 1 \in DOMAIN sigs /\ sigs'[k] = sigs[k + 1]
          BY <1>4, TailFacts DEF TypeOK
    <3> QED BY <1>1, <1>4, <3>1 DEF Rest, AtMostTip
  <2> QED BY <1>1, <1>4, <2>1, FrameOrder, FrameWay, FrameMessages DEF Rest, InSession
<1> QED BY <1>2, <1>3, <1>4 DEF NetworkLoses

-----------------------------------------------------------------------------

LEMMA NextRest == TypeOK /\ Rest /\ [Next]_vars => Rest'
<1> SUFFICES ASSUME TypeOK, Rest, [Next]_vars PROVE Rest'
    OBVIOUS
<1>1. CASE Client
      BY <1>1, StartSessionRest, SessionRest, LeaveLoopRest, HandleReplyRest,
         HandleNewWorkRest, HandleShareRest, HandleOtherRest, HandleSignalRest,
         SubmitShareRest, HandleTimerRest DEF Client
<1>2. CASE Pool
      BY <1>2, PoolAnswersRest, PoolNewBlockRest, PoolStopsRest, NetworkLosesRest DEF Pool
<1>3. CASE Threads  BY <1>3, ThreadSendsShareRest DEF Threads
<1>4. CASE UNCHANGED vars
  <2>1. UNCHANGED <<main, gBlock, rep, replies, sigs, tip, given, requests, lost,
                    gSharesSent, gShares>>
        BY <1>4 DEF vars, shareVars, netVars, poolVars
  <2> QED BY <2>1, FrameTip, FrameOrder, FrameWay, FrameMessages DEF Rest, InSession
<1> QED BY <1>1, <1>2, <1>3, <1>4 DEF Next

LEMMA AlwaysIInv == Spec => []IInv
<1>1. Init => IInv  BY InitType, InitRest DEF IInv
<1>2. IInv /\ [Next]_vars => IInv'  BY NextType, NextRest DEF IInv
<1> QED BY <1>1, <1>2, PTL DEF Spec

\* The types of the client, of the messages in flight and of the pool.
THEOREM TypeCorrect == Spec => []TypeOK
BY AlwaysIInv, PTL DEF IInv

\* However late, in whatever order and how often requests are answered, blocks
\* announced and connections lost: while a session has lost no GETWORK and no
\* answer to one, a work for the block the client knows has been published, or
\* is in a request or an answer on its way.
THEOREM WorkComes == Spec => []WorkOnTheWay
<1>1. IInv => WorkOnTheWay  BY DEF IInv, Rest
<1> QED BY <1>1, AlwaysIInv, PTL

\* Every answer to a share finds the length it was sent with, in whatever order
\* the answers come (HandleReply, baseclient.cpp lines 227-251, looks it up with
\* operator[], which would invent a length of 0).
THEOREM LengthsKnown == Spec => []LengthKnown
<1>1. IInv => LengthKnown
      BY DEF IInv, Rest, EntriesThere, LengthKnown, Sent, SentLength
<1> QED BY <1>1, AlwaysIInv, PTL

-----------------------------------------------------------------------------
(* The sum of the counters.                                                *)

Cells == Length \X Counter

\* The recursive function total of CountedShares, for the counters g.
Sums(g, total) ==
    total = [S \in SUBSET Cells |->
                IF S = {} THEN 0
                ELSE LET x == CHOOSE x \in S : TRUE
                     IN  g[x[1]][x[2]] + total[S \ {x}]]

LEMMA CellsFinite ==
    /\ IsFiniteSet(Cells) /\ Cardinality(Cells) \in Nat
    /\ \A S \in SUBSET Cells : IsFiniteSet(S) /\ Cardinality(S) \in 0 .. Cardinality(Cells)
    /\ \A S \in SUBSET Cells : Cardinality(S) = 0 <=> S = {}
    /\ \A S \in SUBSET Cells : \A x \in S : Cardinality(S \ {x}) = Cardinality(S) - 1
<1>1. IsFiniteSet(Counter)
  <2>1. IsFiniteSet({"accepted"})  BY FS_Singleton
  <2>2. IsFiniteSet({"accepted"} \cup {"invalid"})  BY <2>1, FS_AddElement
  <2>3. IsFiniteSet({"accepted"} \cup {"invalid"} \cup {"stale"})  BY <2>2, FS_AddElement
  <2>4. IsFiniteSet({"accepted"} \cup {"invalid"} \cup {"stale"} \cup {"duplicate"})
        BY <2>3, FS_AddElement
  <2>5. Counter = {"accepted"} \cup {"invalid"} \cup {"stale"} \cup {"duplicate"}
        BY DEF Counter
  <2> QED BY <2>4, <2>5
<1>2. IsFiniteSet(Cells)
      BY <1>1, LengthAssumption, FS_Product DEF Cells
<1>3. Cardinality(Cells) \in Nat
      BY <1>2, FS_CardinalityType
<1>4. ASSUME NEW S \in SUBSET Cells
      PROVE  /\ IsFiniteSet(S) /\ Cardinality(S) \in 0 .. Cardinality(Cells)
             /\ Cardinality(S) = 0 <=> S = {}
             /\ \A x \in S : Cardinality(S \ {x}) = Cardinality(S) - 1
  <2>1. IsFiniteSet(S) /\ Cardinality(S) <= Cardinality(Cells)
        BY <1>2, FS_Subset
  <2>2. Cardinality(S) \in Nat
        BY <2>1, FS_CardinalityType
  <2>3. Cardinality(S) = 0 <=> S = {}
        BY <2>1, FS_EmptySet
  <2>4. \A x \in S : Cardinality(S \ {x}) = Cardinality(S) - 1
        BY <2>1, FS_RemoveElement
  <2> QED BY <1>3, <2>1, <2>2, <2>3, <2>4
<1> QED BY <1>2, <1>3, <1>4

\* What holds of {} and of each set that it holds of with any element less
\* holds of every set of counters.
LEMMA CellsInduction ==
    ASSUME NEW Good, {} \in Good,
           \A S \in SUBSET Cells : S # {} /\ (\A x \in S : S \ {x} \in Good) => S \in Good
    PROVE  \A S \in SUBSET Cells : S \in Good
<1> DEFINE n == Cardinality(Cells)
           Sizes == {m \in 0 .. n : \A S \in SUBSET Cells : Cardinality(S) <= m => S \in Good}
<1>1. n \in Nat  BY CellsFinite
<1>2. 0 \in Sizes
  <2>1. \A S \in SUBSET Cells : Cardinality(S) <= 0 => S = {}
        BY CellsFinite
  <2>2. \A S \in SUBSET Cells : Cardinality(S) <= 0 => S \in Good
        BY <2>1
  <2>3. 0 \in 0 .. n
        BY <1>1
  <2> QED BY <2>2, <2>3
<1>3. ASSUME NEW m \in 0 .. n, m < n, m \in Sizes PROVE m + 1 \in Sizes
  <2>1. ASSUME NEW S \in SUBSET Cells, Cardinality(S) <= m + 1 PROVE S \in Good
    <3>1. CASE S = {}  BY <3>1
    <3>2. CASE S # {}
      <4>1. \A x \in S : Cardinality(S \ {x}) <= m
            BY <1>1, <2>1, CellsFinite
      <4>2. \A x \in S : S \ {x} \in SUBSET Cells
            OBVIOUS
      <4>3. \A x \in S : S \ {x} \in Good
            BY <1>3, <4>1, <4>2
      <4> QED BY <3>2, <4>3
    <3> QED BY <3>1, <3>2
  <2>2. m + 1 \in 0 .. n
        BY <1>1, <1>3
  <2> QED BY <2>1, <2>2
<1>4. n \in 0 .. n  BY <1>1
<1> HIDE DEF Sizes, n
<1>5. n \in Sizes
      BY <1>1, <1>2, <1>3, <1>4, InductionUpTo
<1> QED BY <1>5, CellsFinite DEF Sizes, n

\* There is such a function; it is built for larger and larger sets.
LEMMA SumsExist ==
    ASSUME NEW g
    PROVE  \E total : Sums(g, total)
<1> DEFINE n == Cardinality(Cells)
           Pick(S) == CHOOSE x \in S : TRUE
           Sum(f, S) == IF S = {} THEN 0
                        ELSE g[Pick(S)[1]][Pick(S)[2]] + f[S \ {Pick(S)}]
           Holds(f, m) == \A S \in SUBSET Cells : Cardinality(S) <= m => f[S] = Sum(f, S)
           Sizes == {m \in 0 .. n : \E f : Holds(f, m)}
<1>1. n \in Nat  BY CellsFinite
<1>2. \A S \in SUBSET Cells : S # {} => Pick(S) \in S
      OBVIOUS
<1>3. 0 \in Sizes
  <2> DEFINE f == [S \in SUBSET Cells |-> 0]
  <2>1. \A S \in SUBSET Cells : Cardinality(S) <= 0 => S = {}
        BY CellsFinite
  <2>2. Holds(f, 0)
        BY <2>1
  <2> HIDE DEF Holds
  <2> QED BY <1>1, <2>2
<1>4. ASSUME NEW m \in 0 .. n, m < n, m \in Sizes PROVE m + 1 \in Sizes
  <2>1. PICK f : Holds(f, m)
        BY <1>4
  <2> DEFINE h == [S \in SUBSET Cells |-> Sum(f, S)]
  <2>2. \A S \in SUBSET Cells : Cardinality(S) <= m => h[S] = f[S]
        BY <2>1
  <2>3. ASSUME NEW S \in SUBSET Cells, Cardinality(S) <= m + 1
        PROVE  h[S] = Sum(h, S)
    <3>1. CASE S = {}  BY <3>1
    <3>2. CASE S # {}
      <4>1. Pick(S) \in S  BY <1>2, <3>2
      <4>2. S \ {Pick(S)} \in SUBSET Cells
            OBVIOUS
      <4>3. Cardinality(S \ {Pick(S)}) <= m
        <5>1. Cardinality(S \ {Pick(S)}) = Cardinality(S) - 1
              BY <4>1, CellsFinite
        <5>2. Cardinality(S) \in Nat
              BY <1>1, CellsFinite
        <5> QED BY <1>1, <2>3, <5>1, <5>2
      <4>4. h[S \ {Pick(S)}] = f[S \ {Pick(S)}]
            BY <2>2, <4>2, <4>3
      <4> HIDE DEF Pick
      <4> QED BY <3>2, <4>4
    <3> QED BY <3>1, <3>2
  <2>4. Holds(h, m + 1)
        BY <2>3
  <2>5. m + 1 \in 0 .. n
        BY <1>1, <1>4
  <2> HIDE DEF Holds, h
  <2> QED BY <2>4, <2>5
<1>5. n \in Sizes
  <2>1. n \in 0 .. n  BY <1>1
  <2> HIDE DEF Sizes, n
  <2> QED BY <1>1, <1>3, <1>4, <2>1, InductionUpTo
<1>6. PICK f : Holds(f, n)
      BY <1>5
<1> DEFINE total == [S \in SUBSET Cells |-> Sum(f, S)]
<1>7. \A S \in SUBSET Cells : total[S] = f[S]
      BY <1>6, CellsFinite
<1>8. \A S \in SUBSET Cells : total[S] = Sum(total, S)
  <2> TAKE S \in SUBSET Cells
  <2>1. S \ {Pick(S)} \in SUBSET Cells
        OBVIOUS
  <2>2. total[S \ {Pick(S)}] = f[S \ {Pick(S)}]
        BY <1>7, <2>1
  <2> HIDE DEF Pick
  <2> QED BY <2>2
<1>9. Sums(g, total)
      BY <1>8 DEF Sums
<1> QED BY <1>9

LEMMA CountedSharesIs ==
    \E total : Sums(gShares, total) /\ CountedShares = total[Cells]
<1> DEFINE total[S \in SUBSET (Length \X Counter)] ==
            IF S = {} THEN 0
            ELSE LET x == CHOOSE x \in S : TRUE
                 IN  gShares[x[1]][x[2]] + total[S \ {x}]
<1>1. \E f : Sums(gShares, f)
      BY SumsExist
<1>2. Sums(gShares, total)
      BY <1>1 DEF Sums, Cells
<1>3. CountedShares = total[Cells]
      BY DEF CountedShares, Cells
<1> QED BY <1>2, <1>3

\* Counters that differ in one cell by one have sums that differ by one.
LEMMA SumsGrow ==
    ASSUME NEW g, NEW h, NEW f, NEW k, NEW c, Sums(g, f), Sums(h, k),
           \A x \in Cells : g[x[1]][x[2]] \in Nat,
           c \in Cells, h[c[1]][c[2]] = g[c[1]][c[2]] + 1,
           \A x \in Cells : x # c => h[x[1]][x[2]] = g[x[1]][x[2]]
    PROVE  /\ f[Cells] \in Nat
           /\ k[Cells] = f[Cells] + 1
<1> DEFINE Good == {S \in SUBSET Cells :
                       /\ f[S] \in Nat
                       /\ k[S] = f[S] + IF c \in S THEN 1 ELSE 0}
<1>1. {} \in Good
      BY DEF Sums
<1>2. ASSUME NEW S \in SUBSET Cells, S # {}, \A x \in S : S \ {x} \in Good
      PROVE  S \in Good
  <2>1. PICK x \in S : /\ f[S] = g[x[1]][x[2]] + f[S \ {x}]
                       /\ k[S] = h[x[1]][x[2]] + k[S \ {x}]
    <3>1. (CHOOSE x \in S : TRUE) \in S
          BY <1>2
    <3> QED BY <1>2, <3>1 DEF Sums
  <2>2. /\ f[S \ {x}] \in Nat
        /\ k[S \ {x}] = f[S \ {x}] + IF c \in S \ {x} THEN 1 ELSE 0
        BY <1>2, <2>1
  <2>3. g[x[1]][x[2]] \in Nat /\ x \in Cells
        BY <2>1
  <2>4. CASE x = c
    <3>1. h[x[1]][x[2]] = g[x[1]][x[2]] + 1
          BY <2>4
    <3>2. c \notin S \ {x} /\ c \in S
          BY <2>1, <2>4
    <3> QED BY <2>1, <2>2, <2>3, <3>1, <3>2
  <2>5. CASE x # c
    <3>1. h[x[1]][x[2]] = g[x[1]][x[2]]
          BY <2>3, <2>5
    <3>2. c \in S \ {x} <=> c \in S
          BY <2>5
    <3> QED BY <2>1, <2>2, <2>3, <3>1, <3>2
  <2> QED BY <2>4, <2>5
<1> HIDE DEF Good
<1>3. Cells \in Good
  <2>1. Cells \in SUBSET Cells  OBVIOUS
  <2> QED BY <1>1, <1>2, <2>1, CellsInduction
<1> QED BY <1>3 DEF Good

LEMMA SumsZero ==
    ASSUME NEW g, NEW f, Sums(g, f), \A x \in Cells : g[x[1]][x[2]] = 0
    PROVE  f[Cells] = 0
<1> DEFINE Good == {S \in SUBSET Cells : f[S] = 0}
<1>1. {} \in Good
      BY DEF Sums
<1>2. ASSUME NEW S \in SUBSET Cells, S # {}, \A x \in S : S \ {x} \in Good
      PROVE  S \in Good
  <2>1. PICK x \in S : f[S] = g[x[1]][x[2]] + f[S \ {x}]
    <3>1. (CHOOSE x \in S : TRUE) \in S
          BY <1>2
    <3> QED BY <1>2, <3>1 DEF Sums
  <2>2. f[S \ {x}] = 0 /\ g[x[1]][x[2]] = 0
        BY <1>2, <2>1
  <2> QED BY <2>1, <2>2
<1> HIDE DEF Good
<1>3. Cells \in Good
  <2>1. Cells \in SUBSET Cells  OBVIOUS
  <2> QED BY <1>1, <1>2, <2>1, CellsInduction
<1> QED BY <1>3 DEF Good

LEMMA CountedSharesNext ==
    (\E total : Sums(gShares, total) /\ CountedShares = total[Cells])'
BY CountedSharesIs, PTL

LEMMA OneMoreCounted ==
    ASSUME TypeOK, NEW length \in Length, NEW c \in Counter,
           gShares' = [gShares EXCEPT ![length][c] = @ + 1]
    PROVE  CountedShares \in Nat /\ CountedShares' = CountedShares + 1
<1>1. PICK f : Sums(gShares, f) /\ CountedShares = f[Cells]
      BY CountedSharesIs
<1>2. PICK k : Sums(gShares', k) /\ CountedShares' = k[Cells]
      BY CountedSharesNext
<1> DEFINE g == gShares  h == gShares'  cell == <<length, c>>
<1>3. gShares \in [Length \cup {0} -> [Counter -> Nat]]
      BY DEF TypeOK
<1>4. \A x \in Cells : g[x[1]][x[2]] \in Nat
      BY <1>3 DEF Cells
<1>5. cell \in Cells /\ h[cell[1]][cell[2]] = g[cell[1]][cell[2]] + 1
      BY <1>3 DEF Cells
<1>6. \A x \in Cells : x # cell => h[x[1]][x[2]] = g[x[1]][x[2]]
  <2> TAKE x \in Cells
  <2>1. x[1] \in Length /\ x[2] \in Counter /\ x = <<x[1], x[2]>>
        BY DEF Cells
  <2>2. CASE x[1] # length
        BY <1>3, <2>1, <2>2
  <2>3. CASE x[1] = length
    <3>1. x # cell => x[2] # c
          BY <2>1, <2>3
    <3> QED BY <1>3, <2>1, <2>3, <3>1
  <2> QED BY <2>2, <2>3
<1> HIDE DEF g, h, cell
<1>7. f[Cells] \in Nat /\ k[Cells] = f[Cells] + 1
  <2>1. Sums(g, f) /\ Sums(h, k)
        BY <1>1, <1>2 DEF g, h
  <2> QED BY <1>4, <1>5, <1>6, <2>1, SumsGrow
<1> QED BY <1>1, <1>2, <1>7

\* The shares that are counted, and those that still count as sent, are not more
\* than were sent.
Counted ==
    /\ CountedShares \in Nat
    /\ CountedShares + Cardinality(DOMAIN gSharesSent) <= gNextReqID

LEMMA SentFinite ==
    ASSUME TypeOK
    PROVE  IsFiniteSet(DOMAIN gSharesSent) /\ Cardinality(DOMAIN gSharesSent) \in Nat
<1>1. gNextReqID \in Nat /\ DOMAIN gSharesSent \subseteq 1 .. gNextReqID
      BY DEF TypeOK
<1>2. IsFiniteSet(1 .. gNextReqID)
      BY <1>1, FS_Interval
<1>3. IsFiniteSet(DOMAIN gSharesSent)
      BY <1>1, <1>2, FS_Subset
<1> QED BY <1>3, FS_CardinalityType

LEMMA InitCounted == Init => Counted
<1> SUFFICES ASSUME Init PROVE Counted
    OBVIOUS
<1>1. PICK f : Sums(gShares, f) /\ CountedShares = f[Cells]
      BY CountedSharesIs
<1>2. \A x \in Cells : gShares[x[1]][x[2]] = 0
      BY DEF Init, Cells
<1>3. CountedShares = 0
      BY <1>1, <1>2, SumsZero
<1>4. Cardinality(DOMAIN gSharesSent) = 0 /\ gNextReqID = 0
      BY FS_EmptySet DEF Init
<1> QED BY <1>3, <1>4 DEF Counted

LEMMA HandleShareCounted ==
    ASSUME TypeOK, Rest, Counted, HandleShare
    PROVE  Counted'
<1>1. /\ main = "reply" /\ IsShare(rep) /\ rep \in Reply
      /\ gNextReqID' = gNextReqID
      /\ gSharesSent' = [id \in DOMAIN gSharesSent \ {rep.id} |-> gSharesSent[id]]
      /\ gShares' = IF rep.error = "other" THEN gShares
                    ELSE [gShares EXCEPT
                             ![SentLength(rep.id)][CounterOf[rep.error]] = @ + 1]
      BY DEF HandleShare, IsShare, TypeOK
<1>2. rep.id \in DOMAIN gSharesSent /\ SentLength(rep.id) \in Length
      BY <1>1, ReplyFacts DEF Rest, EntriesThere, Sent, SentLength
<1>3. Cardinality(DOMAIN gSharesSent') = Cardinality(DOMAIN gSharesSent) - 1
  <2>1. DOMAIN gSharesSent' = DOMAIN gSharesSent \ {rep.id}
        BY <1>1
  <2> QED BY <1>2, <2>1, SentFinite, FS_RemoveElement
<1>4. CountedShares' \in {CountedShares, CountedShares + 1}
  <2>1. CASE rep.error = "other"
    <3>1. gShares' = gShares  BY <1>1, <2>1
    <3> QED BY <3>1 DEF CountedShares
  <2>2. CASE rep.error # "other"
    <3>1. rep.error \in {"NONE", "INVALID", "STALE", "DUPLICATE"}
          BY <1>1, <2>2, ReplyFacts, ErrorAssumption DEF Errors
    <3>2. CounterOf[rep.error] \in Counter
          BY <3>1 DEF CounterOf, Counter
    <3>3. gShares' = [gShares EXCEPT ![SentLength(rep.id)][CounterOf[rep.error]] = @ + 1]
          BY <1>1, <2>2
    <3>4. PICK length \in Length, c \in Counter :
              length = SentLength(rep.id) /\ c = CounterOf[rep.error]
          BY <1>2, <3>2
    <3>5. gShares' = [gShares EXCEPT ![length][c] = @ + 1]
          BY <3>3, <3>4
    <3> QED BY <3>5, OneMoreCounted
  <2> QED BY <2>1, <2>2
<1>5. gNextReqID \in Nat /\ Cardinality(DOMAIN gSharesSent) \in Nat
      BY SentFinite DEF TypeOK
<1> QED BY <1>1, <1>3, <1>4, <1>5 DEF Counted

LEMMA SubmitShareCounted ==
    ASSUME TypeOK, Counted, SubmitShare
    PROVE  Counted'
<1>1. /\ gNextReqID' = gNextReqID + 1 /\ gShares' = gShares
      /\ DOMAIN gSharesSent' = DOMAIN gSharesSent \cup {gNextReqID + 1}
      BY DEF SubmitShare
<1>2. gNextReqID \in Nat /\ gNextReqID + 1 \notin DOMAIN gSharesSent
      BY DEF TypeOK
<1>3. Cardinality(DOMAIN gSharesSent') = Cardinality(DOMAIN gSharesSent) + 1
      BY <1>1, <1>2, SentFinite, FS_AddElement
<1>4. CountedShares' = CountedShares
      BY <1>1 DEF CountedShares
<1>5. Cardinality(DOMAIN gSharesSent) \in Nat
      BY SentFinite
<1> QED BY <1>1, <1>2, <1>3, <1>4, <1>5 DEF Counted

LEMMA NextCounted == TypeOK /\ Rest /\ Counted /\ [Next]_vars => Counted'
<1> SUFFICES ASSUME TypeOK, Rest, Counted, [Next]_vars PROVE Counted'
    OBVIOUS
<1>1. CASE HandleShare  BY <1>1, HandleShareCounted
<1>2. CASE SubmitShare  BY <1>2, SubmitShareCounted
<1>3. CASE UNCHANGED shareVars
  <2>1. UNCHANGED <<gNextReqID, gSharesSent, gShares>>
        BY <1>3 DEF shareVars
  <2>2. CountedShares' = CountedShares
        BY <2>1 DEF CountedShares
  <2> QED BY <2>1, <2>2 DEF Counted
<1>4. HandleShare \/ SubmitShare \/ UNCHANGED shareVars
  <2>1. CASE Client
        BY <2>1 DEF Client, StartSession, GiveUp, EnterLoop, Interrupt, LeaveLoop, Exit,
           HandleReply, HandleNewWork, HandleOther, HandleSignal, HandleTimer
  <2>2. CASE Pool
    <3>1. PoolLeavesAlone
          BY <2>2 DEF Pool, PoolAnswers, PoolNewBlock, PoolStops, PoolStarts, NetworkLoses
    <3> QED BY <3>1 DEF PoolLeavesAlone
  <2>3. CASE Threads
        BY <2>3 DEF Threads, ThreadSendsShare
  <2>4. CASE UNCHANGED vars
        BY <2>4 DEF vars
  <2> QED BY <2>1, <2>2, <2>3, <2>4 DEF Next
<1> QED BY <1>1, <1>2, <1>3, <1>4

\* Whatever is lost, delayed or answered in another order, through all sessions:
\* every answer finds the length its share was sent with, and a share is counted
\* once at most and no longer counts as sent once it is.
THEOREM CountedOnce == Spec => []EachShareOnce
<1>1. Init => Counted
      BY InitCounted
<1>2. IInv /\ Counted /\ [Next]_vars => Counted'
      BY NextCounted DEF IInv
<1>3. Counted => CountedShares + Cardinality(DOMAIN gSharesSent) <= gNextReqID
      BY DEF Counted
<1>4. EachShareOnce <=>
          LengthKnown /\ CountedShares + Cardinality(DOMAIN gSharesSent) <= gNextReqID
      BY DEF EachShareOnce
<1> QED BY <1>1, <1>2, <1>3, <1>4, AlwaysIInv, LengthsKnown, PTL DEF Spec

-----------------------------------------------------------------------------
(* The composition implements PoolClient.                                  *)

LEMMA NextAllNext ==
    ASSUME [NextAll]_allVars
    PROVE  [Next]_vars
<1>1. CASE ClientStep
  <2>1. CASE Start  BY <2>1 DEF Start, Next, Client
  <2>2. CASE Timer  BY <2>2 DEF Timer, Next, Client
  <2>3. CASE ClientStep /\ ~ Start /\ ~ Timer
        BY <2>3 DEF ClientStep, Next, Client
  <2> QED BY <1>1, <2>1, <2>2, <2>3
<1>2. CASE ThreadStep
  <2>1. CASE \E length \in Length : ThreadSendsShare(length)
        BY <2>1 DEF Next, Threads
  <2>2. CASE UNCHANGED <<client, shares, outside>>
        BY <2>2 DEF client, outside, vars
  <2> QED BY <1>2, <2>1, <2>2 DEF ThreadStep
<1>3. CASE Pool  BY <1>3 DEF Next
<1>4. CASE UNCHANGED allVars  BY <1>4 DEF allVars
<1> QED BY <1>1, <1>2, <1>3, <1>4 DEF NextAll

LEMMA ImplementsClient == SpecAll => Spec
<1>1. InitAll => Init  BY DEF InitAll
<1> QED BY <1>1, NextAllNext, PTL DEF SpecAll, Spec

-----------------------------------------------------------------------------
(* The composition implements MiningWorker.                                *)

\* The client is paused between its sessions, and it is destroyed at the end only.
Phases ==
    /\ mPaused <=> main \notin {"loop", "reply", "end"}
    /\ makeExit <=> main = "exited"
    /\ makeExit \in BOOLEAN /\ term \in BOOLEAN

LEMMA InitPhases == InitAll => Phases
BY DEF InitAll, Init, W!Init, Phases

LEMMA PhasesNext ==
    ASSUME TypeOK, Phases, [NextAll]_allVars
    PROVE  Phases'
<1>1. CASE Start
  <2>1. /\ main = "connect" /\ main' = "start" /\ UNCHANGED <<mPaused, makeExit, term>>
        BY <1>1 DEF Start, StartSession, NotifyBlock
  <2> QED BY <2>1 DEF Phases
<1>2. CASE (HandleReply \/ HandleSignal) /\ NotifyBlock(NewBlock)
  <2>1. /\ main = "loop" /\ main' \in {"loop", "reply", "end"}
        /\ UNCHANGED <<mPaused, makeExit, term>>
        BY <1>2 DEF HandleReply, HandleSignal, NotifyBlock
  <2> QED BY <2>1 DEF Phases
<1>3. CASE HandleNewWork /\ TakeWork(rep.work)
  <2>1. main = "reply" /\ main' = "loop" /\ UNCHANGED <<mPaused, makeExit, term>>
        BY <1>3 DEF HandleNewWork, ReplyHandled, TakeWork
  <2> QED BY <2>1 DEF Phases
<1>4. CASE (EnterLoop \/ LeaveLoop) /\ SignalThread
  <2>1. /\ \/ main = "start" /\ main' = "loop"
           \/ main = "end" /\ main' \in {"exit", "connect"}
        /\ mPaused' = ~ mPaused /\ UNCHANGED <<makeExit, term>>
        BY <1>4 DEF EnterLoop, LeaveLoop, Toggle, SignalThread
  <2> QED BY <2>1 DEF Phases
<1>5. CASE Exit /\ StopThread
  <2>1. /\ main = "exit" /\ main' = "exited" /\ UNCHANGED mPaused
        /\ makeExit' = TRUE /\ term' = TRUE
        BY <1>5 DEF Exit, StopThread
  <2> QED BY <2>1 DEF Phases
<1>6. CASE Timer
  <2>1. main = "loop" /\ main' \in {"loop", "end"} /\ UNCHANGED <<mPaused, makeExit, term>>
        BY <1>6 DEF Timer, HandleTimer, GetStats, pipes
  <2> QED BY <2>1 DEF Phases
<1>7. CASE /\ GiveUp \/ Interrupt \/ HandleShare \/ HandleOther \/ SubmitShare
           /\ UNCHANGED <<pipes, thread, stats>>
  <2>1. /\ \/ main = "connect" /\ main' = "exit"
           \/ main \in {"loop", "reply"} /\ main' \in {"loop", "end"}
        /\ UNCHANGED <<mPaused, makeExit, term>>
        BY <1>7 DEF GiveUp, Interrupt, HandleShare, HandleOther, SubmitShare, ReplyHandled, pipes
  <2> QED BY <2>1 DEF Phases
<1>8. CASE ThreadStep
  <2>1. UNCHANGED <<main, mPaused>>
        BY <1>8 DEF ThreadStep, client, ThreadSendsShare
  <2>2. UNCHANGED <<makeExit, term>>
        BY <1>8 DEF ThreadStep, W!Top, W!Resume, W!GetWork, W!GetBlock, W!EndIteration,
           W!FindShare, W!mainVars
  <2> QED BY <2>1, <2>2 DEF Phases
<1>9. CASE Pool /\ UNCHANGED <<pipes, thread, stats>>
  <2>1. PoolLeavesAlone
        BY <1>9 DEF Pool, PoolAnswers, PoolNewBlock, PoolStops, PoolStarts, NetworkLoses
  <2> QED BY <1>9, <2>1 DEF Phases, PoolLeavesAlone, pipes
<1>10. CASE UNCHANGED allVars
       BY <1>10 DEF allVars, vars, pipes, Phases
<1> QED BY <1>1, <1>2, <1>3, <1>4, <1>5, <1>6, <1>7, <1>8, <1>9, <1>10
        DEF NextAll, ClientStep

LEMMA AlwaysPhases == SpecAll => [](TypeOK /\ Phases)
<1>1. InitAll => TypeOK
      BY InitType DEF InitAll
<1>2. TypeOK /\ [NextAll]_allVars => TypeOK'
      BY NextAllNext, NextType
<1> QED BY <1>1, <1>2, InitPhases, PhasesNext, PTL DEF SpecAll


LEMMA InitWorker == InitAll => W!Init
BY DEF InitAll

\* The two calls that publish, as steps of MiningWorker.
LEMMA PublishStep ==
    ASSUME NEW h \in Height \cup {0}, NotifyBlock(h) \/ TakeWork(h), ~ makeExit,
           UNCHANGED mPaused
    PROVE  [W!Next]_W!vars
<1>1. CASE ~ (h > 0)
  <2>1. UNCHANGED W!vars
        BY <1>1 DEF NotifyBlock, TakeWork, thread, W!vars, W!mainVars, W!workerVars
  <2> QED BY <2>1
<1>2. CASE h > 0
  <2>1. h \in Height
        BY <1>2
  <2>2. W!NotifyBlock(h) \/ W!TakeWork(h)
        BY <1>2 DEF NotifyBlock, TakeWork, thread, W!NotifyBlock, W!TakeWork, W!mainVars,
           W!workerVars
  <2> QED BY <2>1, <2>2 DEF W!Next, W!Main
<1> QED BY <1>1, <1>2

LEMMA PauseStep ==
    ASSUME mPaused \in BOOLEAN, Toggle, SignalThread, ~ makeExit
    PROVE  [W!Next]_W!vars
<1>1. mPaused' # mPaused
      BY DEF Toggle
<1>2. W!Toggle
      BY <1>1 DEF Toggle, SignalThread, thread, W!Toggle, W!workerVars
<1> QED BY <1>2 DEF W!Next, W!Main

LEMMA NothingStep ==
    ASSUME UNCHANGED <<mPaused, pipes, thread>>
    PROVE  [W!Next]_W!vars
BY DEF pipes, thread, W!vars, W!mainVars, W!workerVars

LEMMA NewBlockType ==
    ASSUME TypeOK, TypeOK'
    PROVE  NewBlock \in Height \cup {0}
BY DEF NewBlock, TypeOK

LEMMA WorkerNext ==
    ASSUME TypeOK, Phases, [NextAll]_allVars
    PROVE  [W!Next]_W!vars
<1>0. TypeOK'
      BY NextAllNext, NextType
<1>1. CASE Start
  <2>1. PICK b \in Height \cup {0} : StartSession(b) /\ NotifyBlock(b)
        BY <1>1 DEF Start
  <2>2. main = "connect" /\ UNCHANGED mPaused
        BY <2>1 DEF StartSession
  <2> QED BY <2>1, <2>2, PublishStep DEF Phases
<1>2. CASE (HandleReply \/ HandleSignal) /\ NotifyBlock(NewBlock)
  <2>1. main = "loop" /\ UNCHANGED mPaused
        BY <1>2 DEF HandleReply, HandleSignal
  <2>2. PICK h \in Height \cup {0} : h = NewBlock
        BY <1>0, NewBlockType
  <2>3. NotifyBlock(h)
        BY <1>2, <2>2
  <2> QED BY <2>1, <2>3, PublishStep DEF Phases
<1>3. CASE HandleNewWork /\ TakeWork(rep.work)
  <2>1. main = "reply" /\ UNCHANGED mPaused /\ IsGetWork(rep)
        BY <1>3 DEF HandleNewWork, ReplyHandled, IsGetWork
  <2>2. rep.work \in Height \cup {0}
        BY <2>1, ReplyFacts DEF TypeOK
  <2> QED BY <1>3, <2>1, <2>2, PublishStep DEF Phases
<1>4. CASE (EnterLoop \/ LeaveLoop) /\ SignalThread
  <2>1. Toggle /\ main \in {"start", "end"} /\ mPaused \in BOOLEAN
        BY <1>4 DEF EnterLoop, LeaveLoop, TypeOK
  <2> QED BY <1>4, <2>1, PauseStep DEF Phases
<1>5. CASE Exit /\ StopThread
  <2>1. main = "exit" /\ UNCHANGED mPaused
        BY <1>5 DEF Exit
  <2>2. mPaused /\ ~ makeExit
        BY <2>1 DEF Phases
  <2>3. W!Exit
        BY <1>5, <2>1, <2>2 DEF StopThread, thread, W!Exit, W!workerVars
  <2> QED BY <2>3 DEF W!Next, W!Main
<1>6. CASE Timer
  <2>1. UNCHANGED <<mPaused, pipes, thread>>
        BY <1>6 DEF Timer, HandleTimer, GetStats
  <2> QED BY <2>1, NothingStep
<1>7. CASE /\ GiveUp \/ Interrupt \/ HandleShare \/ HandleOther \/ SubmitShare
           /\ UNCHANGED <<pipes, thread, stats>>
  <2>1. UNCHANGED mPaused
        BY <1>7 DEF GiveUp, Interrupt, HandleShare, HandleOther, SubmitShare, ReplyHandled
  <2> QED BY <1>7, <2>1, NothingStep
<1>8. CASE ThreadStep
      BY <1>8 DEF ThreadStep, W!Next, W!Worker
<1>9. CASE Pool /\ UNCHANGED <<pipes, thread, stats>>
  <2>1. PoolLeavesAlone
        BY <1>9 DEF Pool, PoolAnswers, PoolNewBlock, PoolStops, PoolStarts, NetworkLoses
  <2> QED BY <1>9, <2>1, NothingStep DEF PoolLeavesAlone
<1>10. CASE UNCHANGED allVars
       BY <1>10, NothingStep DEF allVars, vars
<1> QED BY <1>1, <1>2, <1>3, <1>4, <1>5, <1>6, <1>7, <1>8, <1>9, <1>10
        DEF NextAll, ClientStep

\* The main thread, through all its sessions, does to a mining thread only what
\* MiningWorker lets any main thread do: it publishes nothing to a client that is
\* gone, toggles once at each end of a session, and destroys the client paused.
THEOREM KeepsContract == SpecAll => WorkerContract
<1>1. InitAll => W!Init
      BY InitWorker
<1>2. TypeOK /\ Phases /\ [NextAll]_allVars => [W!Next]_W!vars
      BY WorkerNext
<1> QED BY <1>1, <1>2, AlwaysPhases, PTL DEF SpecAll, WorkerContract, W!Spec

\* The composition keeps the types of the client, whose steps its own are.
THEOREM ClientTypeCorrect == SpecAll => []TypeOK
BY ImplementsClient, TypeCorrect, PTL

\* A work for the block the client knows is published or on its way in the
\* composition as well.
THEOREM WorkComesToThreads == SpecAll => []WorkOnTheWay
BY ImplementsClient, WorkComes, PTL

-----------------------------------------------------------------------------
(* What MiningWorker_proofs shows of the mining thread, in the composition. *)

WP == INSTANCE MiningWorker_proofs

\* W and WP are instances of the same specification.
LEMMA SameWorker == W!Spec => WP!Spec
<1>1. W!Init => WP!Init
      BY DEF W!Init, WP!Init, W!NoShare, WP!NoShare
<1>2. [W!Next]_W!vars => [WP!Next]_WP!vars
  <2>1. W!Main => WP!Main
        BY DEF W!Main, WP!Main, W!NotifyBlock, WP!NotifyBlock, W!TakeWork, WP!TakeWork,
           W!Toggle, WP!Toggle, W!Exit, WP!Exit, W!mainVars, WP!mainVars,
           W!workerVars, WP!workerVars
  <2>2. W!Worker => WP!Worker
        BY DEF W!Worker, WP!Worker, W!Top, WP!Top, W!Resume, WP!Resume, W!GetWork, WP!GetWork,
           W!GetBlock, WP!GetBlock, W!FindShare, WP!FindShare, W!EndIteration,
           WP!EndIteration, W!Stop, WP!Stop, W!MayFindShare, WP!MayFindShare,
           W!mainVars, WP!mainVars
  <2>3. UNCHANGED W!vars => UNCHANGED WP!vars
        BY DEF W!vars, WP!vars, W!mainVars, WP!mainVars, W!workerVars, WP!workerVars
  <2> QED BY <2>1, <2>2, <2>3 DEF W!Next, WP!Next
<1> QED BY <1>1, <1>2, PTL DEF W!Spec, WP!Spec

LEMMA WorkerTheorems ==
    WP!Spec => [](WP!NeverAhead /\ WP!HeaderCurrent /\ WP!ShareConsistent /\ WP!PausedInPhase)
<1>1. Height \subseteq Nat  BY HeightAssumption
<1>2. WP!Spec => []WP!NeverAhead  BY <1>1, WP!NeverMinesAhead
<1>3. WP!Spec => []WP!HeaderCurrent  BY <1>1, WP!MinesCurrentHeader
<1>4. WP!Spec => []WP!ShareConsistent  BY <1>1, WP!SharesConsistent
<1>5. WP!Spec => []WP!PausedInPhase  BY <1>1, WP!PauseInPhase
<1> QED BY <1>2, <1>3, <1>4, <1>5, PTL

\* Under the client as it is, through all its sessions, a thread never mines ahead of
\* its block, mines the header of its pair only, sends shares of one height only,
\* and stays in phase with the client over the pauses.
THEOREM ThreadsUnderClient ==
    SpecAll => [](W!NeverAhead /\ W!HeaderCurrent /\ W!ShareConsistent /\ W!PausedInPhase)
<1>1. WP!NeverAhead => W!NeverAhead
      BY DEF WP!NeverAhead, W!NeverAhead
<1>2. WP!HeaderCurrent => W!HeaderCurrent
      BY DEF WP!HeaderCurrent, W!HeaderCurrent
<1>3. WP!ShareConsistent => W!ShareConsistent
      BY DEF WP!ShareConsistent, W!ShareConsistent, WP!NoShare, W!NoShare
<1>4. WP!PausedInPhase => W!PausedInPhase
      BY DEF WP!PausedInPhase, W!PausedInPhase
<1>5. SpecAll => WP!Spec
      BY KeepsContract, SameWorker DEF WorkerContract
<1> QED BY <1>1, <1>2, <1>3, <1>4, <1>5, WorkerTheorems, PTL
=============================================================================
