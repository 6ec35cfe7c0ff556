----------------------------- MODULE PoolClient -----------------------------
(***************************************************************************)
(* The main thread of a miner, baseclient.cpp: it connects to the front    *)
(* end, runs a session with the pool server (an event loop over replies,   *)
(* block signals, shares of the mining threads and a timer), and starts    *)
(* again when the session ends.  All of its state is global to that file.  *)
(*                                                                         *)
(* The pool and the network are external: the pool answers the requests it *)
(* has received in any order, announces blocks of growing height, stops    *)
(* and starts again; any message in flight may be lost.  Of the mining     *)
(* threads there is only the queue of their shares; what the main thread   *)
(* sends to them is added by PoolMining.                                   *)
(*                                                                         *)
(* Blocks and works are represented by their heights, shares by the length *)
(* of their chain.  Of the request ids only those of shares are kept, the  *)
(* only ones that HandleReply looks at.                                    *)
(***************************************************************************)
EXTENDS Naturals, Sequences, FiniteSets

CONSTANTS
    Height,         \* the heights of the pool's blocks
    Length,         \* the lengths of the chains that shares are made of
    MaxNet,         \* bound: replies or signals in flight
    MaxShares,      \* bound: shares
    Error,          \* the verdicts on shares, see Errors
    Faults          \* what may happen besides normal operation, see Fault

ASSUME HeightAssumption == Height \subseteq Nat \ {0}
ASSUME LengthAssumption == Length \subseteq Nat \ {0} /\ IsFiniteSet(Length)

\* Reply::ErrType as HandleReply tells them apart.
Errors == {"NONE", "INVALID", "STALE", "DUPLICATE", "other"}

ASSUME ErrorAssumption == Error \subseteq Errors

\* Messages are lost, the pool stops, the program is told to exit.
Fault == {"loss", "stop", "exit"}

ASSUME FaultsAssumption == Faults \subseteq Fault

VARIABLES
    \* the main thread
    main,           \* where it is, see Places
    gBlock,         \* height of the last block; 0 after gBlock.Clear()
    gHeartBeat, gExit,
    gNextReqID, gSharesSent, gShares,
    rep,            \* the reply being handled
    mPaused,        \* XPMClient::mPaused, flipped by Toggle()
    shares,         \* gWorkers, the queue of shares of the mining threads
    \* the network and the pool
    requests, replies, sigs,
    tip, up,
    \* ghosts
    given,          \* height of the last work published in this session, or 0
    lost,           \* this session has lost a GETWORK or its answer
    told            \* the program has been told to exit

shareVars == <<gNextReqID, gSharesSent, gShares>>
netVars == <<requests, replies, sigs>>
poolVars == <<tip, up>>
vars == <<main, gBlock, gHeartBeat, gExit, shareVars, rep, mPaused,
          shares, netVars, poolVars, given, lost, told>>

Places == {"connect",       \* lines 417-466
           "start",         \* line 498
           "loop",          \* zloop_start, line 499
           "reply",         \* HandleReply, line 219
           "end",           \* line 501
           "exit",          \* line 512
           "exited"}

InSession == main \in {"start", "loop", "reply", "end"}

SHUTDOWN == 0       \* a signal that is no block

Counter == {"accepted", "invalid", "stale", "duplicate"}

\* The counter of each verdict; the other errors have none.
CounterOf == [NONE |-> "accepted", INVALID |-> "invalid", STALE |-> "stale",
              DUPLICATE |-> "duplicate"]

Request == [type : {"GETWORK"}, height : Height \cup {0}]
           \cup [type : {"SHARE"}, id : Nat, length : Length]
           \cup [type : {"STATS"}]

Reply == [type : {"GETWORK"}, work : Height \cup {0}, block : Height \cup {0}]
         \cup [type : {"SHARE"}, id : Nat, length : Length, error : Error,
              block : Height \cup {0}]
         \cup [type : {"STATS"}, block : Height \cup {0}]

NoReply == [type |-> "STATS", block |-> 0]

TypeOK ==
    /\ main \in Places
    /\ gBlock \in Height \cup {0}
    /\ gHeartBeat \in BOOLEAN /\ gExit \in BOOLEAN
    /\ gNextReqID \in Nat
    /\ DOMAIN gSharesSent \subseteq 1 .. gNextReqID
    /\ \A id \in DOMAIN gSharesSent : gSharesSent[id] \in Length
    /\ gShares \in [Length \cup {0} -> [Counter -> Nat]]
    /\ rep \in Reply
    /\ mPaused \in BOOLEAN
    /\ shares \in Seq(Length)
    /\ requests \subseteq Request /\ replies \in Seq(Reply)
    /\ sigs \in Seq(Height \cup {SHUTDOWN})
    /\ tip \in Height /\ up \in BOOLEAN
    /\ given \in Height \cup {0} /\ lost \in BOOLEAN /\ told \in BOOLEAN

Init ==
    /\ main = "connect"
    /\ gBlock = 0
    /\ gHeartBeat = TRUE /\ gExit = FALSE
    /\ gNextReqID = 0 /\ gSharesSent = [id \in {} |-> 0]
    /\ gShares = [length \in Length \cup {0} |-> [c \in Counter |-> 0]]
    /\ rep = NoReply
    /\ mPaused = TRUE
    /\ shares = << >>
    /\ requests = {} /\ replies = << >> /\ sigs = << >>
    /\ tip \in Height /\ up = TRUE
    /\ given = 0 /\ lost = FALSE /\ told = FALSE

-----------------------------------------------------------------------------
(* What the handlers share.                                                *)

\* RequestWork, lines 118-136.
GetWorkRequest(height) == [type |-> "GETWORK", height |-> height]

HandleBlockAsksBefore(b, known, pending) ==               \* mutated form
    IF b > known
    THEN /\ gBlock' = b
         /\ requests' = IF known = 0 THEN pending \cup {GetWorkRequest(b)} ELSE pending
    ELSE gBlock' = known /\ requests' = pending

\* HandleNewBlock, lines 139-152, for a block of height b (0 for none): gBlock
\* is `known' before, the requests in flight are `pending'.
HandleNewBlock(b, known, pending) ==
    IF b > known
    THEN /\ gBlock' = b
         /\ requests' = pending \cup {GetWorkRequest(b)}
    ELSE gBlock' = known /\ requests' = pending

\* Toggle, xpmclient.cpp lines 1211-1220.
Toggle == mPaused' = ~mPaused

-----------------------------------------------------------------------------
(* Sessions.                                                               *)

\* The front end answers the CONNECT request in time, with the address of the
\* server and perhaps with its block: lines 411-496.  The session has sockets
\* of its own, and starts with a block or at least with a request for work.
StartSession(b) ==
    /\ main = "connect" /\ up
    /\ IF b > 0 THEN HandleNewBlock(b, 0, {})
       ELSE gBlock' = 0 /\ requests' = {GetWorkRequest(0)}
    /\ replies' = << >> /\ sigs' = << >>
    /\ gHeartBeat' = TRUE /\ gExit' = TRUE
    /\ main' = "start"
    /\ given' = 0 /\ lost' = FALSE
    /\ UNCHANGED <<shareVars, rep, mPaused, shares, poolVars, told>>

\* Lines 439-440 and 453-454: interrupted, or an answer without an address.
GiveUp ==
    /\ main = "connect" /\ "exit" \in Faults
    /\ main' = "exit" /\ gExit' = TRUE /\ told' = TRUE
    /\ UNCHANGED <<gBlock, gHeartBeat, shareVars, rep, mPaused, shares, netVars,
                   poolVars, given, lost>>

\* Line 498.
EnterLoop ==
    /\ main = "start"
    /\ Toggle
    /\ main' = "loop"
    /\ UNCHANGED <<gBlock, gHeartBeat, gExit, shareVars, rep, shares, netVars,
                   poolVars, given, lost, told>>

\* The event loop returns when the program is interrupted.
Interrupt ==
    /\ main = "loop" /\ "exit" \in Faults
    /\ main' = "end" /\ told' = TRUE
    /\ UNCHANGED <<gBlock, gHeartBeat, gExit, shareVars, rep, mPaused, shares,
                   netVars, poolVars, given, lost>>

LeaveLoopUnpaused ==                                      \* mutated form
    /\ main = "end"
    /\ main' = IF gExit THEN "exit" ELSE "connect"
    /\ requests' = {} /\ replies' = << >> /\ sigs' = << >>
    /\ UNCHANGED <<gBlock, gHeartBeat, gExit, shareVars, rep, mPaused, shares,
                   poolVars, given, lost, told>>

\* Lines 501-508 and 410.
LeaveLoop ==
    /\ main = "end"
    /\ Toggle
    /\ main' = IF gExit THEN "exit" ELSE "connect"
    /\ requests' = {} /\ replies' = << >> /\ sigs' = << >>
    /\ UNCHANGED <<gBlock, gHeartBeat, gExit, shareVars, rep, shares, poolVars,
                   given, lost, told>>

\* delete gClient and zctx_destroy, lines 512-516.
Exit ==
    /\ main = "exit"
    /\ main' = "exited"
    /\ UNCHANGED <<gBlock, gHeartBeat, gExit, shareVars, rep, mPaused, shares,
                   netVars, poolVars, given, lost, told>>

-----------------------------------------------------------------------------
(* The handlers of the event loop.                                         *)

\* HandleReply, lines 205-217: a reply may carry a block.
HandleReply ==
    /\ main = "loop" /\ replies # << >>
    /\ rep' = Head(replies)
    /\ replies' = Tail(replies)
    /\ HandleNewBlock(rep'.block, gBlock, requests)
    /\ main' = "reply"
    /\ UNCHANGED <<gHeartBeat, gExit, shareVars, mPaused, shares, sigs, poolVars,
                   given, lost, told>>

\* HandleReply, lines 219-266, for each type of request.
ReplyHandled ==
    /\ main' = "loop"
    /\ gHeartBeat' = TRUE
    /\ rep' = NoReply
    /\ UNCHANGED <<gBlock, gExit, mPaused, shares, requests, replies, poolVars, lost,
                   told>>

\* HandleNewWork, lines 155-165.
HandleNewWork ==
    /\ main = "reply" /\ rep.type = "GETWORK"
    /\ given' = IF rep.work > 0 THEN rep.work ELSE given
    /\ UNCHANGED <<shareVars, sigs>>
    /\ ReplyHandled

\* gSharesSent[id], which is 0 for an id that is not there.
SentLength(id) == IF id \in DOMAIN gSharesSent THEN gSharesSent[id] ELSE 0

HandleShareKeepsEntry ==                                  \* mutated form
    /\ main = "reply" /\ rep.type = "SHARE"
    /\ gShares' = IF rep.error = "other" THEN gShares
                  ELSE [gShares EXCEPT
                           ![SentLength(rep.id)][CounterOf[rep.error]] = @ + 1]
    /\ UNCHANGED <<gNextReqID, gSharesSent, given, sigs>>
    /\ ReplyHandled

\* Lines 227-251.  A stale share makes the client connect its signals anew
\* (lines 84-99); what waits in the old connection may be gone.
HandleShare ==
    /\ main = "reply" /\ rep.type = "SHARE"
    /\ gSharesSent' = [id \in DOMAIN gSharesSent \ {rep.id} |-> gSharesSent[id]]
    /\ gShares' = IF rep.error = "other" THEN gShares
                  ELSE [gShares EXCEPT
                           ![SentLength(rep.id)][CounterOf[rep.error]] = @ + 1]
    /\ sigs' \in IF rep.error = "STALE" THEN {sigs, << >>} ELSE {sigs}
    /\ UNCHANGED <<gNextReqID, given>>
    /\ ReplyHandled

HandleOther ==
    /\ main = "reply" /\ rep.type = "STATS"
    /\ UNCHANGED <<shareVars, given, sigs>>
    /\ ReplyHandled

HandleShutdownExits ==                                    \* mutated form
    /\ main = "loop" /\ sigs # << >>
    /\ sigs' = Tail(sigs)
    /\ IF Head(sigs) = SHUTDOWN
       THEN main' = "end" /\ UNCHANGED <<gBlock, requests>>
       ELSE HandleNewBlock(Head(sigs), gBlock, requests) /\ UNCHANGED main
    /\ UNCHANGED <<gHeartBeat, gExit, shareVars, rep, mPaused, shares, replies,
                   poolVars, given, lost, told>>

\* HandleSignal, lines 273-294.
HandleSignal ==
    /\ main = "loop" /\ sigs # << >>
    /\ sigs' = Tail(sigs)
    /\ IF Head(sigs) = SHUTDOWN
       THEN /\ gExit' = FALSE /\ main' = "end"
            /\ UNCHANGED <<gBlock, requests>>
       ELSE /\ HandleNewBlock(Head(sigs), gBlock, requests)
            /\ UNCHANGED <<gExit, main>>
    /\ UNCHANGED <<gHeartBeat, shareVars, rep, mPaused, shares, replies, poolVars,
                   given, lost, told>>

SubmitShareOldId ==                                       \* mutated form
    /\ main = "loop" /\ shares # << >>
    /\ shares' = Tail(shares)
    /\ gNextReqID' = gNextReqID + 1
    /\ gSharesSent' = [id \in DOMAIN gSharesSent \cup {gNextReqID} |->
                          IF id = gNextReqID THEN Head(shares) ELSE gSharesSent[id]]
    /\ requests' = requests \cup {[type |-> "SHARE", id |-> gNextReqID',
                                   length |-> Head(shares)]}
    /\ UNCHANGED <<main, gBlock, gHeartBeat, gExit, gShares, rep, mPaused, replies,
                   sigs, poolVars, given, lost, told>>

\* HandleWorkers and SubmitShare, lines 297-309 and 168-182.
SubmitShare ==
    /\ main = "loop" /\ shares # << >>
    /\ shares' = Tail(shares)
    /\ gNextReqID' = gNextReqID + 1
    /\ gSharesSent' = [id \in DOMAIN gSharesSent \cup {gNextReqID'} |->
                          IF id = gNextReqID' THEN Head(shares) ELSE gSharesSent[id]]
    /\ requests' = requests \cup {[type |-> "SHARE", id |-> gNextReqID',
                                   length |-> Head(shares)]}
    /\ UNCHANGED <<main, gBlock, gHeartBeat, gExit, gShares, rep, mPaused, replies,
                   sigs, poolVars, given, lost, told>>

TimerForgivesOnce ==                                      \* mutated form
    /\ main = "loop"
    /\ requests' = requests \cup {[type |-> "STATS"]}
    /\ gHeartBeat' = FALSE
    /\ UNCHANGED <<main, gExit, gBlock, shareVars, rep, mPaused, shares, replies,
                   sigs, poolVars, given, lost, told>>

\* HandleTimer, lines 312-352, every minute: without any reply in the last
\* minute the connection is given up; else the statistics are sent, and their
\* answer will be the sign of life.  (GetStats, line 330: see PoolMining.)
HandleTimer ==
    /\ main = "loop"
    /\ IF gHeartBeat
       THEN /\ requests' = requests \cup {[type |-> "STATS"]}
            /\ gHeartBeat' = FALSE
            /\ UNCHANGED <<main, gExit>>
       ELSE /\ gExit' = FALSE /\ main' = "end"
            /\ UNCHANGED <<requests, gHeartBeat>>
    /\ UNCHANGED <<gBlock, shareVars, rep, mPaused, shares, replies, sigs,
                   poolVars, given, lost, told>>

-----------------------------------------------------------------------------
(* The mining threads, as the main thread sees them.                       *)

ThreadSendsShare(length) ==
    /\ main # "exited" /\ gNextReqID + Len(shares) < MaxShares
    /\ shares' = Append(shares, length)
    /\ UNCHANGED <<main, gBlock, gHeartBeat, gExit, shareVars, rep, mPaused,
                   netVars, poolVars, given, lost, told>>

-----------------------------------------------------------------------------
(* The network and the pool.                                               *)

PoolLeavesAlone == UNCHANGED <<main, gBlock, gHeartBeat, gExit, shareVars, rep,
                               mPaused, shares, given, told>>

\* The pool answers a request, with or without its block; it may have no work.
Answers(r) ==
    CASE r.type = "GETWORK" -> {[type |-> "GETWORK", work |-> w,
                                 block |-> b] : w, b \in {0, tip}}
      [] r.type = "SHARE"   -> {[type |-> "SHARE", id |-> r.id, length |-> r.length,
                                 error |-> e, block |-> b] : e \in Error, b \in {0, tip}}
      [] r.type = "STATS"   -> {[type |-> "STATS", block |-> b] : b \in {0, tip}}

PoolAnswers(r) ==
    /\ up /\ r \in requests /\ Len(replies) < MaxNet
    /\ requests' = requests \ {r}
    /\ \E a \in Answers(r) :
          /\ replies' = Append(replies, a)
          /\ lost' = (lost \/ (r.type = "GETWORK" /\ a.work = 0))
    /\ UNCHANGED <<sigs, poolVars>>
    /\ PoolLeavesAlone

\* A new block, announced to the clients that are connected.
PoolNewBlock(h) ==
    /\ up /\ h > tip /\ Len(sigs) < MaxNet
    /\ tip' = h
    /\ sigs' = IF InSession THEN Append(sigs, h) ELSE sigs
    /\ UNCHANGED <<requests, replies, up, lost>>
    /\ PoolLeavesAlone

\* The pool stops, in silence or with a signal.
PoolStops ==
    /\ "stop" \in Faults /\ up /\ Len(sigs) < MaxNet
    /\ up' = FALSE
    /\ \/ sigs' = sigs
       \/ InSession /\ sigs' = Append(sigs, SHUTDOWN)
    /\ UNCHANGED <<requests, replies, tip, lost>>
    /\ PoolLeavesAlone

PoolStarts ==
    /\ ~up
    /\ up' = TRUE
    /\ UNCHANGED <<netVars, tip, lost>>
    /\ PoolLeavesAlone

IsGetWork(m) == m.type = "GETWORK"

NetworkLoses ==
    /\ "loss" \in Faults
    /\ \/ \E r \in requests : /\ requests' = requests \ {r}
                              /\ lost' = (lost \/ IsGetWork(r))
                              /\ UNCHANGED <<replies, sigs>>
       \/ /\ replies # << >> /\ replies' = Tail(replies)
          /\ lost' = (lost \/ IsGetWork(Head(replies)))
          /\ UNCHANGED <<requests, sigs>>
       \/ /\ sigs # << >> /\ sigs' = Tail(sigs)
          /\ UNCHANGED <<requests, replies, lost>>
    /\ UNCHANGED poolVars
    /\ PoolLeavesAlone

-----------------------------------------------------------------------------

Client ==
    \/ \E b \in {h \in Height \cup {0} : h <= tip} : StartSession(b)
    \/ GiveUp \/ EnterLoop \/ Interrupt \/ LeaveLoop \/ Exit
    \/ HandleReply \/ HandleNewWork \/ HandleShare \/ HandleOther
    \/ HandleSignal \/ SubmitShare \/ HandleTimer

Pool ==
    \/ \E r \in requests : PoolAnswers(r)
    \/ \E h \in Height : PoolNewBlock(h)
    \/ PoolStops \/ PoolStarts
    \/ NetworkLoses

Threads == \E length \in Length : ThreadSendsShare(length)

Next == Client \/ Pool \/ Threads

Spec == Init /\ [][Next]_vars

-----------------------------------------------------------------------------

\* A work for the block the client knows has been published, or it will be:
\* every change of gBlock is followed by a request of its own, whose answer
\* cannot be older than that block.  Only a message that is lost, or an answer
\* without a work, ends this; no request is ever repeated.
WorkOnTheWay ==
    InSession /\ ~lost =>
        \/ given >= gBlock
        \/ GetWorkRequest(gBlock) \in requests
        \/ \E k \in DOMAIN replies : IsGetWork(replies[k]) /\ replies[k].work >= gBlock
        \/ main = "reply" /\ IsGetWork(rep) /\ rep.work >= gBlock

IsShare(m) == m.type = "SHARE"

\* Requests and replies find the length that their share was sent with: operator[] of
\* gSharesSent never invents an entry, and no other share takes its place.
LengthKnown ==
    /\ \A r \in requests : IsShare(r) => SentLength(r.id) = r.length
    /\ \A k \in DOMAIN replies :
          IsShare(replies[k]) => SentLength(replies[k].id) = replies[k].length
    /\ main = "reply" /\ IsShare(rep) => SentLength(rep.id) = rep.length
    /\ \A c \in Counter : gShares[0][c] = 0

CountedShares ==
    LET total[S \in SUBSET (Length \X Counter)] ==
            IF S = {} THEN 0
            ELSE LET x == CHOOSE x \in S : TRUE
                 IN  gShares[x[1]][x[2]] + total[S \ {x}]
    IN  total[Length \X Counter]

\* A share is counted once at most and under the length it was sent with, and never while
\* it still counts as sent.
EachShareOnce ==
    /\ LengthKnown
    /\ CountedShares + Cardinality(DOMAIN gSharesSent) <= gNextReqID

-----------------------------------------------------------------------------
(* Progress.  The event loop serves every source of events that stays      *)
(* ready, and the timer; of the pool nothing is asked.                     *)

ClientFairness ==
    /\ WF_vars(\E b \in {h \in Height \cup {0} : h <= tip} : StartSession(b))
    /\ WF_vars(EnterLoop) /\ WF_vars(LeaveLoop) /\ WF_vars(Exit)
    /\ WF_vars(HandleNewWork \/ HandleShare \/ HandleOther)
    /\ SF_vars(HandleReply)
    /\ SF_vars(HandleSignal)
    /\ SF_vars(SubmitShare)
    /\ SF_vars(HandleTimer)

FairSpec == Spec /\ ClientFairness

\* A pool that has died in silence does not keep the client: the timer notices
\* that nothing has come, whatever was in flight.
DeadPoolLeft == main = "loop" /\ ~up ~> main # "loop" \/ up

\* The end of a session is not the end of the program, whatever ended it: when
\* the pool is back to stay the client is in a session, unless somebody has told
\* it to exit.
SessionComesBack == <>[]up => []<>(main = "loop" \/ told)
=============================================================================
