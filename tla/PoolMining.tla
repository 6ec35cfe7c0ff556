----------------------------- MODULE PoolMining -----------------------------
(***************************************************************************)
(* The client as a whole: the main thread (PoolClient) and a mining thread *)
(* (MiningWorker), joined by two published streams, a pipe of signals and  *)
(* the queues of shares and statistics.  This module adds what the calls   *)
(* NotifyBlock, TakeWork, Toggle and GetStats of PoolClient do to them.    *)
(***************************************************************************)
EXTENDS PoolClient

CONSTANTS
    MaxQueue,       \* bound: messages waiting in a subscription
    MaxSignals      \* bound: signals waiting in the pipe

VARIABLES
    makeExit, term, signals, blocksub, worksub,         \* see MiningWorker
    pc, block, work, reset, header, share,              \* see MiningWorker
    stats           \* some message waits in mStatsPull

W == INSTANCE MiningWorker

pipes == <<makeExit, term, signals, blocksub, worksub>>
thread == <<pc, block, work, reset, header, share>>
client == <<main, gBlock, gHeartBeat, gExit, shareVars, rep, mPaused>>
outside == <<netVars, poolVars, given, lost, told>>
allVars == <<vars, pipes, thread, stats>>

InitAll == Init /\ W!Init /\ stats = FALSE

-----------------------------------------------------------------------------
(* The calls of the main thread.                                           *)

\* NotifyBlock, xpmclient.cpp lines 1108-1112, when HandleNewBlock calls it.
NotifyBlock(h) ==
    /\ Len(blocksub) < MaxQueue
    /\ blocksub' = IF h > 0 THEN Append(blocksub, h) ELSE blocksub
    /\ UNCHANGED <<makeExit, term, signals, worksub, thread, stats>>

\* TakeWork, lines 1115-1119.
TakeWork(h) ==
    /\ Len(worksub) < MaxQueue
    /\ worksub' = IF h > 0 THEN Append(worksub, h) ELSE worksub
    /\ UNCHANGED <<makeExit, term, signals, blocksub, thread, stats>>

\* The signal of Toggle, lines 1211-1220.
SignalThread ==
    /\ signals < MaxSignals
    /\ signals' = IF mPaused' # mPaused THEN signals + 1 ELSE signals
    /\ UNCHANGED <<makeExit, term, blocksub, worksub, thread, stats>>

\* The destructor of the client, line 725, and zctx_destroy.
StopThread ==
    /\ makeExit' = TRUE /\ term' = TRUE
    /\ UNCHANGED <<signals, blocksub, worksub, thread, stats>>

\* GetStats, lines 1122-1208, reads all messages of the threads.  A thread that
\* has sent none has crashed, unless the client is paused; with onCrash = 0, the
\* default, it only says so.
GetStats == stats' = FALSE /\ UNCHANGED <<pipes, thread>>

ReportsCrash == main = "loop" /\ gHeartBeat /\ ~mPaused /\ ~stats

NewBlock == IF gBlock' # gBlock THEN gBlock' ELSE 0

Start == \E b \in {h \in Height \cup {0} : h <= tip} : StartSession(b) /\ NotifyBlock(b)

Timer == /\ HandleTimer
         /\ IF gHeartBeat THEN GetStats ELSE UNCHANGED <<pipes, thread, stats>>

ClientStep ==
    \/ Start
    \/ HandleReply /\ NotifyBlock(NewBlock)
    \/ HandleSignal /\ NotifyBlock(NewBlock)
    \/ HandleNewWork /\ TakeWork(rep.work)
    \/ EnterLoop /\ SignalThread
    \/ LeaveLoop /\ SignalThread
    \/ Exit /\ StopThread
    \/ Timer
    \/ /\ GiveUp \/ Interrupt \/ HandleShare \/ HandleOther \/ SubmitShare
       /\ UNCHANGED <<pipes, thread, stats>>

-----------------------------------------------------------------------------
(* The mining thread.                                                      *)

\* Lines 376-381: once it is past its pause the thread sends its statistics,
\* when it has not done so for 11 seconds.
MaySendStats ==
    IF pc' = "getwork" THEN stats' \in {stats, TRUE} ELSE stats' = stats

ThreadStep ==
    \/ /\ W!Top \/ W!Resume
       /\ MaySendStats
       /\ UNCHANGED <<client, shares, outside>>
    \/ /\ W!GetWork \/ W!GetBlock \/ W!EndIteration
       /\ UNCHANGED <<client, shares, outside, stats>>
    \/ /\ W!FindShare
       /\ \E length \in Length : ThreadSendsShare(length)
       /\ UNCHANGED stats

NextAll ==
    \/ ClientStep
    \/ ThreadStep
    \/ Pool /\ UNCHANGED <<pipes, thread, stats>>

SpecAll == InitAll /\ [][NextAll]_allVars

-----------------------------------------------------------------------------

\* A thread that GetStats says has crashed (and for which onCrash ends the
\* program or reboots the machine) is not one that waits for a work.
WaitsForWork == pc = "getwork" /\ worksub = << >> /\ work < block

CrashReportTrue == ReportsCrash => ~WaitsForWork

\* The main thread keeps to what MiningWorker assumes of it, so that what is
\* proved there holds here: in particular it destroys the client only when its
\* thread has been sent the signal to pause.
WorkerContract == W!Spec

-----------------------------------------------------------------------------
(* Progress.  Both threads are scheduled; the pool promises nothing.       *)

Fairness ==
    /\ WF_allVars(Start)
    /\ WF_allVars(EnterLoop /\ SignalThread) /\ WF_allVars(LeaveLoop /\ SignalThread)
    /\ WF_allVars(HandleNewWork /\ TakeWork(rep.work))
    /\ WF_allVars((HandleShare \/ HandleOther) /\ UNCHANGED <<pipes, thread, stats>>)
    /\ SF_allVars(HandleReply /\ NotifyBlock(NewBlock))
    /\ SF_allVars(HandleSignal /\ NotifyBlock(NewBlock))
    /\ SF_allVars(Timer)
    /\ WF_allVars(ThreadStep /\ ~W!FindShare)

FairSpecAll == SpecAll /\ Fairness

\* When the client has published the pool's block and a work for it, and no
\* other comes, the thread searches the header of the two, however the two
\* streams were interleaved and whatever it waited for: it is never left with a
\* wait that only the next block would end.
Informed == main \in {"loop", "reply"} /\ gBlock = tip /\ given = tip

TipGetsMined ==
    <>[]Informed => \/ <>[](header = <<tip, tip>>) /\ []<>(pc = "mine")
                    \/ <>(pc = "stopped")
=============================================================================
