---------------------------- MODULE MiningWorker ----------------------------
(***************************************************************************)
(* A mining thread and its connections to the main thread: the top of the  *)
(* loop of PrimeMiner::Mining (xpmclient.cpp, lines 363-450, repeated in   *)
(* both ZCash miners), the signals on its pipe, and the publication of     *)
(* blocks and works.                                                       *)
(*                                                                         *)
(* The thread subscribes to two independent streams, blocks and works, and *)
(* has to pair them by height.  It is paused and resumed by signals on its *)
(* pipe: one signal pauses it, the next one resumes it, and it reads the   *)
(* pipe only at the top of its loop.  The main thread counts nothing, it   *)
(* only flips mPaused with every signal.                                   *)
(*                                                                         *)
(* Nothing is assumed here about what the main thread publishes and in     *)
(* which order: PoolClient does that.  Blocks and works are represented by *)
(* their heights.                                                          *)
(***************************************************************************)
EXTENDS Naturals, Sequences

CONSTANTS
    Height,         \* the heights of published blocks and works
    MaxQueue,       \* bound: messages waiting in a subscription
    MaxSignals      \* bound: signals waiting in the pipe

ASSUME HeightAssumption == Height \subseteq Nat

VARIABLES
    \* the main thread
    mPaused,        \* XPMClient::mPaused
    makeExit,       \* PrimeMiner::MakeExit
    term,           \* the ZeroMQ context is being terminated
    \* between the threads
    signals,        \* signals waiting in the pipe of the thread
    blocksub,       \* messages waiting in the subscription to blocks
    worksub,        \* messages waiting in the subscription to works
    \* the mining thread
    pc,             \* where it is, see PCs
    block, work,    \* the heights of the last block and work received
    reset,          \* a work was received in this iteration
    header,         \* the block and the work that blockheader was made of
    share           \* the last share sent, NoShare before the first

mainVars == <<mPaused, makeExit, term>>
workerVars == <<pc, block, work, reset, header, share>>
vars == <<mainVars, signals, blocksub, worksub, workerVars>>

PCs == {"top",       \* line 369
        "paused",    \* line 371, the second zsocket_wait
        "getwork",   \* line 401
        "getblock",  \* line 407
        "mine",      \* lines 452-697
        "stopped"}   \* the thread has ended

NoShare == [height |-> 0, merkle |-> 0, header |-> <<0, 0>>]

TypeOK ==
    /\ mPaused \in BOOLEAN /\ makeExit \in BOOLEAN /\ term \in BOOLEAN
    /\ signals \in Nat
    /\ blocksub \in Seq(Height) /\ worksub \in Seq(Height)
    /\ pc \in PCs
    /\ block \in Nat /\ work \in Nat
    /\ reset \in BOOLEAN
    /\ header \in Nat \X Nat
    /\ share \in [height : Nat, merkle : Nat, header : Nat \X Nat]

\* XPMClient::Initialize (lines 1087-1091) has started the thread and put a
\* first signal into its pipe, for which the thread waited at line 364; the
\* client is paused until the first session starts.
Init ==
    /\ mPaused = TRUE /\ makeExit = FALSE /\ term = FALSE
    /\ signals = 1
    /\ blocksub = << >> /\ worksub = << >>
    /\ pc = "top"
    /\ block = 1 /\ work = 0
    /\ reset = FALSE
    /\ header = <<0, 0>>
    /\ share = NoShare

-----------------------------------------------------------------------------
(* The main thread.                                                        *)

\* Lines 1108-1112.
NotifyBlock(h) ==
    /\ ~makeExit /\ Len(blocksub) < MaxQueue
    /\ blocksub' = Append(blocksub, h)
    /\ UNCHANGED <<mainVars, signals, worksub, workerVars>>

\* Lines 1115-1119.
TakeWork(h) ==
    /\ ~makeExit /\ Len(worksub) < MaxQueue
    /\ worksub' = Append(worksub, h)
    /\ UNCHANGED <<mainVars, signals, blocksub, workerVars>>

\* Lines 1211-1220, at the start and at the end of a session.
Toggle ==
    /\ ~makeExit /\ signals < MaxSignals
    /\ signals' = signals + 1
    /\ mPaused' = ~mPaused
    /\ UNCHANGED <<makeExit, term, blocksub, worksub, workerVars>>

ExitWithoutFlag ==                                        \* mutated form
    /\ mPaused /\ ~term
    /\ term' = TRUE
    /\ UNCHANGED <<mPaused, makeExit, signals, blocksub, worksub, workerVars>>

\* The destructor sets MakeExit (line 725) when the last session has ended;
\* main() then terminates the context, which makes every wait and every receive
\* of the thread fail.
Exit ==
    /\ mPaused /\ ~makeExit
    /\ makeExit' = TRUE
    /\ term' = TRUE
    /\ UNCHANGED <<mPaused, signals, blocksub, worksub, workerVars>>

-----------------------------------------------------------------------------
(* The mining thread.                                                      *)

Stop == pc' = "stopped"

TopSingleWait ==                                          \* mutated form
    /\ pc = "top"
    /\ signals' = IF signals > 0 /\ ~term THEN signals - 1 ELSE signals
    /\ pc' = "getwork"
    /\ reset' = FALSE
    /\ UNCHANGED <<mainVars, blocksub, worksub, block, work, header, share>>

\* Lines 369-370 and 396: without a signal the thread goes on, with one it
\* consumes it and waits for the next.
Top ==
    /\ pc = "top"
    /\ IF signals > 0 /\ ~term
       THEN signals' = signals - 1 /\ pc' = "paused"
       ELSE signals' = signals /\ pc' = "getwork"
    /\ reset' = FALSE
    /\ UNCHANGED <<mainVars, blocksub, worksub, block, work, header, share>>

\* Line 371.  A terminated context ends the wait as well.
Resume ==
    /\ pc = "paused"
    /\ signals > 0 \/ term
    /\ signals' = IF signals > 0 /\ ~term THEN signals - 1 ELSE signals
    /\ pc' = "getwork"
    /\ UNCHANGED <<mainVars, blocksub, worksub, block, work, reset, header, share>>

GetWorkNeverWaits ==                                      \* mutated form
    /\ pc = "getwork"
    /\ IF worksub # << >> /\ ~term
       THEN /\ work' = Head(worksub) /\ worksub' = Tail(worksub)
            /\ reset' = TRUE
       ELSE UNCHANGED <<work, worksub, reset>>
    /\ pc' = "getblock"
    /\ UNCHANGED <<mainVars, signals, blocksub, block, header, share>>

\* Lines 401-404: take the next work; without one, wait for it when the block
\* is ahead of the work, else go on.
GetWork ==
    /\ pc = "getwork"
    /\ \/ /\ worksub # << >> /\ ~term
          /\ work' = Head(worksub) /\ worksub' = Tail(worksub)
          /\ reset' = TRUE
          /\ pc' = "getblock"
       \/ /\ worksub = << >> \/ term
          /\ ~(work < block)
          /\ pc' = "getblock"
          /\ UNCHANGED <<work, worksub, reset>>
       \/ /\ term /\ work < block       \* ReceivePub returns false
          /\ Stop
          /\ reset' = TRUE
          /\ UNCHANGED <<work, worksub>>
    /\ UNCHANGED <<mainVars, signals, blocksub, block, header, share>>

GetBlockNeverWaits ==                                     \* mutated form
    /\ pc = "getblock"
    /\ IF blocksub # << >> /\ ~term
       THEN /\ block' = Head(blocksub) /\ blocksub' = Tail(blocksub)
            /\ pc' = "getwork" /\ UNCHANGED header
       ELSE /\ pc' = "mine"
            /\ header' = IF reset THEN <<block, work>> ELSE header
            /\ UNCHANGED <<block, blocksub>>
    /\ UNCHANGED <<mainVars, signals, worksub, work, reset, share>>

GetBlockOnce ==                                           \* mutated form
    /\ pc = "getblock"
    /\ IF blocksub # << >> /\ ~term
       THEN /\ block' = Head(blocksub) /\ blocksub' = Tail(blocksub)
       ELSE ~(work > block) /\ UNCHANGED <<block, blocksub>>
    /\ pc' = "mine"
    /\ header' = IF reset THEN <<block', work>> ELSE header
    /\ UNCHANGED <<mainVars, signals, worksub, work, reset, share>>

\* Lines 406-411, and lines 417-450 once the loop is left: take the next block
\* and look for a work again; without one, wait for it when the work is ahead
\* of the block; else the pair is settled, and a new work renews the header
\* (and empties all pipelines, see PrimeMining).  A work with a target this
\* build cannot reach ends the thread (line 446): nothing signals the pipe.
GetBlock ==
    /\ pc = "getblock"
    /\ \/ /\ blocksub # << >> /\ ~term
          /\ block' = Head(blocksub) /\ blocksub' = Tail(blocksub)
          /\ pc' = "getwork"
          /\ UNCHANGED header
       \/ /\ blocksub = << >> \/ term
          /\ ~(work > block)
          /\ header' = IF reset THEN <<block, work>> ELSE header
          /\ pc' = "mine" \/ (reset /\ Stop)
          /\ UNCHANGED <<block, blocksub>>
       \/ /\ term /\ work > block       \* ReceivePub returns false
          /\ Stop
          /\ UNCHANGED <<block, blocksub, header>>
    /\ UNCHANGED <<mainVars, signals, worksub, work, reset, share>>

\* An iteration that starts with a reset starts with empty pipelines and has no
\* candidate to check (lines 417-433 and 594): PrimeMining shows it.
MayFindShare == ~reset

\* Lines 649-667: a share names the height of the block, the merkle root of the
\* work, and the hash of a header.
FindShare ==
    /\ pc = "mine" /\ MayFindShare
    /\ share' = [height |-> block, merkle |-> work, header |-> header]
    /\ UNCHANGED <<mainVars, signals, blocksub, worksub, pc, block, work, reset, header>>

\* The end of an iteration, lines 691-697, and the signal of the ended thread.
EndIteration ==
    /\ pc = "mine"
    /\ IF makeExit THEN Stop ELSE pc' = "top"
    /\ UNCHANGED <<mainVars, signals, blocksub, worksub, block, work, reset, header, share>>

Main == \/ \E h \in Height : NotifyBlock(h) \/ TakeWork(h)
        \/ Toggle
        \/ Exit

Worker == Top \/ Resume \/ GetWork \/ GetBlock \/ FindShare \/ EndIteration

Next == Main \/ Worker

Spec == Init /\ [][Next]_vars

-----------------------------------------------------------------------------

\* The thread never works ahead of the block it knows, on the header of a block
\* that does not exist yet for the pool, whatever order the two streams have.
NeverAhead == pc = "mine" => work <= block

\* The header that is searched is the one of the current block and the current
\* work, although a new block alone does not renew it (only `reset' does).
HeaderCurrent == pc = "mine" => header = <<block, work>>

\* A thread can be caught with a work older than its block (a late reply to an
\* earlier request); it then searches one iteration, whose pipelines are empty,
\* and waits for a better work.  So a share always carries a height, a merkle
\* root and a hash of the same height.
ShareConsistent ==
    share # NoShare => /\ share.height = share.merkle
                       /\ share.header = <<share.height, share.merkle>>

\* The two threads never get out of phase over the signals, however late the
\* thread reads them: once the pipe is drained, the thread is paused if and only
\* if the main thread believes it is.
PausedInPhase ==
    ~term /\ pc # "stopped" /\ signals = 0 => (mPaused <=> pc = "paused")

-----------------------------------------------------------------------------
(* Progress.                                                               *)

WorkerStep == Top \/ Resume \/ GetWork \/ GetBlock \/ EndIteration

\* The thread is scheduled, its kernels end; the main thread promises nothing.
FairSpec == Spec /\ WF_vars(WorkerStep)

\* When the client is destroyed the thread ends, whether it mines, is paused or
\* waits for a work or a block (only then can main() terminate the context).
ThreadStops == term ~> pc = "stopped"
=============================================================================
