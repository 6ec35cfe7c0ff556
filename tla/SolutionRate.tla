---------------------------- MODULE SolutionRate ----------------------------
(***************************************************************************)
(* The solutions per second that a thread of the ZCash GPU miner reports:  *)
(* the list _stats of solutions per second of time, pushStats,             *)
(* cleanupStats and calcStats, and the part of ZCashMiner::Mining that     *)
(* sends them every ten seconds.                                           *)
(***************************************************************************)
EXTENDS Integers, Sequences, FiniteSets

CONSTANTS
    Epoch,          \* the time at the start, in seconds
    Period,         \* 10 seconds between two reports
    Window,         \* 60 seconds
    Seconds,        \* bound: how long this is observed
    MaxMined,       \* bound: all solutions
    Sols            \* the numbers of solutions a nonce may have

\* The clock counts from 1970.
ASSUME RateAssumption ==
    /\ Period \in Nat \ {0} /\ Window \in Nat \ {0}
    /\ Epoch \in Nat /\ Period <= Epoch
    /\ Seconds \in Nat /\ MaxMined \in Nat /\ Sols \subseteq Nat

VARIABLES
    time,           \* time(0)
    _stats,         \* solsPerSecond, the latest last
    statsTimeLabel,
    stats_sols,     \* stats.sols: solutions and the seconds they are divided by
    mined,          \* all solutions so far
    atTop           \* the thread is at the top of its loop

rateVars == <<time, _stats, statsTimeLabel, stats_sols, mined, atTop>>

RateInit ==
    /\ time = Epoch
    /\ _stats = <<>>
    /\ statsTimeLabel = Epoch
    /\ stats_sols = [sum |-> 0, timeDiff |-> 0]
    /\ mined = 0 /\ atTop = TRUE

Tick ==
    /\ time < Epoch + Seconds
    /\ time' = time + 1
    /\ UNCHANGED <<_stats, statsTimeLabel, stats_sols, mined, atTop>>

\* The operands of the subtraction are swapped: nothing ever leaves.
IsOld(s) == s.time - time >= Window

cleanupStats(s) ==
    SubSeq(s, Cardinality({i \in DOMAIN s : \A j \in 1 .. i : IsOld(s[j])}) + 1, Len(s))

\* The loop of calcStats after i steps of It, from the back; it ends at the first
\* entry that is not recent.
Walk ==
    LET walk[i \in 0 .. Len(_stats)] ==
            IF i = 0
            THEN [on |-> TRUE, sum |-> 0, last |-> time]
            ELSE LET It == _stats[Len(_stats) - i + 1]
                 IN  IF walk[i - 1].on /\ It.time - time < Window
                     THEN [on |-> TRUE, sum |-> walk[i - 1].sum + It.sols, last |-> It.time]
                     ELSE [walk[i - 1] EXCEPT !.on = FALSE]
    IN  walk

calcStats ==
    LET end == Walk[Len(_stats)]
    IN  [sum |-> end.sum, timeDiff |-> time - end.last]

\* A report, when one is due: from the second one on with every nonce.
Report ==
    /\ atTop
    /\ IF time - statsTimeLabel >= Period
       THEN /\ stats_sols' = calcStats
            /\ statsTimeLabel' = 0
            /\ _stats' = cleanupStats(_stats)
       ELSE UNCHANGED <<stats_sols, statsTimeLabel, _stats>>
    /\ atTop' = FALSE
    /\ UNCHANGED <<time, mined>>

pushStatsOverwrites(nsols) ==                             \* mutated form
    IF _stats # <<>> /\ _stats[Len(_stats)].time = time
    THEN [_stats EXCEPT ![Len(_stats)].sols = nsols]
    ELSE Append(_stats, [time |-> time, sols |-> nsols])

pushStats(nsols) ==
    IF _stats # <<>> /\ _stats[Len(_stats)].time = time
    THEN [_stats EXCEPT ![Len(_stats)].sols = @ + nsols]
    ELSE Append(_stats, [time |-> time, sols |-> nsols])

\* The pipelines have been empty, or a nonce is done.
NothingDone ==
    ~ atTop /\ atTop' = TRUE /\ UNCHANGED <<time, _stats, statsTimeLabel, stats_sols, mined>>

NonceDone ==
    /\ ~ atTop
    /\ \E nsols \in Sols :
          /\ mined + nsols <= MaxMined
          /\ _stats' = pushStats(nsols)
          /\ mined' = mined + nsols
    /\ atTop' = TRUE
    /\ UNCHANGED <<time, statsTimeLabel, stats_sols>>

RateNext == Tick \/ Report \/ NothingDone \/ NonceDone
RateSpec == RateInit /\ [][RateNext]_rateVars

-----------------------------------------------------------------------------
RateTypeOK ==
    /\ time \in Epoch .. Epoch + Seconds
    /\ _stats \in Seq([time : Nat, sols : Nat])
    /\ statsTimeLabel \in {0, Epoch}
    /\ stats_sols \in [sum : Nat, timeDiff : Nat]
    /\ mined \in 0 .. MaxMined /\ atTop \in BOOLEAN
    /\ Len(_stats) <= time - Epoch + 1

\* A report counts every solution of the run once and divides by the time since the
\* first nonce was done: the window of a minute neither drops an entry of the list
\* nor ends the sum, and what is found within one second is added up.
RateOfWholeRun ==
    [][atTop /\ ~ atTop' /\ statsTimeLabel' = 0 =>
          /\ stats_sols'.sum = mined
          /\ stats_sols'.timeDiff = IF _stats = <<>> THEN 0 ELSE time - _stats[1].time]_rateVars
=============================================================================
