---------------------------- MODULE DeviceQueues ----------------------------
(***************************************************************************)
(* Who touches which buffer when, in an iteration of PrimeMiner::Mining    *)
(* (xpmclient.cpp 414-449 and 452-694).  The host fills two in-order       *)
(* command queues, mBig (hashing and Fermat tests) and mSmall (sieves),    *)
(* without waiting, and goes on with its own copies of the buffers; only   *)
(* clFinish at the end of the iteration, and one blocking write, bring the *)
(* three together.  The other modules of the iteration take each of its    *)
(* stages as one step: that is sound if nothing is touched on two sides at *)
(* once.                                                                   *)
(*                                                                         *)
(* A place is a buffer on one of the sides.  Of hashBuf the slots that are *)
(* pushed in this iteration and those that candidates still name are two   *)
(* places (HashRing, ReleasedSlotKeepsHash: they do not meet).  A copy of  *)
(* the whole hashBuf leaves the latter as they are, but it touches them.   *)
(***************************************************************************)
EXTENDS Integers, Sequences

CONSTANTS
    FERMAT_PIPELINES,       \* how many pipelines there are
    QueueSieves             \* SW: sieves per round at most

ASSUME QueuesAssumption == FERMAT_PIPELINES \in Nat /\ QueueSieves \in Nat \ {0}

VARIABLES
    todo,           \* what the host has still to do before it goes on
    queued,         \* the commands of each queue that have not run
    segment,        \* where it is in the iteration, 1 to 10
    turn,           \* the next turn of its loop over the sieves
    pipeline,       \* the next of the pipelines
    ridx,           \* iteration % 2
    sieves          \* mSievePerRound

queueVars == <<todo, queued, segment, turn, pipeline, ridx, sieves>>

Queues == {"mBig", "mSmall"}

widx == 1 - ridx

-----------------------------------------------------------------------------
(* Places, what commands and the host do to them.                          *)

\* The buffers that only one of the queues touches, and the two that both do.
BigBuffers == {"midstate", "hashmodCount", "found", "primorialBitField", "finalInfo",
               "finalCount", "info", "count", "input", "output"}
SmallBuffers == {"hashBufPushed", "sieveOff", "sieveBuf", "candidatesCount"}
SharedBuffers == {"hashBufNamed", "sieveBuffers"}

\* A buffer on a side, with the sieve, the pipeline and the half it is for, 0 if there is
\* one only.
Place == {"device", "host"} \X (BigBuffers \union SmallBuffers \union SharedBuffers)
         \X Nat \X Nat \X (0 .. 1)

dev(name) == <<"device", name, 0, 0, 0>>
devAt(name, sieve, pipe, half) == <<"device", name, sieve, pipe, half>>
host(name) == <<"host", name, 0, 0, 0>>
hostAt(name, sieve, pipe, half) == <<"host", name, sieve, pipe, half>>

\* What a command or the host does to places.
Command == [reads : SUBSET Place, writes : SUBSET Place, rewrites : SUBSET Place]
Deed == [do : {"host", "enqueue", "wait"}, queue : Queues \union {"none"}, what : Command]

Access(reads, writes, rewrites) == [reads |-> reads, writes |-> writes, rewrites |-> rewrites]

\* The three things the host does: touch its own copies, enqueue a command, wait for a queue.
Host(reads, writes) == [do |-> "host", queue |-> "none", what |-> Access(reads, writes, {})]
Enqueue(q, reads, writes) == [do |-> "enqueue", queue |-> q, what |-> Access(reads, writes, {})]
Wait(q) == [do |-> "wait", queue |-> q, what |-> Access({}, {}, {})]

\* clBuffer::copyToDevice and copyToHost with blocking = false.
copyToDevice(q, h, d) == Enqueue(q, {h}, {d})
copyToHost(q, h, d) == Enqueue(q, {d}, {h})

Conflict(a, b) ==
    \/ a.writes \cap (b.reads \union b.writes \union b.rewrites) # {}
    \/ b.writes \cap (a.reads \union a.rewrites) # {}

-----------------------------------------------------------------------------
(* What the host does between two of its conditions.                       *)

\* simplePrecalcSHA256: the one blocking copy.
simplePrecalcSHA256 ==
    <<Host({}, {host("midstate")}), copyToDevice("mBig", host("midstate"), dev("midstate")),
      Wait("mBig")>>

\* "reset if new work"
Reset ==
    <<Host({}, {host("hashmodCount"), host("finalCount")}
               \union {hostAt("count", 0, p, h) : p \in 0 .. FERMAT_PIPELINES - 1, h \in 0 .. 1}
               \union {hostAt("candidatesCount", s, 0, h) : s \in 0 .. sieves - 1,
                                                           h \in 0 .. 1})>>
    \o simplePrecalcSHA256

hashBuf(side) == {<<side, "hashBufNamed", 0, 0, 0>>, <<side, "hashBufPushed", 0, 0, 0>>}

copyHashBuf ==
    [do |-> "enqueue", queue |-> "mSmall",
     what |-> Access(hashBuf("host"), {dev("hashBufPushed")}, {dev("hashBufNamed")})]

FetchFound ==
    <<Host({host("found"), host("primorialBitField")}, {host("hashBufPushed")}), copyHashBuf>>

FetchHashmod(found) ==
    <<Host({host("hashmodCount")}, {})>>
    \o (IF found THEN FetchFound ELSE <<>>)
    \o <<Host({}, {host("hashmodCount")})>>

DispatchHashmod ==
    <<copyToDevice("mBig", host("hashmodCount"), dev("hashmodCount")),
      Enqueue("mBig", {dev("midstate")},
              {dev("found"), dev("primorialBitField"), dev("hashmodCount")}),
      copyToHost("mBig", host("found"), dev("found")),
      copyToHost("mBig", host("primorialBitField"), dev("primorialBitField")),
      copyToHost("mBig", host("hashmodCount"), dev("hashmodCount"))>>

\* mSieveSetup, mSieve twice, and mSieveSearch between its counters, for sieve i.
DispatchSieve(i) ==
    LET count(side) == <<side, "candidatesCount", i, 0, widx>>
        candidates == {devAt("sieveBuffers", i, p, widx) : p \in 0 .. FERMAT_PIPELINES - 1}
    IN  <<Enqueue("mSmall", hashBuf("device"),
                  {devAt("sieveOff", 0, 0, 0), devAt("sieveOff", 0, 0, 1)}),
          Enqueue("mSmall", {devAt("sieveOff", 0, 0, 0)}, {devAt("sieveBuf", 0, 0, 0)}),
          Enqueue("mSmall", {devAt("sieveOff", 0, 0, 1)}, {devAt("sieveBuf", 0, 0, 1)}),
          copyToDevice("mSmall", count("host"), count("device")),
          Enqueue("mSmall", {devAt("sieveBuf", 0, 0, 0), devAt("sieveBuf", 0, 0, 1)},
                  candidates \union {count("device")}),
          copyToHost("mSmall", count("host"), count("device"))>>

FetchCandis ==
    <<Host({host("finalCount"), host("finalInfo")}, {host("finalCount")}),
      copyToDevice("mBig", host("finalCount"), dev("finalCount"))>>

\* The counters and the candidates of pipeline p.
count(p, h) == hostAt("count", 0, p, h)
info(p, h) == devAt("info", 0, p, h)

\* What the iteration before has left over, if anything.
CopyLeft(p, left) ==
    <<Host({count(p, widx)}, {})>>
    \o (IF left
        THEN <<Enqueue("mBig", {info(p, widx)}, {info(p, ridx)}),
               Host({count(p, ridx)}, {count(p, ridx)})>>
        ELSE <<>>)

\* What sieve i has found, if anything.
CopyFound(p, i, avail) ==
    LET found == hostAt("candidatesCount", i, 0, ridx)
    IN  <<Host({found}, {})>>
        \o (IF avail
            THEN <<Enqueue("mBig", {devAt("sieveBuffers", i, p, ridx)}, {info(p, ridx)}),
                   Host({count(p, ridx)}, {count(p, ridx), found})>>
            ELSE <<>>)

\* A round of tests, if there is a whole block.
Tests(p, whole) ==
    LET devCount == devAt("count", 0, p, widx)
        input == devAt("input", 0, p, 0)
        output == devAt("output", 0, p, 0)
    IN  <<Host({count(p, ridx)}, {count(p, widx)}),
          copyToDevice("mBig", count(p, widx), devCount)>>
        \o (IF whole
            THEN <<Enqueue("mBig", {info(p, ridx), dev("hashBufNamed")}, {input}),
                   Enqueue("mBig", {input}, {output}),
                   Enqueue("mBig", {output, info(p, ridx)},
                           {info(p, widx), devCount, dev("finalInfo"), dev("finalCount")}),
                   copyToHost("mBig", count(p, widx), devCount)>>
            ELSE <<>>)

FetchFinal ==
    <<copyToHost("mBig", host("finalInfo"), dev("finalInfo")),
      copyToHost("mBig", host("finalCount"), dev("finalCount"))>>

ReadCounts == <<Host({count(p, ridx) : p \in 0 .. FERMAT_PIPELINES - 1}, {})>>

\* Only one of the queues is waited for.
FinishBigTwice == <<Wait("mBig"), Wait("mBig")>>                   \* mutated form

\* clFinish of both queues.
Finish == <<Wait("mBig"), Wait("mSmall")>>

-----------------------------------------------------------------------------

\* No iteration has begun: as behind the last one, but with odd parity.
QueueInit ==
    /\ segment = 10 /\ todo = <<>> /\ turn = 0 /\ pipeline = FERMAT_PIPELINES /\ ridx = 1
    /\ sieves \in 1 .. QueueSieves
    /\ queued = [q \in Queues |-> <<>>]

\* The host goes on from one of the segments to the next, or to its next turn.
GoOn(from, to, program) ==
    /\ segment \in from /\ todo = <<>>
    /\ todo' = program
    /\ segment' = to
    /\ UNCHANGED queued

\* A new iteration, with new work or without.
NewIteration ==
    /\ GoOn({10}, 1, Reset) \/ GoOn({10}, 1, <<>>)
    /\ ridx' = widx /\ turn' = 0 /\ pipeline' = 0
    /\ UNCHANGED sieves

HashmodFetch ==
    /\ \E found \in BOOLEAN : GoOn({1}, 2, FetchHashmod(found))
    /\ UNCHANGED <<turn, pipeline, ridx, sieves>>

\* The time is stepped before, if nonces have run out.
HashmodDispatch ==
    /\ \/ GoOn({2}, 3, simplePrecalcSHA256 \o DispatchHashmod)
       \/ GoOn({2}, 3, DispatchHashmod)
       \/ GoOn({2}, 3, <<>>)
    /\ UNCHANGED <<turn, pipeline, ridx, sieves>>

\* One turn of the loop, which ends early when the ring is empty.
SieveDispatch ==
    /\ turn < sieves
    /\ GoOn({3, 4}, 4, DispatchSieve(turn))
    /\ turn' = turn + 1
    /\ UNCHANGED <<pipeline, ridx, sieves>>

GetCandis ==
    /\ GoOn({3, 4}, 5, FetchCandis)
    /\ UNCHANGED <<turn, pipeline, ridx, sieves>>

\* FermatDispatch for the next pipeline, up to the loop over the sieves.
FermatDispatch ==
    /\ pipeline < FERMAT_PIPELINES
    /\ \E left \in BOOLEAN : GoOn({5, 7}, 6, CopyLeft(pipeline, left))
    /\ turn' = 0
    /\ UNCHANGED <<pipeline, ridx, sieves>>

\* One turn of that loop.
FermatFound ==
    /\ turn < sieves
    /\ \E avail \in BOOLEAN : GoOn({6}, 6, CopyFound(pipeline, turn, avail))
    /\ turn' = turn + 1
    /\ UNCHANGED <<pipeline, ridx, sieves>>

\* The rest of FermatDispatch.
FermatTests ==
    /\ turn = sieves
    /\ \E whole \in BOOLEAN : GoOn({6}, 7, Tests(pipeline, whole))
    /\ pipeline' = pipeline + 1
    /\ UNCHANGED <<turn, ridx, sieves>>

GetFinal ==
    /\ pipeline = FERMAT_PIPELINES
    /\ GoOn({5, 7}, 8, FetchFinal)
    /\ UNCHANGED <<turn, pipeline, ridx, sieves>>

\* "adjust sieves per round"; the check of candidates behind it touches no buffer.
Adjust ==
    /\ GoOn({8}, 9, ReadCounts)
    /\ sieves' \in {sieves, IF sieves < QueueSieves THEN sieves + 1 ELSE sieves}
    /\ UNCHANGED <<turn, pipeline, ridx>>

EndIteration ==
    /\ GoOn({9}, 10, Finish)
    /\ UNCHANGED <<turn, pipeline, ridx, sieves>>

\* The host touches its copies, enqueues, or waits.
HostStep ==
    /\ todo # <<>>
    /\ todo' = Tail(todo)
    /\ \/ Head(todo).do = "host" /\ UNCHANGED queued
       \/ /\ Head(todo).do = "enqueue"
          /\ queued' = [queued EXCEPT ![Head(todo).queue] = Append(@, Head(todo).what)]
       \/ Head(todo).do = "wait" /\ queued[Head(todo).queue] = <<>> /\ UNCHANGED queued
    /\ UNCHANGED <<segment, turn, pipeline, ridx, sieves>>

\* A queue completes its oldest command.
Execute(q) ==
    /\ queued[q] # <<>>
    /\ queued' = [queued EXCEPT ![q] = Tail(@)]
    /\ UNCHANGED <<todo, segment, turn, pipeline, ridx, sieves>>

QueueNext ==
    \/ NewIteration \/ HashmodFetch \/ HashmodDispatch \/ SieveDispatch \/ GetCandis
    \/ FermatDispatch \/ FermatFound \/ FermatTests \/ GetFinal \/ Adjust \/ EndIteration
    \/ HostStep \/ \E q \in Queues : Execute(q)

QueueSpec == QueueInit /\ [][QueueNext]_queueVars

-----------------------------------------------------------------------------

QueueTypeOK ==
    /\ segment \in 1 .. 10 /\ ridx \in 0 .. 1 /\ sieves \in 1 .. QueueSieves
    /\ turn \in 0 .. QueueSieves /\ pipeline \in 0 .. FERMAT_PIPELINES
    /\ todo \in Seq(Deed) /\ queued \in [Queues -> Seq(Command)]

\* The host never touches what a pending command touches, and no two commands that are
\* pending in different queues conflict: whatever order the queues run in, every stage sees
\* what the stages before it have left.
NothingTouchedTwice ==
    /\ \A i \in DOMAIN queued["mBig"], j \in DOMAIN queued["mSmall"] :
          ~Conflict(queued["mBig"][i], queued["mSmall"][j])
    /\ todo # <<>> /\ Head(todo).do = "host" =>
          \A q \in Queues : \A i \in DOMAIN queued[q] :
              ~Conflict(queued[q][i], Head(todo).what)

=============================================================================
