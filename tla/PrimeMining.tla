----------------------------- MODULE PrimeMining -----------------------------
(***************************************************************************)
(* One mining thread of the Primecoin miner, PrimeMiner::Mining            *)
(* (xpmclient.cpp, lines 417-697), from new work to checked candidates:    *)
(*                                                                         *)
(*   hashmod kernel --> hashmod.found --> ring `hashes' --> sieves         *)
(*        --> Fermat pipelines --> final --> check on the host             *)
(*                                                                         *)
(* with one stage of delay between any two of them, all of them running in *)
(* the same iteration on different generations of data.  A candidate names *)
(* its hash by the slot of the ring it lies in.  The ring is LifoBuffer,   *)
(* the pipelines are FermatPipeline; this module adds the hashes, their    *)
(* slots, and the order of the stages within an iteration.                 *)
(*                                                                         *)
(* A hash is represented by the header it was made of (its generation) and *)
(* by its age, the number of iterations since it was pushed, which the     *)
(* code computes as iteration - hash.iter.  Ages stop at Old.              *)
(***************************************************************************)
EXTENDS PrimeParameters, Sequences, FiniteSets

CONSTANTS Pipe, Id, BlockSize, Depth, MaxNew        \* see FermatPipeline

ASSUME PipesAssumption ==
    BlockSize \in Nat \ {0} /\ Depth \in Nat \ {0} /\ MaxNew \in Nat

VARIABLES
    parity, phase, buf, bsize, ran, sieve, final, live, passed,
                        \* see FermatPipeline
    step,               \* where the host is in its iteration
    reset,              \* this iteration began with new work
    gen,                \* the header in use; 0 or 1, flips with each new work
    hashmod,            \* hashmod.found up to hashmod.count
    hashing,            \* the hashmod kernel runs
    hashes,             \* the ring
    sieving,            \* the slots that sieves were dispatched for
    mSievePerRound,
    hashid,             \* hashid[id]: the slot that a candidate names
    age,                \* ghost: the real age of the hash of a candidate
    checked             \* ghost: the candidates checked in this iteration

pipeVars == <<parity, phase, buf, bsize, ran, sieve, final, live, passed>>
miningVars == <<pipeVars, step, reset, gen, hashmod, hashing, hashes, sieving,
          mSievePerRound, hashid, age, checked>>

F == INSTANCE FermatPipeline

Old == Size \div 2 + 1          \* an age above PW/2

hash_t == [gen : {0, 1}, age : 0 .. Old]

Older(a) == IF a < Old THEN a + 1 ELSE a

MiningTypeOK ==
    /\ F!TypeOK
    /\ step \in {"top", "fetch", "sieves", "candis", "device"}
    /\ reset \in BOOLEAN
    /\ gen \in {0, 1}
    /\ hashmod \in Seq({0, 1}) /\ Len(hashmod) <= FoundMax
    /\ hashing \in BOOLEAN
    /\ hashes \in RingOf(hash_t)
    /\ sieving \subseteq Slots
    /\ mSievePerRound \in 1 .. SW
    /\ hashid \in [Id -> Slots]
    /\ age \in [Id -> 0 .. Old]
    /\ checked \in SUBSET [ageSeen : 0 .. Old, age : 0 .. Old, gen : {0, 1}]

MiningInit ==
    /\ F!Init
    /\ step = "top" /\ reset = FALSE /\ gen = 0
    /\ hashmod = << >> /\ hashing = FALSE
    /\ hashes = EmptyRing([gen |-> 0, age |-> 0])
    /\ sieving = {}
    /\ mSievePerRound = SievePerRound
    /\ hashid = [id \in Id |-> 0]
    /\ age = [id \in Id |-> 0]
    /\ checked = {}

-----------------------------------------------------------------------------
(* The host.                                                               *)

Goto(s) == step' = s

MinerNewWorkKeepsRing ==                                       \* mutated form
    /\ step = "top"
    /\ F!Reset
    /\ hashmod' = << >>
    /\ gen' = 1 - gen
    /\ reset' = TRUE /\ Goto("fetch")
    /\ UNCHANGED <<hashing, hashes, sieving, mSievePerRound, hashid, age, checked>>

\* "Reset if new work", lines 417-450: everything that was computed for the old
\* header is forgotten, and the new header is in use.
MinerNewWork ==
    /\ step = "top"
    /\ F!Reset
    /\ hashes' = Clear(hashes) /\ hashmod' = << >>
    /\ gen' = 1 - gen
    /\ reset' = TRUE /\ Goto("fetch")
    /\ UNCHANGED <<hashing, sieving, mSievePerRound, hashid, age, checked>>

SameWork ==
    /\ step = "top"
    /\ reset' = FALSE /\ Goto("fetch")
    /\ UNCHANGED <<pipeVars, gen, hashmod, hashing, hashes, sieving,
                   mSievePerRound, hashid, age, checked>>

\* Line 504 for each hash found, in order: push them all.
Pushed(r, found) ==
    LET push[k \in 0 .. Len(found)] ==
            IF k = 0 THEN r
            ELSE Push(push[k - 1], [gen |-> found[k], age |-> 0])
    IN  push[Len(found)]

WantHashesAlways(r) == TRUE                               \* mutated form

\* Lines 515-517: the ring is to hold HashFactor hashes for each sieve.
WantHashes(r) == HashFactor * mSievePerRound > Remaining(r)

\* "Hashmod fetch & dispatch", lines 452-536.
FetchHashes ==
    /\ step = "fetch" /\ Goto("sieves")
    /\ hashes' = Pushed(hashes, hashmod)
    /\ hashmod' = << >>
    /\ hashing' = WantHashes(hashes')
    /\ UNCHANGED <<pipeVars, reset, gen, sieving, mSievePerRound, hashid, age, checked>>

\* "Sieve dispatch", lines 541-590: one sieve for each hash popped, at most
\* mSievePerRound and as many as there are.
DispatchSieves ==
    /\ step = "sieves" /\ Goto("candis")
    /\ LET n == IF Remaining(hashes) < mSievePerRound THEN Remaining(hashes)
                ELSE mSievePerRound
           pop[k \in 0 .. n] == IF k = 0 THEN hashes ELSE Pop(pop[k - 1])
       IN  /\ hashes' = pop[n]
           /\ sieving' = {PopSlot(pop[k]) : k \in 0 .. (n - 1)}
    /\ UNCHANGED <<pipeVars, reset, gen, hashmod, hashing, mSievePerRound,
                   hashid, age, checked>>

\* Lines 614-615: a pipeline has candidates, but less than a block of them.
Starved(p) == Len(buf'[p][parity]) \in 1 .. (BlockSize - 1)

MoreSievesUncapped(n) == n + 1                            \* mutated form

\* Line 616: when both pipelines starve the number of sieves grows.
MoreSieves(n) == IF n < SW THEN n + 1 ELSE SW

\* "Get candis", the Fermat dispatches, and "check candis" (lines 593-689): the
\* hash of a candidate is whatever its slot holds now (line 632).
CheckCandis ==
    /\ step = "candis" /\ Goto("device")
    /\ F!Dispatch
    /\ checked' = {[ageSeen |-> Get(hashes, hashid[final[k].id]).age,
                    age     |-> age[final[k].id],
                    gen     |-> Get(hashes, hashid[final[k].id]).gen]
                      : k \in 1 .. Len(final)}
    /\ mSievePerRound' = IF \A p \in Pipe : Starved(p)
                         THEN MoreSieves(mSievePerRound)
                         ELSE mSievePerRound
    /\ UNCHANGED <<reset, gen, hashmod, hashing, hashes, sieving, hashid, age>>

\* clFinish and iteration++, lines 691-697.
EndIteration ==
    /\ step = "device" /\ Goto("top")
    /\ F!Finish
    /\ hashing' = FALSE
    /\ hashes' = [hashes EXCEPT !.data = [s \in Slots |->
                     [hashes.data[s] EXCEPT !.age = Older(@)]]]
    /\ age' = [id \in Id |-> IF id \in live THEN Older(age[id]) ELSE 0]
    /\ hashid' = [id \in Id |-> IF id \in live THEN hashid[id] ELSE 0]
    /\ sieving' = {}
    /\ checked' = {}
    /\ UNCHANGED <<reset, gen, hashmod, mSievePerRound>>

-----------------------------------------------------------------------------
(* The device.                                                             *)

\* The hashmod kernel (sha256.cl) finds a hash of the header it was started for.
HashFound ==
    /\ step = "device" /\ hashing /\ Len(hashmod) < FoundMax
    /\ hashmod' = Append(hashmod, gen)
    /\ UNCHANGED <<pipeVars, step, reset, gen, hashing, hashes, sieving,
                   mSievePerRound, hashid, age, checked>>

\* A sieve finds a candidate; it notes the slot of its hash (line 583).
CandidateFound ==
    \E p \in Pipe, id \in Id, s \in sieving :
        /\ F!SieveFinds(p, id)
        /\ hashid' = [hashid EXCEPT ![id] = s]
        /\ age' = [age EXCEPT ![id] = Get(hashes, s).age]
        /\ UNCHANGED <<step, reset, gen, hashmod, hashing, hashes, sieving,
                       mSievePerRound, checked>>

FermatTest ==
    /\ \E p \in Pipe : \E i \in 1 .. bsize[p], prime \in BOOLEAN : F!TestItem(p, i, prime)
    /\ UNCHANGED <<step, reset, gen, hashmod, hashing, hashes, sieving,
                   mSievePerRound, hashid, age, checked>>

MiningNext == \/ MinerNewWork \/ SameWork \/ FetchHashes \/ DispatchSieves \/ CheckCandis
              \/ EndIteration
              \/ HashFound \/ CandidateFound \/ FermatTest

MiningSpec == MiningInit /\ [][MiningNext]_miningVars

-----------------------------------------------------------------------------

WaitingSlot(s) == IF hashes.rd <= hashes.wr THEN hashes.rd <= s /\ s < hashes.wr
              ELSE hashes.rd <= s \/ s < hashes.wr

\* An iteration that begins with new work has no candidate to check, so that it
\* cannot send a share (MiningWorker relies on it).
NoCandidateAfterReset ==
    step = "candis" /\ reset => final = << >>

\* Nothing computed for an earlier header survives new work in any of the
\* stages: all that is found, waits to be sieved, is being tested or is about to
\* be checked belongs to the header in use.  The share that is made of a
\* candidate takes its merkle root from the work in use (line 653).
OneHeaderInAllStages ==
    /\ \A k \in DOMAIN hashmod : hashmod[k] = gen
    /\ \A s \in Slots : WaitingSlot(s) => Get(hashes, s).gen = gen
    /\ \A k \in DOMAIN final : Get(hashes, hashid[final[k].id]).gen = gen
    /\ \A id \in live : Get(hashes, hashid[id]).gen = gen
    /\ \A c \in checked : c.gen = gen
    /\ NoCandidateAfterReset

\* The ring never refuses a hash: the kernel is only started when there is room
\* for all that it can report.
RingNeverFull ==
    step = "fetch" => Remaining(hashes) + Len(hashmod) <= Size - 1

\* A pipeline keeps the candidate's slot number only; what the code says it
\* warns of ("candidate age > PW/2", line 636) is that a candidate has become
\* so old that its slot may have been reused.  Whenever that is so it warns.
AgeWarning ==
    \A c \in checked : c.age > Size \div 2 => c.ageSeen > Size \div 2
=============================================================================
