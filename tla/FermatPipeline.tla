--------------------------- MODULE FermatPipeline ---------------------------
(***************************************************************************)
(* The Fermat test pipelines of PrimeMiner::Mining (xpmclient.cpp): for    *)
(* each size of number (fermat320, fermat352) a double-buffered list of    *)
(* prime-chain candidates.  In every iteration the host joins, in buffer   *)
(* `ridx',                                                                 *)
(*     the survivors of the previous iteration (already there),            *)
(*     the candidates the previous iteration left untested, and            *)
(*     the new candidates of the previous iteration's sieves,              *)
(* and lets the device test as many whole blocks of them as there are.     *)
(* A tested candidate that passes goes to buffer `widx', or to `final'     *)
(* once it has passed Depth tests.  The roles of the two buffers swap with *)
(* the parity of the iteration.                                            *)
(*                                                                         *)
(* A buffer is the sequence of the entries that its counter count[0]       *)
(* covers; the counter is the length of the sequence.                      *)
(***************************************************************************)
EXTENDS Naturals, FiniteSets, Sequences

CONSTANTS
    Pipe,           \* the pipelines: fermat320 and fermat352
    Id,             \* identities of candidates, reused once settled
    BlockSize,      \* mBlockSize, the unit of a dispatch
    Depth,          \* mDepth, the tests a candidate has to pass
    MaxNew          \* bound: new candidates per pipeline and iteration (MSO)

ASSUME BlockSizeAssumption == BlockSize \in Nat \ {0}
ASSUME DepthAssumption == Depth \in Nat \ {0}
ASSUME MaxNewAssumption == MaxNew \in Nat

VARIABLES
    parity,     \* iteration % 2
    phase,      \* "host": both queues are finished; "device": kernels run
    buf,        \* buf[p][i]: fermat.buffer[i].info, up to its count
    bsize,      \* fermat.bsize
    ran,        \* work items of this iteration's check_fermat that are done
    sieve,      \* sieve[p][i]: sieveBuffers[..][p][i], up to its count
    final,      \* final.info, up to its count
    live,       \* ghost: candidates found by a sieve and not settled yet
    passed      \* ghost: tests each candidate has passed since it was found

vars == <<parity, phase, buf, bsize, ran, sieve, final, live, passed>>

Cand == [id : Id, chainpos : 0 .. (Depth - 1)]

Proven == [id : Id, chainpos : {Depth}]

ridx == parity
widx == 1 - parity

TypeOK ==
    /\ parity \in {0, 1}
    /\ phase \in {"host", "device"}
    /\ buf \in [Pipe -> [{0, 1} -> Seq(Cand)]]
    /\ bsize \in [Pipe -> Nat]
    /\ ran \in [Pipe -> SUBSET (Nat \ {0})]
    /\ sieve \in [Pipe -> [{0, 1} -> Seq(Cand)]]
    /\ final \in Seq(Proven)
    /\ live \subseteq Id
    /\ passed \in [Id -> Nat]

\* A pair of buffers whose counters are zero.
Emptied == [i \in {0, 1} |-> << >>]

Init ==
    /\ parity = 0
    /\ phase = "host"
    /\ buf = [p \in Pipe |-> Emptied]
    /\ bsize = [p \in Pipe |-> 0]
    /\ ran = [p \in Pipe |-> {}]
    /\ sieve = [p \in Pipe |-> Emptied]
    /\ final = << >>
    /\ live = {}
    /\ passed = [id \in Id |-> 0]

-----------------------------------------------------------------------------
(* Mutated forms of the definitions below.                                 *)

JoinedOldestLast(p) ==
    buf[p][ridx] \o sieve[p][ridx] \o SubSeq(buf[p][widx], bsize[p] + 1, Len(buf[p][widx]))
DoneOneEarly(c) == c.chainpos + 1 >= Depth
ResetKeepsFinal ==
    /\ phase = "host"
    /\ buf' = [p \in Pipe |-> Emptied]
    /\ bsize' = [p \in Pipe |-> 0]
    /\ sieve' = [p \in Pipe |-> Emptied]
    /\ live' = {}
    /\ UNCHANGED <<parity, phase, ran, final, passed>>
ResetKeepsBsize ==
    /\ phase = "host"
    /\ buf' = [p \in Pipe |-> Emptied]
    /\ sieve' = [p \in Pipe |-> Emptied]
    /\ final' = << >>
    /\ live' = {}
    /\ UNCHANGED <<parity, phase, ran, bsize, passed>>

-----------------------------------------------------------------------------
(* FermatDispatch.                                                         *)

\* Lines 196-198: the number of candidates to test.  A single block that is
\* exactly full is not tested either.
WholeBlocks(n) == IF n > BlockSize THEN n - (n % BlockSize) ELSE 0

\* Lines 168-176: the candidates of the other buffer the last dispatch did not
\* reach.  The code computes their number as an unsigned difference.
Left(p) == SubSeq(buf[p][widx], bsize[p] + 1, Len(buf[p][widx]))

\* Lines 166-191: the contents of buffer ridx to be tested next.
Joined(p) == buf[p][ridx] \o Left(p) \o sieve[p][ridx]

\* "Get candis" and the two FermatDispatch calls, lines 593-608.  `final' is
\* copied out (the copy is checked on the host, lines 624-689, while the device
\* runs) and emptied, and both pipelines are dispatched.
Dispatch ==
    /\ phase = "host"
    /\ live' = live \ {final[k].id : k \in 1 .. Len(final)}
    /\ final' = << >>
    /\ buf' = [p \in Pipe |-> [buf[p] EXCEPT ![ridx] = Joined(p), ![widx] = << >>]]
    /\ bsize' = [p \in Pipe |-> WholeBlocks(Len(Joined(p)))]
    /\ sieve' = [p \in Pipe |-> [sieve[p] EXCEPT ![ridx] = << >>]]
    /\ phase' = "device"
    /\ UNCHANGED <<parity, ran, passed>>

\* "Reset if new work", lines 417-433; it happens between two iterations.
Reset ==
    /\ phase = "host"
    /\ buf' = [p \in Pipe |-> Emptied]
    /\ bsize' = [p \in Pipe |-> 0]
    /\ sieve' = [p \in Pipe |-> Emptied]
    /\ final' = << >>
    /\ live' = {}
    /\ UNCHANGED <<parity, phase, ran, passed>>

-----------------------------------------------------------------------------
(* The kernels.                                                            *)

\* One candidate found by s_sieve (sieve.cl), into the buffer that the next
\* iteration reads.
SieveFinds(p, id) ==
    /\ phase = "device"
    /\ id \notin live
    /\ Len(sieve[p][widx]) < MaxNew
    /\ sieve' = [sieve EXCEPT ![p][widx] = Append(@, [id |-> id, chainpos |-> 0])]
    /\ live' = live \cup {id}
    /\ passed' = [passed EXCEPT ![id] = 0]
    /\ UNCHANGED <<parity, phase, buf, bsize, ran, final>>

\* check_fermat, fermat.cl line 1382: info.chainpos++.
Advanced(c) == [c EXCEPT !.chainpos = @ + 1]

\* The other side of the test info.chainpos < depth, line 1384.
Done(c) == c.chainpos >= Depth

\* One work item of the Fermat kernels, in any order: the number of the
\* candidate at position i is a probable prime or not; atomic_inc makes the
\* order of the survivors the order of the work items.
TestItem(p, i, prime) ==
    /\ phase = "device"
    /\ i \in 1 .. bsize[p] /\ i \notin ran[p]
    /\ ran' = [ran EXCEPT ![p] = @ \cup {i}]
    /\ LET c == buf[p][ridx][i]
       IN  IF prime
           THEN /\ IF Done(Advanced(c))
                   THEN final' = Append(final, Advanced(c)) /\ UNCHANGED buf
                   ELSE /\ buf' = [buf EXCEPT ![p][widx] = Append(@, Advanced(c))]
                        /\ UNCHANGED final
                /\ passed' = [passed EXCEPT ![c.id] = @ + 1]
                /\ UNCHANGED live
           ELSE /\ live' = live \ {c.id}
                /\ UNCHANGED <<buf, final, passed>>
    /\ UNCHANGED <<parity, phase, bsize, sieve>>

\* clFinish of both queues and iteration++, lines 691-697.
Finish ==
    /\ phase = "device"
    /\ \A p \in Pipe : ran[p] = 1 .. bsize[p]
    /\ phase' = "host"
    /\ parity' = 1 - parity
    /\ ran' = [p \in Pipe |-> {}]
    /\ UNCHANGED <<buf, bsize, sieve, final, live, passed>>

Next ==
    \/ Dispatch
    \/ Reset
    \/ Finish
    \/ \E p \in Pipe :
          \/ \E id \in Id : SieveFinds(p, id)
          \/ \E i \in 1 .. bsize[p], prime \in BOOLEAN : TestItem(p, i, prime)

Spec == Init /\ [][Next]_vars

-----------------------------------------------------------------------------

\* The entry at position k of buf[p][i] has been tested: during an iteration
\* when its work item is done, afterwards when the dispatch covered it.
Tested(p, i, k) == IF phase = "device" THEN i = ridx /\ k \in ran[p]
                   ELSE i = widx /\ k <= bsize[p]

\* The places where candidate id waits for a test or for the host.
InBuf(id, p, i) ==
    {<<"buf", p, i, k>> : k \in {k \in DOMAIN buf[p][i] :
                                    buf[p][i][k].id = id /\ ~Tested(p, i, k)}}
InSieve(id, p, i) ==
    {<<"sieve", p, i, k>> : k \in {k \in DOMAIN sieve[p][i] : sieve[p][i][k].id = id}}
InLists(id, p, i) == InBuf(id, p, i) \cup InSieve(id, p, i)
InFinal(id) ==
    {<<"final", k>> : k \in {k \in DOMAIN final : final[k].id = id}}

Places(id) ==
    (UNION {InLists(id, p, i) : p \in Pipe, i \in {0, 1}}) \cup InFinal(id)

\* Line 168 subtracts bsize from a counter that the device has rewritten in
\* between; the unsigned difference must not wrap around, and a dispatch must
\* not cover entries that are not there.
DispatchInBounds ==
    \A p \in Pipe :
        bsize[p] <= Len(buf[p][IF phase = "host" THEN widx ELSE ridx])

\* The copying between the two buffers loses no candidate and makes no second
\* copy of one: each candidate a sieve has found waits in exactly one place
\* until it fails a test or is delivered, and none is left after a reset.
EachCandidateOnce ==
    \A id \in Id : Cardinality(Places(id)) = IF id \in live THEN 1 ELSE 0

\* What arrives in `final' has passed exactly Depth tests: the host counts it
\* as a prime chain of that length (primeCount, line 599).
FinalPassedAllTests ==
    \A k \in DOMAIN final : passed[final[k].id] = Depth

-----------------------------------------------------------------------------
(* Progress.  The host loop goes on and the kernels end; clFinish waits    *)
(* for every work item.                                                    *)

Fairness ==
    /\ WF_vars(Dispatch)
    /\ WF_vars(Finish)
    /\ WF_vars(\E p \in Pipe : \E i \in 1 .. bsize[p], prime \in BOOLEAN :
                  TestItem(p, i, prime))

FairSpec == Spec /\ Fairness

InPipe(p, id) == \E pl \in Places(id) : pl[1] # "final" /\ pl[2] = p

\* A candidate left over by a dispatch is not passed over for ever: as long as
\* sieves go on finding candidates for its pipeline, it is tested to the end.
\* This rests on the order of the copies in FermatDispatch, leftovers before
\* new candidates.
LeftoversGetTested ==
    \A p \in Pipe :
        []<><<\E id \in Id : SieveFinds(p, id)>>_vars
            => \A id \in Id : InPipe(p, id) ~> id \notin live
=============================================================================
