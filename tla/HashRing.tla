------------------------------ MODULE HashRing ------------------------------
(***************************************************************************)
(* The ring `hashes' of PrimeMiner::Mining (xpmclient.cpp) as its caller   *)
(* uses it.  A hash is pushed when the hashmod kernel has found it, popped *)
(* when a sieve is dispatched for it, and its slot is read again much      *)
(* later, by slot number, when a candidate of that sieve has passed all    *)
(* its Fermat tests: the slot is used AFTER the pop has released it.       *)
(*                                                                         *)
(* `sieved' follows one released slot: the hash it held and how many more  *)
(* pushes its caller may rely on it for.                                   *)
(***************************************************************************)
EXTENDS LifoBuffer, Sequences

CONSTANTS Hash, NoHash

VARIABLES
    ring,       \* the object `hashes'
    out,        \* the hash that hashes.get(hid) returned for the last pop
    sieved      \* [slot, hash, pushes]: a released slot; NoHash when none

ringVars == <<ring, out, sieved>>

Released == [slot : Slots, hash : Hash, pushes : Slots]

NoRelease == [slot |-> 0, hash |-> NoHash, pushes |-> 0]

RingTypeOK ==
    /\ ring \in RingOf(Hash \cup {NoHash})
    /\ out \in Hash \cup {NoHash}
    /\ sieved \in Released \cup {NoRelease}

RingInit == ring = EmptyRing(NoHash) /\ out = NoHash /\ sieved = NoRelease

\* hashes.push(hash), lines 504-506: the new hash is lost when the ring is full.
PushHash(h) ==
    /\ ring' = Push(ring, h)
    /\ sieved' = IF IsFull(ring) \/ sieved.pushes = 0 THEN sieved
                 ELSE [sieved EXCEPT !.pushes = @ - 1]
    /\ UNCHANGED out

\* hid = hashes.pop(), lines 543-549.  `follow' makes this the slot to watch.
PopHash(follow) ==
    /\ ~IsEmpty(ring)
    /\ ring' = Pop(ring)
    /\ out' = Get(ring, PopSlot(ring))
    /\ sieved' = IF follow
                 THEN [slot |-> PopSlot(ring), hash |-> out',
                       pushes |-> Size - Remaining(ring)]
                 ELSE sieved

\* hashes.clear() on new work, line 418.
ClearRing == ring' = Clear(ring) /\ UNCHANGED <<out, sieved>>

RingNext == \/ \E h \in Hash : PushHash(h)
        \/ \E follow \in BOOLEAN : PopHash(follow)
        \/ ClearRing

RingSpec == RingInit /\ [][RingNext]_ringVars

-----------------------------------------------------------------------------

\* Every element waiting in the ring is a real hash: a sieve is never set up
\* from a slot that nothing was stored in (lines 548-586 trust the slot).
Waiting(s) == IF ring.rd <= ring.wr THEN ring.rd <= s /\ s < ring.wr
              ELSE ring.rd <= s \/ s < ring.wr

WaitingIsHash == \A s \in Slots : Waiting(s) => Get(ring, s) \in Hash

\* A slot released by pop() with `remaining' hashes in the ring keeps its hash
\* for Size - remaining further stored pushes, whatever pops and clears come
\* in between: this is the margin that lets "check candis" (line 632) read the
\* slot by number long after the pop.
ReleasedSlotKeepsHash ==
    sieved.pushes > 0 => Get(ring, sieved.slot) = sieved.hash

\* The ring implements the bounded FIFO queue of capacity Size - 1.
QueueOf(r) == [i \in 1 .. Remaining(r) |-> Get(r, (r.rd + i - 1) % Size)]

Fifo == INSTANCE BoundedFifo WITH
            Elem <- Hash, NoElem <- NoHash, Capacity <- Size - 1,
            queue <- QueueOf(ring), out <- out

ImplementsFifo == Fifo!Spec
=============================================================================
