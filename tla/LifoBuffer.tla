----------------------------- MODULE LifoBuffer -----------------------------
(***************************************************************************)
(* The class template lifoBuffer<T> of xpmclient.h: a ring of Size slots   *)
(* with a read and a write position.  In spite of its name it hands its    *)
(* elements out in the order they came in.  An instance is the record      *)
(*     [data |-> [Slots -> T], rd |-> _readPos, wr |-> _writePos]          *)
(* One slot always stays free, so that rd = wr means "empty".              *)
(*                                                                         *)
(* The members return slot numbers and the caller then reads the slot with *)
(* get(): PushSlot and PopSlot are those results, Push and Pop the effect  *)
(* on the record.                                                          *)
(***************************************************************************)
EXTENDS Naturals

CONSTANT Size         \* constructor argument; PW = 512 in Mining()

ASSUME SizeAssumption == Size \in Nat /\ Size > 1

Slots == 0 .. (Size - 1)

RingOf(T) == [data : [Slots -> T], rd : Slots, wr : Slots]

EmptyRing(e) == [data |-> [s \in Slots |-> e], rd |-> 0, wr |-> 0]

NextPosNoWrap(pos) == pos + 1                              \* mutated form

NextPos(pos) == (pos + 1) % Size

IsEmpty(r) == r.rd = r.wr

Remaining(r) == IF r.wr >= r.rd THEN r.wr - r.rd ELSE Size - (r.rd - r.wr)

IsFull(r) == NextPos(r.wr) = r.rd

Get(r, s) == r.data[s]

ClearToStart(r) == [r EXCEPT !.rd = 0, !.wr = 0]            \* mutated form

\* Forgets the elements but not the contents of the slots.
Clear(r) == [r EXCEPT !.rd = r.wr]

-----------------------------------------------------------------------------
(* Mutated forms of Push and Pop, for checking the properties.             *)

PushNextSlot(r, e) ==
    IF IsFull(r) THEN r
    ELSE [r EXCEPT !.data = [@ EXCEPT ![NextPos(r.wr)] = e], !.wr = NextPos(r.wr)]

PopNewest(r) == IF IsEmpty(r) THEN r ELSE [r EXCEPT !.wr = (r.wr + Size - 1) % Size]

-----------------------------------------------------------------------------

\* A full ring is left alone and the element is lost; the caller is told the
\* write position all the same.
Push(r, e) ==
    IF IsFull(r) THEN r
    ELSE [r EXCEPT !.data = [@ EXCEPT ![r.wr] = e], !.wr = NextPos(r.wr)]

PushSlot(r) == r.wr

Pop(r) == IF IsEmpty(r) THEN r ELSE [r EXCEPT !.rd = NextPos(r.rd)]

PopSlot(r) == r.rd
=============================================================================
