---------------------------- MODULE BoundedFifo ----------------------------
(***************************************************************************)
(* What a buffer of hashes promises Mining(): a first-in first-out queue   *)
(* of at most Capacity elements, which ignores an element it has no room   *)
(* for, hands elements out in the order of their arrival, and can be       *)
(* emptied at once.  `out' is the element handed out last.                 *)
(***************************************************************************)
EXTENDS Naturals, Sequences

CONSTANTS Elem, NoElem, Capacity

VARIABLES queue, out

Init == queue = << >> /\ out = NoElem

Put(e) == queue' = (IF Len(queue) < Capacity THEN Append(queue, e) ELSE queue)
          /\ UNCHANGED out

Take == /\ queue # << >>
        /\ out' = Head(queue)
        /\ queue' = Tail(queue)

Drop == queue' = << >> /\ UNCHANGED out

Next == (\E e \in Elem : Put(e)) \/ Take \/ Drop

Spec == Init /\ [][Next]_<<queue, out>>
=============================================================================
