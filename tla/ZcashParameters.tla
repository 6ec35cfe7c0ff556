--------------------------- MODULE ZcashParameters ---------------------------
(* The parameters of the ZCash miners and what is assumed of them.  Works are *)
(* numbered in the order they are published.                                 *)
EXTENDS Integers

CONSTANTS
    pipelinesNum,   \* the number of instances of the solver on a GPU
    MaxWork,        \* bound: works
    MaxNonce        \* bound: nonces of a work

ASSUME PipelinesAssumption == pipelinesNum \in Nat \ {0}
ASSUME BoundsAssumption == MaxWork \in Nat /\ MaxNonce \in Nat

Work == 1 .. MaxWork

\* A header, as far as it differs from one nonce to the next.
Header == [work : 0 .. MaxWork, nonce : 0 .. MaxNonce]
=============================================================================
