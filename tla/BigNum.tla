------------------------------- MODULE BigNum -------------------------------
(***************************************************************************)
(* The arithmetic of the Fermat kernels on numbers of several limbs:       *)
(* gpu/procs.cl and the first half of gpu/fermat.cl.                       *)
(*                                                                         *)
(* procs.cl is unrolled: one block per column of the product, and in a     *)
(* block one line per product.  Here a column is the set of its products,  *)
(* and the blocks are the values of a recursive function.  A number is a   *)
(* function from the positions of its limbs, the lowest being 0.           *)
(***************************************************************************)
EXTENDS Integers, FiniteSetsExt, TLC

CONSTANTS
    LimbBits,       \* 32: bits of a limb
    N320, N352      \* 10, 11: limbs of the two sizes of numbers

ASSUME LimbBitsAssumption == LimbBits \in Nat \ {0}
ASSUME SizesAssumption == N320 \in Nat \ {0} /\ N352 \in Nat \ {0}

W == 2 ^ LimbBits
Limb == 0 .. W - 1
Number(n) == [0 .. n - 1 -> Limb]

\* The number of n limbs that is zero but for limb i.
Single(n, i, x) == [j \in 0 .. n - 1 |-> IF j = i THEN x ELSE 0]
Lowest(a, n) == [i \in 0 .. n - 1 |-> a[i]]

\* A product of two limbs, its low word and mul_hi.
Lo(x) == x % W
Hi(x) == x \div W

-----------------------------------------------------------------------------
(* Columns.  accLow and accHi have twice the bits of a limb.               *)

Wide(x) == x % (W * W)
Acc(lo, hi) == [lo |-> lo, hi |-> hi]

AddProduct(acc, x, y) == Acc(Wide(acc.lo + Lo(x * y)), Wide(acc.hi + Hi(x * y)))

\* The products a[i] * b[j] with i + j = k.
AddColumn(acc, a, b, k) ==
    LET pairs == {i \in DOMAIN a : k - i \in DOMAIN b}
    IN  Acc(Wide(acc.lo + MapThenSumSet(LAMBDA i : Lo(a[i] * b[k - i]), pairs)),
            Wide(acc.hi + MapThenSumSet(LAMBDA i : Hi(a[i] * b[k - i]), pairs)))

\* The same for a square: each product of two different limbs is added twice.
AddSquareColumn(acc, a, k) ==
    LET pairs == {i \in DOMAIN a : k - i \in DOMAIN a /\ i < k - i}
        cross == Acc(Wide(acc.lo + 2 * MapThenSumSet(LAMBDA i : Lo(a[i] * a[k - i]), pairs)),
                     Wide(acc.hi + 2 * MapThenSumSet(LAMBDA i : Hi(a[i] * a[k - i]), pairs)))
    IN  IF k % 2 = 0 /\ k \div 2 \in DOMAIN a
        THEN AddProduct(cross, a[k \div 2], a[k \div 2])
        ELSE cross

CarryLost(acc, next) == Acc(Wide(acc.hi), next)                   \* mutated form

\* The end of a block: on to the next column, whose accHi starts with next.
Carry(acc, next) == Acc(Wide(acc.hi + Hi(acc.lo)), next)

-----------------------------------------------------------------------------
(* Montgomery reduction.  In each of the lower n columns invValue[k] is    *)
(* chosen such that adding invValue[k] * mod makes the column zero; the    *)
(* upper columns are written over the operand, from limb 0 on.             *)

Sub(a, b) ==
    LET d[i \in DOMAIN a] ==
          IF i = 0 THEN (a[0] - b[0]) % W
          ELSE LET borrow == IF d[i - 1] > a[i - 1] THEN 1 ELSE 0
               IN  (a[i] - ((b[i] + borrow) % W)) % W
    IN  d

\* The blocks with invValue: Column adds the products of the operands, first is
\* the accumulator at the beginning, next(k) the accHi that column k starts with.
LowerColumns(n, Column(_, _), first, next(_), mod, invm) ==
    LET block[k \in 0 .. n] ==
          IF k = 0 THEN [acc |-> first, invValue |-> << >>]
          ELSE LET p == block[k - 1]
                   c == AddColumn(Column(p.acc, k - 1), p.invValue, mod, k - 1)
                   q == (invm * Lo(c.lo)) % W
               IN  [acc |-> Carry(AddProduct(c, q, mod[0]), next(k)),
                    invValue |-> p.invValue @@ (k - 1 :> q)]
    IN  block[n]

\* The blocks that write op, and the last lines.
UpperColumns(n, Column(_, _, _), lower, op, mod) ==
    LET block[k \in 0 .. n - 1] ==
          IF k = 0 THEN [acc |-> lower.acc, op |-> op]
          ELSE LET p == block[k - 1]
                   c == AddColumn(Column(p.acc, p.op, n + k - 1), lower.invValue, mod, n + k - 1)
               IN  [acc |-> Carry(c, 0), op |-> [p.op EXCEPT ![k - 1] = Lo(c.lo)]]
        last == block[n - 1]
        out == [last.op EXCEPT ![n - 1] = Lo(last.acc.lo)]
    IN  IF Hi(last.acc.lo) # 0 THEN Sub(out, mod) ELSE out

Zero(k) == 0

SqrLower(n, op, mod, invm) ==
    LowerColumns(n, LAMBDA acc, k : AddSquareColumn(acc, op, k), Acc(0, 0), Zero, mod, invm)
SqrUpper(n, lower, op, mod) ==
    UpperColumns(n, LAMBDA acc, o, k : AddSquareColumn(acc, o, k), lower, op, mod)

MulLower(n, op1, op2, mod, invm) ==
    LowerColumns(n, LAMBDA acc, k : AddColumn(acc, op1, op2, k), Acc(0, 0), Zero, mod, invm)
MulUpper(n, lower, op1, op2, mod) ==
    UpperColumns(n, LAMBDA acc, o, k : AddColumn(acc, o, op2, k), lower, op1, mod)

\* The operand has n limbs only: its limbs enter the accumulator one by one.
HalfLower(n, op, mod, invm) ==
    LowerColumns(n, LAMBDA acc, k : acc, Acc(op[0], op[1]),
                 LAMBDA k : IF k + 1 < n THEN op[k + 1] ELSE 0, mod, invm)
HalfUpper(n, lower, op, mod) ==
    UpperColumns(n, LAMBDA acc, o, k : acc, lower, op, mod)

\* The two halves of each routine, as procs.cl has them for both sizes.
monSqr320Lower(op, mod, invm) == SqrLower(N320, op, mod, invm)
monSqr320(op, mod, invm) == SqrUpper(N320, monSqr320Lower(op, mod, invm), op, mod)
monMul320Lower(op1, op2, mod, invm) == MulLower(N320, op1, op2, mod, invm)
monMul320(op1, op2, mod, invm) ==
    MulUpper(N320, monMul320Lower(op1, op2, mod, invm), op1, op2, mod)
redcHalf320Lower(op, mod, invm) == HalfLower(N320, op, mod, invm)
redcHalf320(op, mod, invm) == HalfUpper(N320, redcHalf320Lower(op, mod, invm), op, mod)

monSqr352Lower(op, mod, invm) == SqrLower(N352, op, mod, invm)
monSqr352(op, mod, invm) == SqrUpper(N352, monSqr352Lower(op, mod, invm), op, mod)
monMul352Lower(op1, op2, mod, invm) == MulLower(N352, op1, op2, mod, invm)
monMul352(op1, op2, mod, invm) ==
    MulUpper(N352, monMul352Lower(op1, op2, mod, invm), op1, op2, mod)
redcHalf352Lower(op, mod, invm) == HalfLower(N352, op, mod, invm)
redcHalf352(op, mod, invm) == HalfUpper(N352, redcHalf352Lower(op, mod, invm), op, mod)

-----------------------------------------------------------------------------
(* Products without reduction.  Of a number of n limbs and the lowest few  *)
(* limbs of another only the first limbs of the product are written: the   *)
(* caller needs the lowest n of them.                                      *)

\* The blocks that write out[from] to out[to - 1].
ProductBlocks(start, from, to, Column(_, _)) ==
    LET block[k \in from .. to] ==
          IF k = from THEN start
          ELSE LET p == block[k - 1]
                   c == Column(p.acc, k - 1)
               IN  [acc |-> Carry(c, 0), out |-> p.out @@ (k - 1 :> Lo(c.lo))]
    IN  block[to]

NoBlock == [acc |-> Acc(0, 0), out |-> << >>]

MulBlocks(n1, n2, start, from, to, op1, op2) ==
    ProductBlocks(start, from, to,
                  LAMBDA acc, k : AddColumn(acc, Lowest(op1, n1), Lowest(op2, n2), k))
SqrBlocks(n, start, from, to, op) ==
    ProductBlocks(start, from, to, LAMBDA acc, k : AddSquareColumn(acc, Lowest(op, n), k))

MulScan(n1, n2, limbs, op1, op2) == MulBlocks(n1, n2, NoBlock, 0, limbs, op1, op2).out

mulProductScan320to96(op1, op2)  == MulScan(N320, 3, N320 + 1, op1, op2)
mulProductScan320to128(op1, op2) == MulScan(N320, 4, N320 + 1, op1, op2)
mulProductScan320to192(op1, op2) == MulScan(N320, 6, N320 + 4, op1, op2)
mulProductScan352to96(op1, op2)  == MulScan(N352, 3, N352 + 1, op1, op2)
mulProductScan352to128(op1, op2) == MulScan(N352, 4, N352 + 1, op1, op2)
mulProductScan352to192(op1, op2) == MulScan(N352, 6, N352 + 1, op1, op2)

\* The full products, first the columns that grow and then those that shrink.
mulProductScan320to320Lower(op1, op2) == MulBlocks(N320, N320, NoBlock, 0, N320, op1, op2)
mulProductScan320to320(op1, op2) ==
    MulBlocks(N320, N320, mulProductScan320to320Lower(op1, op2), N320, 2 * N320, op1, op2).out
mulProductScan352to352Lower(op1, op2) == MulBlocks(N352, N352, NoBlock, 0, N352, op1, op2)
mulProductScan352to352(op1, op2) ==
    MulBlocks(N352, N352, mulProductScan352to352Lower(op1, op2), N352, 2 * N352, op1, op2).out
sqrProductScan320Lower(op) == SqrBlocks(N320, NoBlock, 0, N320, op)
sqrProductScan320(op) == SqrBlocks(N320, sqrProductScan320Lower(op), N320, 2 * N320, op).out
sqrProductScan352Lower(op) == SqrBlocks(N352, NoBlock, 0, N352, op)
sqrProductScan352(op) == SqrBlocks(N352, sqrProductScan352Lower(op), N352, 2 * N352, op).out

-----------------------------------------------------------------------------
(* Shifts and sums of numbers held in vectors of four limbs, fermat.cl.    *)

lshiftByLimb(a) == (0 :> 0) @@ [i \in DOMAIN a \ {0} |-> a[i - 1]]
rshiftByLimb(a) ==
    LET lower == {i \in DOMAIN a : i + 1 \in DOMAIN a}
    IN  [i \in lower |-> a[i + 1]] @@ [i \in DOMAIN a \ lower |-> 0]

\* A shift by no bits returns at once: the other bits would be shifted by a whole
\* limb, which C leaves undefined.
lshift(a, count) ==
    IF count = 0 THEN a
    ELSE (0 :> Lo(a[0] * 2 ^ count))
         @@ [i \in DOMAIN a \ {0} |->
               Lo(a[i] * 2 ^ count) + a[i - 1] \div 2 ^ (LimbBits - count)]

rshift(a, count) ==
    LET upper == rshiftByLimb(a)
    IN  IF count = 0 THEN a
        ELSE (0 :> (a[0] \div 2 ^ count) + Lo(upper[0] * 2 ^ (LimbBits - count)))
             @@ [i \in DOMAIN a \ {0} |->
                   (a[i] \div 2 ^ count) + Lo(upper[i] * 2 ^ (LimbBits - count))]

\* The 12 limbs of b are added to the highest 12 of a.
add384(a, size, b) ==
    LET limb[k \in 0 .. 12] ==
          IF k = 0 THEN [a |-> a, carry |-> 0]
          ELSE LET p == limb[k - 1]
                   i == size - 13 + k
                   sum == a[i] + b[k - 1] + p.carry
               IN  [a |-> [p.a EXCEPT ![i] = Lo(sum)], carry |-> Hi(sum)]
    IN  limb[12].a

\* The highest 13 of the size limbs of b, less a * M.  The borrows of a limb,
\* at most two from its products and one from the limb below, are counted and
\* brought to the next one; that of the highest limb is dropped.
subMul1_v3(b, size, a, M) ==
    LET one(test) == IF test THEN 1 ELSE 0
        limb[k \in 0 .. 13] ==
          IF k = 0 THEN [b |-> b, borrow |-> 0]
          ELSE LET p == limb[k - 1]
                   i == size - 14 + k
                   low == IF k <= 12 THEN Lo(a[k - 1] * M) ELSE 0
                   high == IF k >= 2 THEN Hi(a[k - 2] * M) ELSE 0
                   x == (b[i] - low) % W
                   y == (x - high) % W
               IN  [b |-> [p.b EXCEPT ![i] = (y - p.borrow) % W],
                    borrow |-> one(b[i] < low) + one(x < high) + one(y < p.borrow)]
    IN  limb[13].b
=============================================================================
