----------------------------- MODULE FermatTest -----------------------------
(***************************************************************************)
(* The Fermat test of one number in gpu/fermat.cl: FermatTest320 and       *)
(* FermatTest352 raise 2 to the power limbs - 1 in Montgomery form, some   *)
(* bits of the exponent at a time, and fermat320, fermat352 compare with 1.*)
(*                                                                         *)
(* Montgomery form of x is x * R modulo the number, with R = 2^320 or      *)
(* 2^352.  A window of bits with value i multiplies by 2^i: its Montgomery *)
(* form R * 2^i - k * limbs is made by redcify from a quotient computed    *)
(* once.                                                                   *)
(***************************************************************************)
EXTENDS BigNum

CONSTANTS
    Moduli,                 \* the numbers tested, of 12 limbs
    Window320, Window352    \* 5, 7: bits of the exponent taken at once

\* The lowest n limbs only are in use.
TestedBy(n) == {m \in Moduli : m[0] % 2 = 1 /\ \A i \in n .. 11 : m[i] = 0}

VARIABLES
    n,          \* limbs of the routine, N320 or N352
    build,      \* which of the two forms of the routine is compiled
    limbs,      \* the number
    q,          \* the quotient of R * 2^(2^windowSize) by it
    redcl,      \* the power so far, in Montgomery form
    data,       \* the exponent
    remaining,  \* bits of it not used yet
    squared,    \* squarings done in this turn of the loop
    pc,
    \* ghost
    dropped     \* the ++ of redcify has dropped a carry

vars == <<n, build, limbs, q, redcl, data, remaining, squared, pc, dropped>>

windowSize == IF n = N320 THEN Window320 ELSE Window352

\* The table gives the inverse modulo 2^8, a quarter of the limb's bits; each of
\* the two steps doubles the bits.
binvert_limb_table(limb) ==
    CHOOSE inv \in 0 .. 2 ^ (LimbBits \div 4) - 1 :
        (inv * limb) % 2 ^ (LimbBits \div 4) = 1
invert_limb(limb) ==
    LET inv0 == binvert_limb_table(limb)
        inv1 == Lo(2 * inv0 - Lo(inv0 * inv0) * limb)
        inv2 == Lo(2 * inv1 - Lo(inv1 * inv1) * limb)
    IN  Lo(-inv2)

-----------------------------------------------------------------------------
(* Long division with the divisor shifted up until its highest bit is set. *)

\* The limbs in use, and the number shifted up to the highest limb.
ShiftToTop(a, size) ==
    LET count == CHOOSE c \in 0 .. size :
                   /\ \A i \in size - c .. size - 1 : a[i] = 0
                   /\ c = size \/ a[size - c - 1] # 0
        up[c \in 0 .. count] == IF c = 0 THEN a ELSE lshiftByLimb(up[c - 1])
    IN  [used |-> size - count, number |-> up[count]]

normalizeShiftCount(top) ==
    CHOOSE c \in 0 .. LimbBits - 1 :
        2 ^ (LimbBits - 1 - c) <= top /\ top < 2 ^ (LimbBits - c)

\* One limb of the quotient, from the two highest limbs of the dividend; it is too
\* large by at most two, which adding the divisor back corrects.
DivideStep(dividend, size, divisor) ==
    LET top == dividend[size - 1]
        estimate == IF top = divisor[11] THEN W - 1
                    ELSE Lo((top * W + dividend[size - 2]) \div divisor[11])
        rest == subMul1_v3(dividend, size, divisor, estimate)
        next == lshiftByLimb(rest)
        once == add384(next, size, divisor)
    IN  IF rest[size - 1] = 0 THEN [digit |-> estimate, dividend |-> next]
        ELSE IF once[size - 1] > divisor[11]
        THEN [digit |-> Lo(estimate - 2), dividend |-> add384(once, size, divisor)]
        ELSE [digit |-> Lo(estimate - 1), dividend |-> once]

\* All limbs of the quotient that fit into the 8 limbs of q0 and q1.
Divide(dividend0, size, divisor0) ==
    LET top == ShiftToTop(divisor0, 12)
        shift == normalizeShiftCount(top.number[11])
        divisor == lshift(top.number, shift)
        start == ShiftToTop(lshift(dividend0, shift), size)
        loop[i \in 0 .. start.used - top.used] ==
          IF i = 0 THEN [q |-> Single(8, 0, 0), dividend |-> start.number]
          ELSE LET p == loop[i - 1]
                   step == DivideStep(p.dividend, size, divisor)
               IN  [q |-> [lshiftByLimb(p.q) EXCEPT ![0] = step.digit],
                    dividend |-> step.dividend]
        end == loop[start.used - top.used]
        down[c \in 0 .. 12 - top.used] ==
          IF c = 0 THEN rshift(end.dividend, shift) ELSE rshiftByLimb(down[c - 1])
    IN  [q |-> end.q, rest |-> down[12 - top.used],
         divisorLimbs |-> top.used, topBits |-> LimbBits - shift]

divq640to384(dividend, divisor) == Divide(dividend, 20, divisor).q

\* The remainder is in the highest 12 of the 16 limbs.
modulo512to384(dividend, divisor) ==
    LET d == Divide(dividend, 16, divisor)
    IN  [rest |-> [i \in 0 .. 11 |-> d.rest[i + 4]],
         divisorLimbs |-> d.divisorLimbs, topBits |-> d.topBits]

-----------------------------------------------------------------------------
(* Windows of the exponent.                                                *)

monSqr(op, mod, invm) == IF n = N320 THEN monSqr320(op, mod, invm) ELSE monSqr352(op, mod, invm)
monMul(op1, op2, mod, invm) ==
    IF n = N320 THEN monMul320(op1, op2, mod, invm) ELSE monMul352(op1, op2, mod, invm)
redcHalf(op, mod, invm) ==
    IF n = N320 THEN redcHalf320(op, mod, invm) ELSE redcHalf352(op, mod, invm)

\* The limbs of the quotient that count depend on how many of them 2^windowSize is.
mulProductScan(a, b) ==
    CASE n = N320 /\ 2 ^ windowSize = LimbBits     -> mulProductScan320to96(a, b)
      [] n = N320 /\ 2 ^ windowSize = 2 * LimbBits -> mulProductScan320to128(a, b)
      [] n = N320 /\ 2 ^ windowSize = 4 * LimbBits -> mulProductScan320to192(a, b)
      [] n = N352 /\ 2 ^ windowSize = LimbBits     -> mulProductScan352to96(a, b)
      [] n = N352 /\ 2 ^ windowSize = 2 * LimbBits -> mulProductScan352to128(a, b)
      [] n = N352 /\ 2 ^ windowSize = 4 * LimbBits -> mulProductScan352to192(a, b)

\* The product that redcify subtracts from R * 2^shiftCount.
redcifyProduct(shiftCount) ==
    LET shift == 2 ^ windowSize - shiftCount
        down[c \in 0 .. shift \div LimbBits] ==
          IF c = 0 THEN q ELSE rshiftByLimb(down[c - 1])
    IN  mulProductScan(limbs, rshift(down[shift \div LimbBits], shift % LimbBits))

\* Of the difference only the lowest n limbs are kept, where R * 2^shiftCount is
\* zero: it is the complement plus one, and the ++ is of the lowest limb alone.
redcify(product) ==
    (0 :> Lo(W - product[0])) @@ [i \in 1 .. n - 1 |-> W - 1 - product[i]]

shlKeepsBits(a, bits) ==                                          \* mutated form
    (0 :> a[0] * 2 ^ bits)
    @@ [i \in 1 .. n - 1 |-> a[i] * 2 ^ bits + a[i - 1] \div 2 ^ (LimbBits - bits)]

shl(a, bits) ==
    (0 :> Lo(a[0] * 2 ^ bits))
    @@ [i \in 1 .. n - 1 |-> Lo(a[i] * 2 ^ bits) + a[i - 1] \div 2 ^ (LimbBits - bits)]
shlreg(a, bits) ==
    LET up[c \in 0 .. bits \div LimbBits] == IF c = 0 THEN a ELSE lshiftByLimb(up[c - 1])
        whole == up[bits \div LimbBits]
    IN  IF bits % LimbBits = 0 THEN whole ELSE shl(whole, bits % LimbBits)

MinOf(a, b) == IF a < b THEN a ELSE b

\* The next bits of the exponent.  One form of the routines shifts the exponent up
\* and takes them from its highest limb, the other reads two limbs where they are;
\* of a limb above the number no bit is selected.
windowBits == MinOf(remaining, windowSize)
windowIndex ==
    IF build = "shift" THEN data[n - 1] \div 2 ^ (LimbBits - windowBits)
    ELSE LET bitPos == remaining - windowBits
             i == bitPos \div LimbBits
             v64 == data[i] + (IF i + 1 < n THEN W * data[i + 1] ELSE 0)
         IN  (v64 \div 2 ^ (bitPos % LimbBits)) % 2 ^ windowBits

-----------------------------------------------------------------------------

Init ==
    /\ n \in {N320, N352} /\ build \in {"shift", "read"}
    /\ limbs \in TestedBy(n)
    /\ q = Single(8, 0, 0) /\ redcl = Single(12, 0, 0) /\ data = Single(n, 0, 0)
    /\ remaining = 0 /\ squared = 0 /\ pc = "start" /\ dropped = FALSE

\* The quotient, 2 in Montgomery form, which stands for the highest bit of the
\* exponent, and the other bits.
Start ==
    /\ pc = "start"
    /\ q' = divq640to384(Single(20, n + 2 ^ windowSize \div LimbBits, 1), limbs)
    /\ LET two == modulo512to384(Single(16, n, 2), limbs)
           exponent == [Lowest(limbs, n) EXCEPT ![0] = @ - 1]
       IN  /\ redcl' = two.rest
           /\ remaining' = (two.divisorLimbs - 1) * LimbBits + two.topBits - 1
           /\ data' = IF build = "shift" THEN shlreg(exponent, n * LimbBits - remaining')
                      ELSE exponent
    /\ pc' = "window"
    /\ UNCHANGED <<n, build, limbs, squared, dropped>>

\* A turn of the loop: as many squarings as the window has bits, ...
Square ==
    /\ pc = "window" /\ remaining > 0 /\ squared < windowBits
    /\ redcl' = monSqr(Lowest(redcl, n), Lowest(limbs, n), invert_limb(limbs[0])) @@ redcl
    /\ squared' = squared + 1
    /\ UNCHANGED <<n, build, limbs, q, data, remaining, pc, dropped>>

\* ... and one multiplication by 2^windowIndex.
Multiply ==
    /\ pc = "window" /\ remaining > 0 /\ squared = windowBits
    /\ LET product == redcifyProduct(windowIndex)
       IN  /\ redcl' = monMul(Lowest(redcl, n), redcify(product),
                             Lowest(limbs, n), invert_limb(limbs[0])) @@ redcl
           /\ dropped' = (dropped \/ product[0] = 0)
    /\ data' = IF build = "shift" THEN shl(data, windowBits) ELSE data
    /\ remaining' = remaining - windowSize /\ squared' = 0
    /\ UNCHANGED <<n, build, limbs, q, pc>>

\* Out of Montgomery form.
Half ==
    /\ pc = "window" /\ remaining <= 0
    /\ redcl' = redcHalf(Lowest(redcl, n), Lowest(limbs, n), invert_limb(limbs[0])) @@ redcl
    /\ pc' = "done"
    /\ UNCHANGED <<n, build, limbs, q, data, remaining, squared, dropped>>

Next == Start \/ Square \/ Multiply \/ Half

Spec == Init /\ [][Next]_vars

\* fermat320 and fermat352: all limbs of the power but the lowest are zero.
fermat == \A i \in 0 .. n - 1 : redcl[i] = IF i = 0 THEN 1 ELSE 0

-----------------------------------------------------------------------------
(* What the test promises, in whole numbers.  They are small enough for    *)
(* the instance only: these definitions are for checking.                  *)

Value(a) == MapThenSumSet(LAMBDA i : a[i] * W ^ i, {i \in DOMAIN a : a[i] # 0})

\* a * b modulo m by digits of b, so that no product leaves the range of TLC.
MulMod(a, b, m) ==
    LET part[d \in 0 .. 5] ==
          IF d = 5 THEN 0
          ELSE (part[d + 1] * 32 + a * ((b \div 32 ^ d) % 32)) % m
    IN  part[0]

Power2(e, m) ==
    LET power[x \in 0 .. e] ==
          IF x = 0 THEN 1 % m
          ELSE LET half == power[x \div 2]
                   square == MulMod(half, half, m)
               IN  IF x % 2 = 0 THEN square ELSE (2 * square) % m
    IN  power[e]

\* What the benchmark has from both sides, and when it complains.
out == Lowest(redcl, n)
cpuResult == Power2(Value(limbs) - 1, Value(limbs))
resultsDiffer == Value(out) # cpuResult

\* The arithmetic is exact but in two places: sub loses the borrow into a limb of
\* the modulus that is all ones, and redcify the carry out of its lowest limb.
NoLostCarry == ~dropped /\ \A i \in 1 .. n - 1 : limbs[i] # W - 1

\* Every limb stays within its bits, whatever is shifted and added.
TypeOK ==
    /\ n \in {N320, N352} /\ build \in {"shift", "read"} /\ limbs \in Moduli
    /\ q \in Number(8) /\ redcl \in Number(12) /\ data \in Number(n)
    /\ remaining \in -Window352 .. LimbBits * N352
    /\ squared \in 0 .. Window352
    /\ pc \in {"start", "window", "done"} /\ dropped \in BOOLEAN

\* After every window redcl is the Montgomery form of 2 to the power that the bits
\* used so far make, modulo the number; it fits into n limbs, though it may be
\* larger than the number.  At the end it is 2^(limbs - 1) modulo the number and
\* smaller than it, so that comparing limbs with 1 is enough, and the benchmark's
\* results do not differ.
PowerSoFar ==
    LET m == Value(limbs)
        used == (m - 1) \div 2 ^ (IF remaining < 0 THEN 0 ELSE remaining)
        power == Power2(used * 2 ^ squared, m)
        upper == {i \in n .. 11 : redcl[i] # 0}
    IN  NoLostCarry =>
          /\ pc = "window" => /\ upper = {}
                              /\ Value(redcl) % m = MulMod(power, W ^ n % m, m)
          /\ pc = "done"   => upper = {} /\ ~resultsDiffer

\* What benchmarks.cpp 423-432 compares with mpz_powm for every number: the verdict
\* is that of the definition, 2^(limbs - 1) is 1 modulo the number.  It is not when
\* one of the two carries gets lost.
VerdictExact ==
    pc = "done" => (fermat <=> cpuResult = 1)
=============================================================================
