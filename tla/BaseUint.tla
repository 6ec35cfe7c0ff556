------------------------------ MODULE BaseUint ------------------------------
(***************************************************************************)
(* The integers of uint256.h: WIDTH limbs of LimbBits bits, the lowest     *)
(* first, with the operators that base_uint, uint160 and uint256 share, the *)
(* text they are read from and written to, and the compact form of a       *)
(* target.  A number goes through operations one after the other, and num  *)
(* is the integer it should be.                                            *)
(***************************************************************************)
EXTENDS Integers, Sequences, Bitwise

CONSTANTS
    LimbBits, WIDTH,    \* 32 and 5 or 8
    DigitBits,          \* 4; a byte is two digits
    Operands            \* the other operands: integers

VARIABLES
    pn,                 \* the limbs
    num                 \* the integer

Base == 2 ^ LimbBits
Indexes == 0 .. WIDTH - 1
Bits == LimbBits * WIDTH
ByteWidth == 2 * DigitBits

\* What mpz_set_uint256 imports, the words from the lowest.
Value(a) ==
    LET sum[i \in Indexes] == a[i] * Base ^ i + (IF i = 0 THEN 0 ELSE sum[i - 1])
    IN  sum[WIDTH - 1]

OfInteger(x) == [i \in Indexes |-> (x \div Base ^ i) % Base]

-----------------------------------------------------------------------------
(* The operators *)

Zero == [i \in Indexes |-> 0]

\* From a uint64, which has two limbs.
Of64(b) == [i \in Indexes |-> IF i = 0 THEN b % Base ELSE IF i = 1 THEN (b \div Base) % Base ELSE 0]

IsZero(a) == \A i \in Indexes : a[i] = 0
Complement(a) == [i \in Indexes |-> Base - 1 - a[i]]
XorLimbs(a, b) == [i \in Indexes |-> a[i] ^^ b[i]]
AndLimbs(a, b) == [i \in Indexes |-> a[i] & b[i]]
OrLimbs(a, b) == [i \in Indexes |-> a[i] | b[i]]

\* With a uint64 only the two lowest limbs are touched.
Xor64(a, b) == [a EXCEPT ![0] = @ ^^ (b % Base), ![1] = @ ^^ (b \div Base)]
Or64(a, b) == [a EXCEPT ![0] = @ | (b % Base), ![1] = @ | (b \div Base)]

\* A limb goes to two, unless the shift is one of whole limbs: a shift by all of
\* its bits is undefined.
ShiftLeft(a, shift) ==
    LET k == shift \div LimbBits
        s == shift % LimbBits
    IN  [j \in Indexes |->
            (IF j - k \in Indexes THEN (a[j - k] * 2 ^ s) % Base ELSE 0)
            | (IF j - k - 1 \in Indexes /\ s # 0 THEN a[j - k - 1] \div 2 ^ (LimbBits - s) ELSE 0)]

ShiftRight(a, shift) ==
    LET k == shift \div LimbBits
        s == shift % LimbBits
    IN  [j \in Indexes |->
            (IF j + k \in Indexes THEN a[j + k] \div 2 ^ s ELSE 0)
            | (IF j + k + 1 \in Indexes /\ s # 0 THEN (a[j + k + 1] * 2 ^ (LimbBits - s)) % Base ELSE 0)]

AddLimbs(a, b) ==
    LET n[i \in Indexes] == a[i] + b[i] + (IF i = 0 THEN 0 ELSE n[i - 1] \div Base)
    IN  [i \in Indexes |-> n[i] % Base]

IncrementOnce(a) == [a EXCEPT ![0] = (@ + 1) % Base]      \* mutated form

\* While the limb before has become 0.
Increment(a) ==
    [i \in Indexes |-> IF \A j \in 0 .. i - 1 : a[j] = Base - 1 THEN (a[i] + 1) % Base ELSE a[i]]

\* While the limb before has become -1.
Decrement(a) ==
    [i \in Indexes |-> IF \A j \in 0 .. i - 1 : a[j] = 0 THEN (a[i] - 1) % Base ELSE a[i]]

Negate(a) == Increment(Complement(a))
Subtract(a, b) == AddLimbs(a, Negate(b))

\* From the highest limb to the first that differs.
Differ(a, b) == {i \in Indexes : a[i] # b[i] /\ \A j \in i + 1 .. WIDTH - 1 : a[j] = b[j]}
LessThan(a, b) == \E i \in Differ(a, b) : a[i] < b[i]
LessOrEqual(a, b) == \A i \in Differ(a, b) : a[i] < b[i]
Equal64(a, b) == a[0] = b % Base /\ a[1] = b \div Base /\ \A i \in 2 .. WIDTH - 1 : a[i] = 0

-----------------------------------------------------------------------------
(* Text: a sequence of digits and of other characters. *)

Space == 2 ^ DigitBits
X == Space + 1
IsDigit(c) == c < 2 ^ DigitBits

\* Two digits a byte, the highest byte first.
GetHex(a) ==
    [k \in 1 .. Bits \div DigitBits |->
        LET bit == Bits - k * DigitBits
        IN  (a[bit \div LimbBits] \div 2 ^ (bit % LimbBits)) % 2 ^ DigitBits]

\* Spaces and 0x are skipped; the digits up to the first other character are
\* filled in from the last to the lowest byte, as many as there is room for.
SkipSpaces(text) ==
    LET first == CHOOSE k \in 1 .. Len(text) + 1 :
                    /\ k = Len(text) + 1 \/ text[k] # Space
                    /\ \A j \in 1 .. k - 1 : text[j] = Space
    IN  SubSeq(text, first, Len(text))

Skip0x(text) ==
    IF Len(text) >= 2 /\ text[1] = 0 /\ text[2] = X THEN SubSeq(text, 3, Len(text)) ELSE text

Digits(text) ==
    LET n == CHOOSE k \in 0 .. Len(text) :
                /\ k = Len(text) \/ ~ IsDigit(text[k + 1])
                /\ \A j \in 1 .. k : IsDigit(text[j])
    IN  SubSeq(text, 1, n)

SetHex(text) ==
    LET d == Digits(Skip0x(SkipSpaces(text)))
        digit(k) == IF k < Len(d) THEN d[Len(d) - k] ELSE 0
        part(i, k) == digit(i * (LimbBits \div DigitBits) + k) * 2 ^ (DigitBits * k)
        limb[i \in Indexes, k \in 0 .. LimbBits \div DigitBits - 1] ==
            part(i, k) + (IF k = 0 THEN 0 ELSE limb[i, k - 1])
    IN  [i \in Indexes |-> limb[i, LimbBits \div DigitBits - 1]]

-----------------------------------------------------------------------------
(* The compact form: an exponent and a mantissa of three bytes, whose highest *)
(* bit is a sign.                                                          *)

MantissaBits == 3 * ByteWidth
SignBit == 2 ^ (MantissaBits - 1)

\* The targets of the ZCash miners.
setCompact(bits) ==
    LET exponent == bits \div 2 ^ MantissaBits
        mantissa == Of64(bits % SignBit)
    IN  IF exponent <= 3 THEN ShiftRight(mantissa, ByteWidth * (3 - exponent))
        ELSE ShiftLeft(mantissa, ByteWidth * (exponent - 3))

\* nSize is that of the type and not of the number.
nSize == (Bits + ByteWidth - 1) \div ByteWidth

GetCompact(a) ==
    LET bn == Value(ShiftRight(a, ByteWidth * (nSize - 3))) % Base ^ 2
    IN  IF bn & SignBit # 0
        THEN bn \div 2 ^ ByteWidth + (nSize + 1) * 2 ^ MantissaBits
        ELSE bn + nSize * 2 ^ MantissaBits

-----------------------------------------------------------------------------
(* A vector of bytes, the lowest first, of another size makes zero. *)

BytesOf(x) == [k \in 1 .. Bits \div ByteWidth |-> (x \div 2 ^ (ByteWidth * (k - 1))) % 2 ^ ByteWidth]
OfBytes(vch) ==
    LET perLimb == LimbBits \div ByteWidth
        limb[i \in Indexes, k \in 0 .. perLimb] ==
            IF k = perLimb THEN 0 ELSE vch[i * perLimb + k + 1] + limb[i, k + 1] * 2 ^ ByteWidth
    IN  IF Len(vch) = Bits \div ByteWidth THEN [i \in Indexes |-> limb[i, 0]] ELSE Zero

-----------------------------------------------------------------------------
UintInit == pn = Zero /\ num = 0

Becomes(limbs, integer) == pn' = limbs /\ num' = integer % 2 ^ Bits

Assign64 == \E b \in Operands : Becomes(Of64(b % Base ^ 2), b % Base ^ 2)
Constructed ==
    \E b \in Operands :
        LET vch == BytesOf(b)
        IN  \/ Becomes(SetHex(GetHex(OfInteger(b))), b)
            \/ Becomes(OfBytes(vch), b)
            \/ Becomes(OfBytes(Tail(vch)), 0)
Plus == \E b \in Operands : Becomes(AddLimbs(pn, OfInteger(b)), num + b)
Minus == \E b \in Operands : Becomes(Subtract(pn, OfInteger(b)), num - b)
Next1 == Becomes(Increment(pn), num + 1)
Previous1 == Becomes(Decrement(pn), num - 1)
Inverted == Becomes(Complement(pn), 2 ^ Bits - 1 - num)
ExclusiveOr == \E b \in Operands : Becomes(Xor64(XorLimbs(pn, OfInteger(b)), b % Base ^ 2), (num ^^ b) ^^ (b % Base ^ 2))
AndOr == \E b \in Operands : Becomes(Or64(AndLimbs(pn, OfInteger(b)), b % Base ^ 2), (num & b) | (b % Base ^ 2))
Shifts ==
    \E s \in 0 .. Bits + 1 :
        \/ Becomes(ShiftLeft(pn, s), IF s < Bits THEN (num % 2 ^ (Bits - s)) * 2 ^ s ELSE 0)
        \/ Becomes(ShiftRight(pn, s), IF s < Bits THEN num \div 2 ^ s ELSE 0)

UintNext == Assign64 \/ Constructed \/ Plus \/ Minus \/ Next1 \/ Previous1 \/ Inverted \/ ExclusiveOr
            \/ AndOr \/ Shifts

UintSpec == UintInit /\ [][UintNext]_<<pn, num>>

-----------------------------------------------------------------------------
UintTypeOK == pn \in [Indexes -> 0 .. Base - 1] /\ num \in 0 .. 2 ^ Bits - 1

\* What is written can be read again, whatever stands before or behind it.
TextRight ==
    /\ SetHex(GetHex(pn)) = pn
    /\ SetHex(<<Space, Space, 0, X>> \o GetHex(pn) \o <<Space, 1>>) = pn
    /\ SetHex(<<1>> \o GetHex(pn)) = pn

\* A target is its mantissa times a power of 256, with what does not fit cut off at
\* either end.  A number in compact form and back keeps its highest two or three
\* bytes.
CompactRight ==
    LET bits     == num
        exponent == bits \div 2 ^ MantissaBits
        mantissa == bits % SignBit
    IN  /\ exponent <= nSize =>
              Value(setCompact(bits)) =
                 (IF exponent <= 3 THEN mantissa \div 2 ^ (ByteWidth * (3 - exponent))
                  ELSE (mantissa % 2 ^ (Bits - ByteWidth * (exponent - 3))) * 2 ^ (ByteWidth * (exponent - 3)))
        /\ LET kept == 2 ^ (IF num >= 2 ^ (Bits - 1) THEN Bits - 2 * ByteWidth ELSE Bits - 3 * ByteWidth)
           IN  Value(setCompact(GetCompact(pn))) = num - (num % kept)

\* The limbs are the integer, the comparisons are those of integers.
IntegersRight ==
    /\ Value(pn) = num
    /\ IsZero(pn) <=> num = 0
    /\ \A b \in Operands :
          /\ LessThan(pn, OfInteger(b)) <=> num < b
          /\ LessOrEqual(pn, OfInteger(b)) <=> num <= b
          /\ b < Base ^ 2 => (Equal64(pn, b) <=> num = b)
    /\ TextRight
    /\ CompactRight
=============================================================================
