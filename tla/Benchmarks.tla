----------------------------- MODULE Benchmarks -----------------------------
(***************************************************************************)
(* multiplyBenchmark of benchmarks.cpp: the kernels of gpu/benchmarks.cl   *)
(* multiply or square numbers MulOpsNum times, each time the upper half of *)
(* the product before, and GMP does the same on the host, where the results*)
(* are compared.  A limb of GMP is two words, so that a number with an odd *)
(* number of words has one word more there, and its products are written   *)
(* over the beginning of the next number's.                                *)
(***************************************************************************)
EXTENDS BigNum

CONSTANTS
    MulOpsNum,      \* 512
    MulOperands     \* the random operands: numbers of N352 words

Elements == 0 .. 1  \* of the elementsNum two

VARIABLES
    mulOperandSize, \* N320 or N352
    isSquaring,
    m1, m2,         \* the operands of the device, and of GMP the second
    mR,             \* the products of the device, an element behind the other
    Operand1,       \* the first operands of GMP
    cpuR,           \* the products of GMP
    element,        \* the next element of the host
    ops             \* how many of its operations are done

mulVars == <<mulOperandSize, isSquaring, m1, m2, mR, Operand1, cpuR, element, ops>>

gmpOpSize == mulOperandSize + (mulOperandSize % 2)
productSize == 2 * mulOperandSize

\* The memory of both results is cleared first.
limbsNum == 2 * gmpOpSize
NoProducts == [w \in 0 .. 2 * limbsNum - 1 |-> 0]

\* A random number in the memory of GMP's.
Imported(m) == [k \in 0 .. gmpOpSize - 1 |-> IF k < mulOperandSize THEN m[k] ELSE 0]

\* The device's.
Product(op1, op2) ==
    IF isSquaring
    THEN IF mulOperandSize = N320 THEN sqrProductScan320(op1) ELSE sqrProductScan352(op1)
    ELSE IF mulOperandSize = N320 THEN mulProductScan320to320(op1, op2)
         ELSE mulProductScan352to352(op1, op2)

MulInit ==
    /\ mulOperandSize \in {N320, N352} /\ isSquaring \in BOOLEAN
    /\ m1 \in [Elements -> {Imported(m) : m \in MulOperands}]
    /\ m2 \in [Elements -> {Imported(m) : m \in MulOperands}]
    /\ isSquaring => m2 = m1
    /\ mR = NoProducts /\ cpuR = NoProducts
    /\ Operand1 = m1 /\ element = 0 /\ ops = 0

\* One call of the kernel for all elements.
BenchmarkKernel ==
    /\ element = 0 /\ ops = 0 /\ mR = NoProducts
    /\ LET op2(e) == Lowest(m2[e], mulOperandSize)
           result[e \in Elements, r \in 1 .. MulOpsNum] ==
              IF r = 1 THEN Product(Lowest(m1[e], mulOperandSize), op2(e))
              ELSE LET before == result[e, r - 1]
                   IN  Product([k \in 0 .. mulOperandSize - 1 |-> before[k + mulOperandSize]], op2(e))
       IN  mR' = [w \in DOMAIN mR |->
                    LET e == w \div productSize
                    IN  IF e \in Elements THEN result[e, MulOpsNum][w % productSize] ELSE 0]
    /\ UNCHANGED <<mulOperandSize, isSquaring, m1, m2, Operand1, cpuR, element, ops>>

\* The limbs of a number as it was imported, in words.
mpSize(m) == 2 * Max({0} \cup {(k \div 2) + 1 : k \in {k \in DOMAIN m : m[k] # 0}})

\* mpn_mul_n and mpn_sqr: as many words of each operand as the first has.
mpn(a, b, size) ==
    LET column[k \in 0 .. 2 * size - 1] ==
            (IF k = 0 THEN 0 ELSE column[k - 1] \div W)
            + MapThenSumSet(LAMBDA i : a[i] * b[k - i], {i \in 0 .. size - 1 : k - i \in 0 .. size - 1})
    IN  [k \in 0 .. 2 * size - 1 |-> column[k] % W]

\* The product, and its words in the middle as the next first operand.
GmpOperation ==
    /\ mR # NoProducts /\ element \in Elements /\ ops < MulOpsNum
    /\ LET size == mpSize(m1[element])
           target == element * productSize
           product == mpn(Operand1[element], IF isSquaring THEN Operand1[element] ELSE m2[element], size)
       IN  /\ cpuR' = [w \in DOMAIN cpuR |->
                          IF w - target \in DOMAIN product THEN product[w - target] ELSE cpuR[w]]
           /\ Operand1' = [Operand1 EXCEPT ![element] = [k \in DOMAIN @ |->
                              IF k < mulOperandSize THEN cpuR'[target + mulOperandSize + k] ELSE @[k]]]
    /\ ops' = ops + 1
    /\ UNCHANGED <<mulOperandSize, isSquaring, m1, m2, mR, element>>

GmpElementDone ==
    /\ element \in Elements /\ ops = MulOpsNum
    /\ element' = element + 1 /\ ops' = 0
    /\ UNCHANGED <<mulOperandSize, isSquaring, m1, m2, mR, Operand1, cpuR>>

MulNext == BenchmarkKernel \/ GmpOperation \/ GmpElementDone

MulTypeOK ==
    /\ \A w \in DOMAIN NoProducts : mR[w] \in Limb /\ cpuR[w] \in Limb
    /\ element \in 0 .. 2 /\ ops \in 0 .. MulOpsNum

\* "results differ!" is printed for no element, unless its first operand happens to be
\* shorter than its second by a limb of GMP, which takes the length of the first for
\* both.  What a product writes behind its place is written over by the next one.
ResultsAgree ==
    element = 2 => \A e \in Elements :
        mpSize(m1[e]) >= mpSize(m2[e]) =>
            \A w \in e * productSize .. (e + 1) * productSize - 1 : mR[w] = cpuR[w]
=============================================================================
