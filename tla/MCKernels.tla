------------------------------ MODULE MCKernels ------------------------------
(***************************************************************************)
(* The kernels, side by side: each behaviour is a call of one of them, or  *)
(* the queue of their calls, chosen at the beginning, while the variables  *)
(* of the others keep the values that Idle gives them.  Instances of       *)
(* FermatTest, SieveKernel, EquihashKernels, EquihashSolver (the solver of *)
(* the CPU) and Benchmarks; DeviceQueues is extended.                      *)
(***************************************************************************)
EXTENDS BigNum, KernelInputs, FiniteSetsExt, DeviceQueues

CONSTANTS
    Moduli, Window320, Window352,                   \* FermatTest
    Ks, CollisionBitLength, TruncatedBits, Tables,  \* EquihashSolver
    SIZE, WordBits, STRIPES, WIDTH, TARGET, LSIZE, nps_all, NLIFO, N, SieveLimbBits,
    Mantissa, Narrow, gPrimes, RangesFrom, PCounts, Firsts, SieveDepths,
    Fixed, TrialStep,                               \* SieveKernel
    WN, WK, RESTBITS, EquiByteBits, UnitBytes, HASHESPERBLAKE, XFULL, MAXSOLS, Items,
    Cases, OldWord(_, _),                           \* EquihashKernels
    MulOpsNum, MulOperands                          \* Benchmarks

VARIABLES
    part,           \* the algorithm whose behaviour this is
    \* FermatTest
    n, build, limbs, q, redcl, data, remaining, squared, pc, dropped,
    \* EquihashSolver
    K, table, solver, eqPc, round, X, Xc, read, posFree, partialSolns,
    leaf, tree, ic, level, rti, judged, sorted,
    \* SieveKernel
    platform, PCOUNT, first, mDepth, shash, stripe, offset, sieve, stage, ip,
    plifo, lpos, word, found,
    \* EquihashKernels
    blake2bState, wide, kernelRound, heap, nslots, next, pairs, sols, nsols, left,
    \* Benchmarks
    mulOperandSize, isSquaring, m1, m2, mR, Operand1, cpuR, element, ops

T == INSTANCE FermatTest
Q == INSTANCE EquihashSolver WITH pc <- eqPc, i <- read
V == INSTANCE SieveKernel WITH LimbBits <- SieveLimbBits
E == INSTANCE EquihashKernels WITH ByteBits <- EquiByteBits, round <- kernelRound, todo <- pairs
A == INSTANCE Benchmarks

FermatVars == <<n, build, limbs, q, redcl, data, remaining, squared, pc, dropped>>
EquihashVars == <<K, table, solver, eqPc, round, X, Xc, read, posFree, partialSolns,
                  leaf, tree, ic, level, rti, judged, sorted>>
SieveVars == <<platform, PCOUNT, first, mDepth, shash, stripe, offset, sieve, stage, ip,
               plifo, lpos, word, found>>

EquiVars == <<blake2bState, wide, kernelRound, heap, nslots, next, pairs, sols, nsols, left>>

MulVars == <<mulOperandSize, isSquaring, m1, m2, mR, Operand1, cpuR, element, ops>>

allVars == <<part, FermatVars, EquihashVars, SieveVars, EquiVars, queueVars, MulVars>>

Parts == {"fermat", "equihash", "sieve", "solve", "queues", "benchmark"}

\* One of the initial states of each part, for the behaviours of the others.
Idle ==
    /\ part # "fermat" =>
          /\ n = N320 /\ build = "shift"
          /\ limbs = (CHOOSE m \in T!TestedBy(N320) : TRUE)
    /\ part # "equihash" =>
          /\ K = (CHOOSE k \in Ks : TRUE) /\ table = (CHOOSE t \in Tables : TRUE)
          /\ solver = "Basic"
    /\ part # "sieve" =>
          /\ platform = "AMD" /\ PCOUNT = Max(PCounts) /\ first = Max(Firsts)
          /\ mDepth = Max(SieveDepths) /\ shash = Max(Fixed) /\ stripe = 0
    /\ part # "solve" =>
          LET case == CHOOSE c \in Cases : TRUE
          IN  blake2bState = case.hashes /\ wide = case.wide
    /\ part # "queues" => sieves = QueueSieves
    /\ part # "benchmark" =>
          LET m == CHOOSE m \in MulOperands : TRUE
          IN  /\ mulOperandSize = N320 /\ isSquaring = TRUE
              /\ m1 = [e \in A!Elements |-> A!Imported(m)]

Init ==
    /\ part \in Parts /\ Idle
    /\ T!Init /\ Q!Init /\ V!Init /\ E!EquiInit /\ QueueInit /\ A!MulInit

Others(mine) ==
    /\ mine # "fermat" => UNCHANGED FermatVars
    /\ mine # "equihash" => UNCHANGED EquihashVars
    /\ mine # "sieve" => UNCHANGED SieveVars
    /\ mine # "solve" => UNCHANGED EquiVars
    /\ mine # "queues" => UNCHANGED queueVars
    /\ mine # "benchmark" => UNCHANGED MulVars

Next ==
    /\ UNCHANGED part
    /\ \/ part = "fermat" /\ T!Next
       \/ part = "equihash" /\ Q!Next
       \/ part = "sieve" /\ V!Next
       \/ part = "solve" /\ E!EquiNext
       \/ part = "queues" /\ QueueNext
       \/ part = "benchmark" /\ A!MulNext
    /\ Others(part)

Spec == Init /\ [][Next]_allVars

-----------------------------------------------------------------------------
(* The properties are those of the parts, where they are stated and        *)
(* explained; NothingTouchedTwice is that of DeviceQueues, which holds of  *)
(* its initial state, too, in the behaviours of the others.                *)

\* The variables of every part have their types; those of the other parts stay
\* what they are at the beginning.
TypeOK ==
    CASE part = "fermat"   -> T!TypeOK
      [] part = "equihash" -> Q!TypeOK
      [] part = "sieve"    -> V!TypeOK
      [] part = "solve"    -> E!EquiTypeOK
      [] part = "queues"   -> QueueTypeOK
      [] part = "benchmark" -> A!MulTypeOK

\* The window loop of the Fermat test computes the power that its bits make, and the
\* products without reduction are those of the host.
PowerSoFar ==
    /\ part = "fermat" => T!PowerSoFar
    /\ part = "benchmark" => A!ResultsAgree

\* Tuples are written over rows that have been read, and none is lost.  BasicSolve judges
\* the solutions of the definition, all of them, and no other; OptimisedSolve loses only
\* solutions whose truncated indices are not distinct, and what its culling leaves collides
\* at every level.
SolversFindAll ==
    part = "equihash" => Q!NothingLostInPlace /\ Q!BasicFindsAll /\ Q!OptimisedFindsMost
                               /\ Q!CulledNearlyValid

\* What is crossed out has a factor and the other way round, but for rounding.  Candidates
\* have no small factor and fit their pipeline, and none is passed over.
SieveRight == part = "sieve" => V!SieveExact /\ V!CandidatesRight /\ V!BenchmarkRight

\* The slots of each round stand for the trees they were made of, although the heaps are
\* written over in place; the solutions are valid, different, and all there are unless
\* there was no room.
EquihashRight == part = "solve" => E!EquihashRight
=============================================================================
