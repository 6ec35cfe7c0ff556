---------------------------- MODULE MCPrimeMining ----------------------------
\* PrimeMining with a ring of four slots and interchangeable candidates.
EXTENDS PrimeMining, TLC

IdSymmetry == Permutations(Id)
=============================================================================
