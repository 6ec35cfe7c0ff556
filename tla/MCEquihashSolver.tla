-------------------------- MODULE MCEquihashSolver --------------------------
\* EquihashSolver with the hash functions of KernelInputs.
EXTENDS EquihashSolver, KernelInputs
=============================================================================
