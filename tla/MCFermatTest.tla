---------------------------- MODULE MCFermatTest ----------------------------
\* FermatTest on the numbers of KernelInputs.
EXTENDS FermatTest, KernelInputs
=============================================================================
