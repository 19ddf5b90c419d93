------------------------------ MODULE MCValues ------------------------------
\* Addresses and variables are as good as one another.
EXTENDS ValuesAsTrees, TLC

Symmetry == Permutations(Heap) \cup Permutations(Variables)
=============================================================================
