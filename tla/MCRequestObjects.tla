-------------------------- MODULE MCRequestObjects --------------------------
EXTENDS RequestObjects, TLC
Symmetry == Permutations(Callers) \cup Permutations(Requests)
=============================================================================
