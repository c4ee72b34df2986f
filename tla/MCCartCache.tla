---------------------------- MODULE MCCartCache ----------------------------
EXTENDS CartCache, TLC

Symmetry == Permutations(Request) \cup Permutations(Cleaner)

=============================================================================
