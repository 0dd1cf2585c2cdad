--------------------------- MODULE MCWriteThrough ---------------------------
EXTENDS WriteThroughRefStore, TLC

CONSTANTS k1, k2, v1, v2, w1, w2, w3

Symmetry == Permutations(Keys) \cup Permutations(Values) \cup Permutations(Versions)
=============================================================================
