-------------------------- MODULE MCMemoryRefStore --------------------------
EXTENDS MemoryRefStore, TLC

CONSTANTS k1, k2, v1, v2

Symmetry == Permutations(Keys) \cup Permutations(Values)
=============================================================================
