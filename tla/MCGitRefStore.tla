--------------------------- MODULE MCGitRefStore ---------------------------
EXTENDS GitRefStore, TLC

CONSTANTS p1, p2, k1, k2, v1, v2

\* The section shares no path with the user's working tree.
NoWorktree == [k \in Keys |-> Absent]

Symmetry == Permutations(Procs) \cup Permutations(Keys) \cup Permutations(Values)

DataSymmetry == Permutations(Keys) \cup Permutations(Values)
=============================================================================
