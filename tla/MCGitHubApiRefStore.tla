----------------------- MODULE MCGitHubApiRefStore -----------------------
EXTENDS GitHubApiRefStore, TLC

CONSTANTS p1, p2, k1, k2, v1, v2

Symmetry == Permutations(Clients) \cup Permutations(Keys) \cup Permutations(Values)
=============================================================================
