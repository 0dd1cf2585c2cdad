---------------------------- MODULE MCEventStore ----------------------------
EXTENDS EventStore, TLC

CONSTANTS c1, c2, s1, s2, e1, e2, w1, w2, w3

Symmetry ==
    Permutations(Clients) \cup Permutations(Streams) \cup
    Permutations(EventIds) \cup Permutations(Versions)
=============================================================================
