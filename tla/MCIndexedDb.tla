---------------------------- MODULE MCIndexedDb ----------------------------
EXTENDS IndexedDbStore, TLC

CONSTANTS t1, t2, refs, notes, k1, k2, v1, v2

\* A record whose newest version is v3, after one that is malformed.
LeftRecords ==
    [s \in {refs} |-> [k \in Keys |->
        <<[version |-> Malformed, val |-> v1], [version |-> 3, val |-> v1]>>]]
=============================================================================
