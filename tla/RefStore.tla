------------------------------ MODULE RefStore ------------------------------
(***************************************************************************)
(* The contract every storage backend promises: src/core/storage/          *)
(* ref_store.zig, the vtable put / get / delete / list / history.          *)
(* A store is a map from keys to values.  Every write publishes the whole  *)
(* map under a fresh version, and a version, once published, keeps its     *)
(* contents for ever.                                                      *)
(***************************************************************************)

CONSTANTS
    Keys,       \* paths of the section
    Values,     \* blobs
    Absent,     \* what `get` returns for a key that holds nothing (null)
    Versions,   \* opaque version identifiers (VersionId)
    Serial      \* TRUE: a write edits the latest map.  FALSE: a write may
                \* edit any map published before, which is all that writers
                \* racing on one ref get from the subprocess backend

VARIABLES
    latest,     \* the map an unpinned `get` reads
    snapshots   \* the map published under each version

vars == <<latest, snapshots>>

Maps == [Keys -> Values \cup {Absent}]

EmptyMap == [k \in Keys |-> Absent]

TypeOK ==
    /\ latest \in Maps
    /\ DOMAIN snapshots \subseteq Versions
    /\ \A v \in DOMAIN snapshots : snapshots[v] \in Maps

\* A store starts empty, or with what earlier runs of the program published.
Init ==
    \/ latest = EmptyMap /\ snapshots = [v \in {} |-> EmptyMap]
    \/ \E m \in Maps, v \in Versions : latest = m /\ snapshots = [w \in {v} |-> m]

\* The maps a write may start from.
Bases ==
    {latest} \cup
        (IF Serial THEN {} ELSE {snapshots[v] : v \in DOMAIN snapshots})

Publish(m) ==
    \E v \in Versions \ DOMAIN snapshots :
        /\ latest' = m
        /\ snapshots' = [w \in DOMAIN snapshots \cup {v} |->
                            IF w = v THEN m ELSE snapshots[w]]

Put(k, val) == \E b \in Bases : Publish([b EXCEPT ![k] = val])

\* `delete` is idempotent: without the key there is nothing to publish.
Delete(k) ==
    /\ Serial => latest[k] # Absent
    /\ \E b \in Bases : Publish([b EXCEPT ![k] = Absent])

Next == \E k \in Keys : Delete(k) \/ \E val \in Values : Put(k, val)

Spec == Init /\ [][Next]_vars
=============================================================================
