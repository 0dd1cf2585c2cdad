--------------------------- MODULE MemoryRefStore ---------------------------
(***************************************************************************)
(* MemoryRefStore (src/core/storage/memory_ref_store.zig): a hash map from *)
(* keys to a history of entries and a tombstone.  Every allocation of a    *)
(* call may fail, and each failure leaves what the call had done so far.   *)
(* The last one, of the version put returns, comes after the entry is in   *)
(* the history and the tombstone is gone; its cleanup frees the entry's    *)
(* memory, which the history still points at.  A read that meets it may    *)
(* find anything there, so reads are sets of what they may answer.         *)
(***************************************************************************)
EXTENDS Naturals, Sequences, SequencesExt

CONSTANTS
    Keys, Values, Absent,
    MaxVersion      \* bound on next_version

ASSUME MemoryAssumption ==
    /\ Absent \notin Keys \cup Values
    /\ MaxVersion \in Nat \ {0}

VARIABLES
    next_version,
    keys,       \* the keys of the hash map
    history,    \* per key, its entries, oldest first
    deleted,    \* the keys with a tombstone
    freed,      \* the entries a failing put freed: [version, key]
    acked       \* the puts that returned their version: [version, key, val]

vars == <<next_version, keys, history, deleted, freed, acked>>

Entry == [version : Nat \ {0}, val : Values]

TypeOK ==
    /\ next_version \in 1..(MaxVersion + 1)
    /\ keys \subseteq Keys
    /\ history \in [Keys -> Seq(Entry)]
    /\ deleted \subseteq keys
    /\ freed \subseteq [version : 1..MaxVersion, key : Keys]
    /\ acked \subseteq [version : 1..MaxVersion, key : Keys, val : Values]
    /\ \A k \in Keys \ keys : history[k] = <<>>

-----------------------------------------------------------------------------
(* The reads *)

\* The memory of the i-th entry of k was given back.
Freed(k, i) == [version |-> history[k][i].version, key |-> k] \in freed

\* What the value of an entry may read as.
ValueOf(k, i) == IF Freed(k, i) THEN Values ELSE {history[k][i].val}

\* get(key, null)
Gets(k) ==
    IF k \in deleted \/ history[k] = <<>> THEN {Absent} ELSE ValueOf(k, Len(history[k]))

Matches(k, i, version) == ~Freed(k, i) /\ history[k][i].version = version

GetsAtUnlessDeleted(k, version) ==               \* seeded fault
    IF k \notin deleted /\ \E i \in DOMAIN history[k] : Matches(k, i, version)
    THEN {(CHOOSE e \in Range(history[k]) : e.version = version).val}
    ELSE {Absent}

\* get(key, version) compares from the oldest entry on; a tombstone hides
\* nothing.  What is left of a freed version may be taken for any.
GetsAt(k, version) ==
    LET found == {i \in DOMAIN history[k] :
                    /\ Matches(k, i, version) \/ Freed(k, i)
                    /\ \A j \in 1..(i - 1) : ~Matches(k, j, version)}
        missed == \A i \in DOMAIN history[k] : ~Matches(k, i, version)
    IN  UNION {ValueOf(k, i) : i \in found} \cup (IF missed THEN {Absent} ELSE {})

ListWithEmpty == keys \ deleted                  \* seeded fault

\* list: a key left behind by a put that ran out of memory has no entries
List == {k \in keys \ deleted : history[k] # <<>>}

HistoryOldestFirst(k) == [i \in DOMAIN history[k] |-> history[k][i].version]  \* seeded fault

\* history(key): newest first, whether deleted or not; 0 stands for what is
\* left of a freed version
History(k) ==
    Reverse([i \in DOMAIN history[k] |->
                IF Freed(k, i) THEN 0 ELSE history[k][i].version])

-----------------------------------------------------------------------------
(* The writes *)

MintVersion == next_version <= MaxVersion /\ next_version' = next_version + 1

\* The entry goes into the history, the tombstone off the key.
Stored(k, val) ==
    /\ MintVersion
    /\ keys' = keys \cup {k}
    /\ history' = [history EXCEPT ![k] =
                    Append(@, [version |-> next_version, val |-> val])]
    /\ deleted' = deleted \ {k}

Put(k, val) ==
    /\ Stored(k, val)
    /\ acked' = acked \cup {[version |-> next_version, key |-> k, val |-> val]}
    /\ UNCHANGED freed

\* Memory runs out for the copy of the version that is returned: the put fails
\* with its entry stored, and frees what the entry points at.
PutFailsAtAnswer(k, val) ==
    /\ Stored(k, val)
    /\ freed' = freed \cup {[version |-> next_version, key |-> k]}
    /\ UNCHANGED acked

\* Memory runs out before the hash map is touched, or for the owned copy of a
\* new key, whose slot is taken out again.
PutFailsEarly ==
    /\ MintVersion
    /\ UNCHANGED <<keys, history, deleted, freed, acked>>

PutFailsUndeleted(k) ==                          \* seeded fault: tombstone first
    /\ MintVersion
    /\ keys' = keys \cup {k}
    /\ deleted' = deleted \ {k}
    /\ UNCHANGED <<history, freed, acked>>

\* Memory runs out while the history grows: a new key stays in the hash map.
PutFailsAtAppend(k) ==
    /\ MintVersion
    /\ keys' = keys \cup {k}
    /\ UNCHANGED <<history, deleted, freed, acked>>

DeleteUnchecked(k) ==                            \* seeded fault: any key
    /\ deleted' = deleted \cup {k}
    /\ UNCHANGED <<next_version, keys, history, freed, acked>>

Delete(k) ==
    /\ deleted' = IF k \in keys THEN deleted \cup {k} ELSE deleted
    /\ UNCHANGED <<next_version, keys, history, freed, acked>>

-----------------------------------------------------------------------------

Init ==
    /\ next_version = 1
    /\ keys = {} /\ deleted = {} /\ freed = {} /\ acked = {}
    /\ history = [k \in Keys |-> <<>>]

Next ==
    \/ PutFailsEarly
    \/ \E k \in Keys :
        \/ \E val \in Values : Put(k, val) \/ PutFailsAtAnswer(k, val)
        \/ PutFailsAtAppend(k)
        \/ Delete(k)

Spec == Init /\ [][Next]_vars

-----------------------------------------------------------------------------
(* Properties *)

\* A version a put returned reads back the value put for as long as the store
\* lives, whatever is put, deleted or fails after it: a put of its key that
\* freed its own entry included, since the scan meets the older entry first.
PinnedReadsSurvive ==
    \A a \in acked :
        (\A f \in freed : f.key = a.key => f.version > a.version)
            => GetsAt(a.key, a.version) = {a.val}

\* A key is listed exactly if an unpinned get finds it, after any failed put.
ListAgreesWithGet == List = {k \in Keys : Absent \notin Gets(k)}

\* What a key reads as changes in three ways only: to nothing; to the value of
\* a put of that key that returned; and, when a put of that key ran out of
\* memory for its answer, to what its freed entry holds.  A put that ran out of
\* memory earlier neither shows nor brings a deleted key back.
OnlyAckedPutsShow ==
    [][\A k \in Keys :
        \/ Gets(k)' \in {Gets(k), {Absent}}
        \/ \E a \in acked' \ acked : a.key = k /\ Gets(k)' = {a.val}
        \/ \E f \in freed' \ freed : f.key = k]_vars

\* The newest version in the history of a live key is the one that reads as
\* its value, unless a put freed an entry of the key; and what is left of the
\* versions goes down from there.
HistoryNewestFirst ==
    \A k \in Keys :
        LET h == History(k)
        IN  /\ \A i, j \in DOMAIN h : i < j /\ h[j] # 0 => h[i] = 0 \/ h[i] > h[j]
            /\ Absent \notin Gets(k) /\ (\A f \in freed : f.key # k)
                => GetsAt(k, h[1]) = Gets(k)
=============================================================================
