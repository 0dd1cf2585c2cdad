---------------------------- MODULE HostRecords ----------------------------
(***************************************************************************)
(* What the host stores of the browser keep of a key: the sequence of its  *)
(* versions, oldest first (sideshowdb-core, src/indexeddb-store.ts).       *)
(***************************************************************************)
EXTENDS Integers, Sequences, SequencesExt, FiniteSetsExt

CONSTANTS
    Values,
    None        \* what a read finds where there is nothing (null)

\* A version is its number, or Malformed if it does not match ^v(\d+)$.
Malformed == 0

Entry == [version : Nat, val : Values]

\* get(key)
Latest(record) == IF record = <<>> THEN None ELSE Last(record)

\* get(key, version)
At(record, version) ==
    LET found == {i \in DOMAIN record : record[i].version = version}
    IN  IF found = {} THEN None ELSE record[Min(found)]

\* history(key), newest first
VersionsOf(record) == Reverse([i \in DOMAIN record |-> record[i].version])

NextVersionByLength(record) == Len(record) + 1    \* seeded fault

\* One more than the largest number; malformed versions only count if there
\* are no others.
NextVersion(record) ==
    LET numbers == {e.version : e \in Range(record)} \ {Malformed}
    IN  IF numbers = {} THEN Len(record) + 1 ELSE Max(numbers) + 1
=============================================================================
