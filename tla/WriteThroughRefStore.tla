------------------------ MODULE WriteThroughRefStore ------------------------
(***************************************************************************)
(* WriteThroughRefStore (src/core/storage/write_through_ref_store.zig): a  *)
(* composite that stages every write in a row of caches and then commits   *)
(* it to a canonical store.  The canonical store is any implementation of  *)
(* RefStore's contract; a cache is seen through its unpinned `get` alone,  *)
(* for no caller learns a version a cache has minted before a hit on it.   *)
(*                                                                         *)
(* The composite is not thread-safe: one call runs at a time.  Each call   *)
(* it makes on a store may fail, and the process may die between two.      *)
(***************************************************************************)
EXTENDS Naturals

CONSTANTS
    Keys, Values, Absent,
    Versions,       \* versions the canonical store can mint: bounds the writes
    NumCaches,      \* the caches of Options, in declaration order
    Faults          \* the faults the run injects, out of FaultKinds

FaultKinds ==
    {"cachePut", "cacheGet", "cacheDelete", "cacheLate", "compensate", "canonical",
     "canonicalLate", "crash", "refill", "pinned"}

ASSUME WriteThroughAssumption ==
    /\ Absent \notin Keys \cup Values
    /\ NumCaches \in Nat
    /\ Faults \subseteq FaultKinds

VARIABLES
    policy,     \* cache_failure_policy, fixed when the composite is built
    caches,     \* what an unpinned get on each cache returns
    latest, snapshots,      \* the canonical store
    call,       \* the call in progress
    clean,      \* the keys whose last write went through everywhere
    hurt        \* the kinds of fault met so far, pinned refills included

vars == <<policy, caches, latest, snapshots, call, clean, hurt>>

Canonical == INSTANCE RefStore WITH Serial <- TRUE

CacheIds == 1..NumCaches

Maps == [Keys -> Values \cup {Absent}]

\* `next` is the cache the call turns to next, `staged` how many put loops it
\* has behind it when it starts to compensate, `whole` whether none failed.
Call == [pc : {"idle", "stage", "compensate", "lookup", "fetch", "refill"},
         op : {"put", "delete", "get", "none"}, key : Keys \cup {Absent},
         val : Values \cup {Absent}, next : 1..(NumCaches + 1),
         staged : 0..NumCaches, whole : BOOLEAN,
         pin : Versions \cup {Absent}]

Idle == [pc |-> "idle", op |-> "none", key |-> Absent, val |-> Absent, next |-> 1,
         staged |-> 0, whole |-> TRUE, pin |-> Absent]

TypeOK ==
    /\ policy \in {"lax", "strict"}
    /\ caches \in [CacheIds -> Maps]
    /\ Canonical!TypeOK
    /\ call \in Call
    /\ clean \subseteq Keys
    /\ hurt \subseteq Faults

-----------------------------------------------------------------------------

Meets(fault) == fault \in Faults /\ hurt' = hurt \cup {fault}

Return == call' = Idle

Store(c, k, val) == caches' = [caches EXCEPT ![c][k] = val]

Begin(pc, op, k, val, pin) ==
    /\ call = Idle
    /\ call' = [Idle EXCEPT !.pc = pc, !.op = op, !.key = k, !.val = val, !.pin = pin]
    /\ clean' = IF op = "get" THEN clean ELSE clean \ {k}
    /\ UNCHANGED <<policy, caches, latest, snapshots, hurt>>

Put(k, val) == Begin("stage", "put", k, val, Absent)

Delete(k) == Begin("stage", "delete", k, Absent, Absent)

\* A caller may pin any version the canonical store published.
Get(k) ==
    \/ Begin("lookup", "get", k, Absent, Absent)
    \/ /\ "pinned" \in Faults
       /\ \E pin \in DOMAIN snapshots : Begin("lookup", "get", k, Absent, pin)

StageAllButLast ==                               \* seeded fault: off by one
    /\ call.pc = "stage" /\ call.next \in CacheIds
    /\ IF call.next = NumCaches THEN UNCHANGED caches
                               ELSE Store(call.next, call.key, call.val)
    /\ call' = [call EXCEPT !.next = @ + 1]
    /\ UNCHANGED <<policy, latest, snapshots, clean, hurt>>

StagePastEnd ==                                  \* seeded fault: no bound
    /\ call.pc = "stage"
    /\ caches' = [c \in CacheIds |-> IF c = call.next THEN [caches[c] EXCEPT ![call.key] = call.val]
                                                      ELSE caches[c]]
    /\ call' = [call EXCEPT !.next = @ + 1]
    /\ UNCHANGED <<policy, latest, snapshots, clean, hurt>>

\* One turn of the staging loops of put and delete.
Stage ==
    /\ call.pc = "stage" /\ call.next \in CacheIds
    /\ Store(call.next, call.key, call.val)
    /\ call' = [call EXCEPT !.next = @ + 1]
    /\ UNCHANGED <<policy, latest, snapshots, clean, hurt>>

StageFailsUnnoticed ==                           \* seeded fault: the policy is ignored
    /\ call.pc = "stage" /\ call.next \in CacheIds
    /\ Meets(IF call.op = "put" THEN "cachePut" ELSE "cacheDelete")
    /\ call' = [call EXCEPT !.next = @ + 1, !.whole = FALSE]
    /\ UNCHANGED <<policy, caches, latest, snapshots, clean>>

\* A cache fails, before or after it took the write: `.lax` goes on with the
\* next cache; `.strict` gives up before the canonical store is called, and a
\* put first deletes what the caches before this one have staged.
StageFails ==
    /\ call.pc = "stage" /\ call.next \in CacheIds
    /\ \/ /\ Meets(IF call.op = "put" THEN "cachePut" ELSE "cacheDelete")
          /\ UNCHANGED caches
       \/ /\ Meets("cacheLate")
          /\ Store(call.next, call.key, call.val)
    /\ \/ /\ policy = "lax"
          /\ call' = [call EXCEPT !.next = @ + 1, !.whole = FALSE]
       \/ /\ policy = "strict" /\ call.op = "put"
          /\ call' = [call EXCEPT !.pc = "compensate", !.next = 1, !.staged = call.next - 1]
       \/ /\ policy = "strict" /\ call.op = "delete"
          /\ Return
    /\ UNCHANGED <<policy, latest, snapshots, clean>>

\* compensateCacheStages: a best-effort delete on each cache already staged.
Compensate ==
    /\ call.pc = "compensate"
    /\ IF call.next > call.staged
       THEN Return /\ UNCHANGED <<caches, hurt>>
       ELSE /\ call' = [call EXCEPT !.next = @ + 1]
            /\ \/ Store(call.next, call.key, Absent) /\ UNCHANGED hurt
               \/ Meets("compensate") /\ UNCHANGED caches
    /\ UNCHANGED <<policy, latest, snapshots, clean>>

\* A delete of an absent key changes nothing in the canonical store.
CanonicalWrite ==
    IF call.op = "put"
    THEN Canonical!Put(call.key, call.val)
    ELSE \/ Canonical!Delete(call.key)
         \/ latest[call.key] = Absent /\ UNCHANGED <<latest, snapshots>>

\* Every cache has been tried: the canonical store takes the write, and its
\* result is the call's.
Commit ==
    /\ call.pc = "stage" /\ call.next > NumCaches
    /\ CanonicalWrite
    /\ clean' = IF call.whole THEN clean \cup {call.key} ELSE clean
    /\ Return
    /\ UNCHANGED <<policy, caches, hurt>>

\* The canonical store fails, before or after it took the write; the error is
\* returned as it is, under both policies, and the caches keep what they staged.
CommitFails ==
    /\ call.pc = "stage" /\ call.next > NumCaches
    /\ \/ Meets("canonical") /\ UNCHANGED <<latest, snapshots>>
       \/ Meets("canonicalLate") /\ CanonicalWrite
    /\ Return
    /\ UNCHANGED <<policy, caches, clean>>

\* One turn of get's loop over the caches.  A pinned version is the canonical
\* store's own, which no cache knows.
Lookup ==
    /\ call.pc = "lookup" /\ call.next \in CacheIds
    /\ call' = IF call.pin = Absent /\ caches[call.next][call.key] # Absent
               THEN Idle
               ELSE [call EXCEPT !.next = @ + 1]
    /\ UNCHANGED <<policy, caches, latest, snapshots, clean, hurt>>

\* A cache fails to read: `.lax` takes it for a miss, `.strict` returns the
\* error, and so does either policy if memory has run out.
LookupFails ==
    /\ call.pc = "lookup" /\ call.next \in CacheIds
    /\ Meets("cacheGet")
    /\ \/ Return
       \/ policy = "lax" /\ call' = [call EXCEPT !.next = @ + 1]
    /\ UNCHANGED <<policy, caches, latest, snapshots, clean>>

\* Every cache missed: the canonical store answers, or fails, which ends the
\* get; a value is put back into every cache that missed.
Fetch ==
    /\ call.pc = "lookup" /\ call.next > NumCaches
    /\ LET found == IF call.pin = Absent THEN latest[call.key]
                                         ELSE snapshots[call.pin][call.key]
       IN  \/ /\ call' = IF found = Absent THEN Idle
                         ELSE [call EXCEPT !.pc = "refill", !.next = 1, !.val = found]
              /\ UNCHANGED hurt
           \/ Meets("canonical") /\ Return
    /\ UNCHANGED <<policy, caches, latest, snapshots, clean>>

Refill ==
    /\ call.pc = "refill"
    /\ IF call.next > NumCaches
       THEN Return /\ UNCHANGED <<caches, hurt>>
       ELSE /\ call' = [call EXCEPT !.next = @ + 1]
            /\ \/ /\ Store(call.next, call.key, call.val)
                  /\ hurt' = IF call.pin = Absent THEN hurt ELSE hurt \cup {"pinned"}
               \/ Meets("refill") /\ UNCHANGED caches
    /\ UNCHANGED <<policy, latest, snapshots, clean>>

\* The process dies in a call: each cache survives on disk or starts empty.
Crash ==
    /\ call # Idle
    /\ Meets("crash")
    /\ Return
    /\ \E lost \in SUBSET CacheIds :
        caches' = [c \in CacheIds |-> IF c \in lost THEN [k \in Keys |-> Absent]
                                      ELSE caches[c]]
    /\ UNCHANGED <<policy, latest, snapshots, clean>>

-----------------------------------------------------------------------------

Init ==
    /\ policy \in {"lax", "strict"}
    /\ Canonical!Init
    /\ caches = [c \in CacheIds |-> [k \in Keys |-> Absent]]
    /\ call = Idle
    /\ clean = Keys /\ hurt = {}

Next ==
    \/ \E k \in Keys : Get(k) \/ Delete(k) \/ \E val \in Values : Put(k, val)
    \/ Stage \/ StageFails \/ Compensate \/ Commit \/ CommitFails
    \/ Lookup \/ LookupFails \/ Fetch \/ Refill \/ Crash

Spec == Init /\ [][Next]_vars

-----------------------------------------------------------------------------
(* Properties *)

\* A cache agrees on a key if it holds nothing there, or what the canonical
\* store holds: a get can then not tell it from the canonical store.
AgreeOn(k) == \A c \in CacheIds : caches[c][k] \in {Absent, latest[k]}

Agreement == call = Idle => \A k \in Keys : AgreeOn(k)

\* Under `.strict` a failing cache never splits the caches from the canonical
\* store, in whatever loop it fails, as long as no cache takes a write it then
\* reports as failed, the compensating deletes succeed, the canonical store
\* refuses no write and no call is cut short.
StrictAgreement ==
    /\ policy = "strict"
    /\ hurt \cap {"cacheLate", "canonical", "compensate", "crash", "pinned"} = {}
    => Agreement

\* Whatever failed before, under either policy, one write that goes through
\* everywhere brings every cache back into line for its key, until the next
\* write to it: "re-issue the failed put to converge".
WholeWritesConverge == "pinned" \notin hurt => \A k \in clean : AgreeOn(k)

\* Where nothing fails, the composite reads like the canonical store
\* (write-through-store-spec.md 1).
TransparentReads == hurt \subseteq {"pinned"} => Agreement
=============================================================================
