--------------------- MODULE WriteThroughRefStoreProofs ---------------------
(***************************************************************************)
(* The write-through store for any number of caches, keys and values and   *)
(* under any faults: caches and canonical store agree where the policies   *)
(* promise it.                                                             *)
(***************************************************************************)
EXTENDS WriteThroughRefStore, TLAPS

\* What a call knows of itself between two of its calls on a store.
CallOK ==
    /\ call.pc = "idle" <=> call = Idle
    /\ call.pc # "idle" => call.key \in Keys
    /\ call.pc \in {"stage", "compensate"} =>
        call.op \in {"put", "delete"} /\ call.key \notin clean
    /\ call.pc \in {"lookup", "refill"} => call.op = "get"
    /\ call.op = "put" => call.val \in Values
    /\ call.op = "delete" => call.val = Absent
    /\ call.pc = "refill" => call.val \in Values
    /\ call.pin # Absent => call.pin \in DOMAIN snapshots /\ "pinned" \in Faults

\* A write that no cache has refused is in every cache it has turned to.
StagedOK ==
    call.pc = "stage" /\ call.whole =>
        \A c \in CacheIds : c < call.next => caches[c][call.key] = call.val

\* What a refill writes is what the canonical store still holds.
RefillOK ==
    call.pc = "refill" /\ call.pin = Absent => call.val = latest[call.key]

\* The condition of StrictAgreement.
Calm ==
    /\ policy = "strict"
    /\ hurt \cap {"cacheLate", "canonical", "compensate", "crash", "pinned"} = {}

Agrees(c, k) == caches[c][k] \in {Absent, latest[k]}

\* In a calm run only the caches a put or delete has reached, and those it has
\* not yet cleaned up after, may disagree, and only on the key it writes.
StrictOK ==
    Calm =>
        /\ call.pc = "stage" => call.whole
        /\ \A c \in CacheIds, k \in Keys :
            \/ Agrees(c, k)
            \/ call.pc = "stage" /\ k = call.key /\ c < call.next
            \/ call.pc = "compensate" /\ k = call.key
               /\ call.next <= c /\ c <= call.staged

CleanOK ==
    "pinned" \notin hurt => \A k \in clean, c \in CacheIds : Agrees(c, k)

TypeInv == TypeOK /\ CallOK

SafeInv == StagedOK /\ RefillOK /\ CleanOK /\ StrictOK

-----------------------------------------------------------------------------
(* Pieces of the steps *)

LEMMA IdleTyped ==
    /\ Idle \in Call /\ Idle.pc = "idle" /\ Idle.op = "none"
    /\ Idle.pin = Absent /\ Idle.val = Absent
  BY WriteThroughAssumption DEF Idle, Call

\* What a store into one cache changes.
LEMMA StoreOne ==
    ASSUME TypeInv, NEW c \in CacheIds, NEW k \in Keys, NEW x \in Values \cup {Absent},
           Store(c, k, x)
    PROVE  /\ caches' \in [CacheIds -> Maps]
           /\ caches'[c][k] = x
           /\ \A d \in CacheIds, j \in Keys :
                d # c \/ j # k => caches'[d][j] = caches[d][j]
  BY DEF Store, TypeInv, TypeOK, Maps

\* The canonical store holds the value written, and nothing else moved.
LEMMA WriteReaches ==
    ASSUME TypeInv, call.pc = "stage", CanonicalWrite
    PROVE  /\ Canonical!TypeOK'
           /\ latest'[call.key] = call.val
           /\ \A k \in Keys \ {call.key} : latest'[k] = latest[k]
           /\ DOMAIN snapshots \subseteq DOMAIN snapshots'
<1>1. /\ call.key \in Keys /\ call.op \in {"put", "delete"}
      /\ call.op = "put" => call.val \in Values
      /\ call.op = "delete" => call.val = Absent
      /\ latest \in Maps /\ Canonical!Maps = Maps
      /\ DOMAIN snapshots \subseteq Versions
      /\ \A v \in DOMAIN snapshots : snapshots[v] \in Maps
  BY DEF TypeInv, TypeOK, CallOK, Canonical!TypeOK, Maps, Canonical!Maps
<1>2. CASE latest[call.key] = Absent /\ UNCHANGED <<latest, snapshots>> /\ call.op = "delete"
  BY <1>1, <1>2 DEF TypeInv, TypeOK, Canonical!TypeOK
<1>3. ASSUME NEW x \in Values \cup {Absent}, x = call.val,
             Canonical!Publish([latest EXCEPT ![call.key] = x])
      PROVE  /\ Canonical!TypeOK'
             /\ latest'[call.key] = call.val
             /\ \A k \in Keys \ {call.key} : latest'[k] = latest[k]
             /\ DOMAIN snapshots \subseteq DOMAIN snapshots'
  <2>1. PICK v \in Versions \ DOMAIN snapshots :
            /\ latest' = [latest EXCEPT ![call.key] = x]
            /\ snapshots' = [w \in DOMAIN snapshots \cup {v} |->
                    IF w = v THEN [latest EXCEPT ![call.key] = x] ELSE snapshots[w]]
    BY <1>3 DEF Canonical!Publish
  <2>2. latest' \in Maps
    BY <1>1, <2>1 DEF Maps
  <2>3. /\ DOMAIN snapshots' = DOMAIN snapshots \cup {v}
        /\ \A w \in DOMAIN snapshots' : snapshots'[w] \in Maps
    BY <1>1, <2>1, <2>2
  <2>4. /\ latest'[call.key] = x
        /\ \A k \in Keys \ {call.key} : latest'[k] = latest[k]
    BY <1>1, <2>1 DEF Maps
  <2>. QED
    BY <1>1, <1>3, <2>2, <2>3, <2>4 DEF Canonical!TypeOK, Canonical!Maps, Maps
<1>4. CASE call.op = "put"
  <2>1. Canonical!Publish([latest EXCEPT ![call.key] = call.val])
    BY <1>4 DEF CanonicalWrite, Canonical!Put, Canonical!Bases
  <2>. QED
    BY <1>1, <1>3, <1>4, <2>1
<1>5. CASE call.op = "delete"
  <2>1. \/ Canonical!Publish([latest EXCEPT ![call.key] = Absent])
        \/ latest[call.key] = Absent /\ UNCHANGED <<latest, snapshots>>
    BY <1>5 DEF CanonicalWrite, Canonical!Delete, Canonical!Bases
  <2>. QED
    BY <1>1, <1>2, <1>3, <1>5, <2>1
<1>. QED
  BY <1>1, <1>4, <1>5

-----------------------------------------------------------------------------
(* Types *)

LEMMA TypeInit == Init => TypeInv
<1> SUFFICES ASSUME Init PROVE TypeInv
  OBVIOUS
<1>1. Canonical!TypeOK
  BY DEF Init, Canonical!Init, Canonical!TypeOK, Canonical!EmptyMap, Canonical!Maps
<1>2. TypeOK
  BY <1>1, IdleTyped DEF Init, TypeOK, Maps
<1>3. CallOK
  BY IdleTyped DEF Init, CallOK
<1>. QED
  BY <1>2, <1>3 DEF TypeInv

\* Leaving a call.
LEMMA TypeReturn ==
    ASSUME TypeInv, Return, policy' = policy, caches' \in [CacheIds -> Maps],
           Canonical!TypeOK', clean' \subseteq Keys, hurt' \subseteq Faults
    PROVE  TypeInv'
  BY IdleTyped DEF Return, TypeInv, TypeOK, CallOK

\* Going on within one.
LEMMA TypeGoOn ==
    ASSUME TypeInv, call.pc # "idle", call' \in Call,
           policy' = policy, caches' \in [CacheIds -> Maps],
           UNCHANGED <<latest, snapshots, clean>>, hurt' \subseteq Faults,
           call'.key = call.key, call'.op = call.op, call'.pin = call.pin,
           \/ call'.pc = call.pc /\ call'.val = call.val
           \/ call.pc = "stage" /\ call'.pc = "compensate" /\ call'.val = call.val
           \/ call.pc = "lookup" /\ call'.pc = "refill" /\ call'.val \in Values
    PROVE  TypeInv'
<1>1. Canonical!TypeOK'
  BY DEF TypeInv, TypeOK, Canonical!TypeOK
<1>2. call'.pc # "idle" /\ call' # Idle
  BY IdleTyped
<1>. QED
  BY <1>1, <1>2 DEF TypeInv, TypeOK, CallOK

\* The next turn of a loop.
LEMMA NextTurn ==
    ASSUME TypeInv, call.next \in CacheIds \/ call.next <= call.staged,
           call' = [call EXCEPT !.next = @ + 1]
    PROVE  /\ call' \in Call /\ call'.pc = call.pc /\ call'.op = call.op
           /\ call'.key = call.key /\ call'.val = call.val /\ call'.pin = call.pin
           /\ call'.staged = call.staged /\ call'.whole = call.whole
           /\ call'.next = call.next + 1
  BY WriteThroughAssumption DEF TypeInv, TypeOK, Call, CacheIds

\* One more turn in which a cache refused a write.
LEMMA NextTurnRefused ==
    ASSUME TypeInv, call.next \in CacheIds,
           call' = [call EXCEPT !.next = @ + 1, !.whole = FALSE]
    PROVE  /\ call' \in Call /\ call'.pc = call.pc /\ call'.op = call.op
           /\ call'.key = call.key /\ call'.val = call.val /\ call'.pin = call.pin
           /\ call'.staged = call.staged /\ ~call'.whole
           /\ call'.next = call.next + 1
<1>1. /\ call \in Call /\ NumCaches \in Nat /\ call.next + 1 \in 1..(NumCaches + 1)
  BY WriteThroughAssumption DEF TypeInv, TypeOK, CacheIds
<1>2. call' = [pc |-> call.pc, op |-> call.op, key |-> call.key, val |-> call.val,
               next |-> call.next + 1, staged |-> call.staged, whole |-> FALSE,
               pin |-> call.pin]
  BY <1>1 DEF Call
<1>3. call' \in Call
  BY <1>1, <1>2 DEF Call
<1>. QED
  BY <1>2, <1>3

\* The turn from the staging loop to the compensating one.
LEMMA StartCompensating ==
    ASSUME TypeInv, call.next \in CacheIds,
           call' = [call EXCEPT !.pc = "compensate", !.next = 1, !.staged = call.next - 1]
    PROVE  /\ call' \in Call /\ call'.pc = "compensate" /\ call'.op = call.op
           /\ call'.key = call.key /\ call'.val = call.val /\ call'.pin = call.pin
           /\ call'.staged = call.next - 1 /\ call'.next = 1
<1>1. /\ call \in Call /\ NumCaches \in Nat /\ call.next \in 1..NumCaches
      /\ call.next - 1 \in 0..NumCaches /\ 1 \in 1..(NumCaches + 1)
  BY WriteThroughAssumption DEF TypeInv, TypeOK, CacheIds
<1>2. call' = [pc |-> "compensate", op |-> call.op, key |-> call.key, val |-> call.val,
               next |-> 1, staged |-> call.next - 1, whole |-> call.whole,
               pin |-> call.pin]
  BY <1>1 DEF Call
<1>. QED
  BY <1>1, <1>2 DEF Call

\* The turn from the lookups to the refills.
LEMMA StartRefilling ==
    ASSUME TypeInv, NEW x \in Values,
           call' = [call EXCEPT !.pc = "refill", !.next = 1, !.val = x]
    PROVE  /\ call' \in Call /\ call'.pc = "refill" /\ call'.op = call.op
           /\ call'.key = call.key /\ call'.val = x /\ call'.pin = call.pin
           /\ call'.next = 1
<1>1. call \in Call /\ NumCaches \in Nat /\ 1 \in 1..(NumCaches + 1)
  BY WriteThroughAssumption DEF TypeInv, TypeOK
<1>2. call' = [pc |-> "refill", op |-> call.op, key |-> call.key, val |-> x,
               next |-> 1, staged |-> call.staged, whole |-> call.whole,
               pin |-> call.pin]
  BY <1>1 DEF Call
<1>. QED
  BY <1>1, <1>2 DEF Call

\* The call that Begin begins.
LEMMA BegunCall ==
    ASSUME NEW pc \in {"stage", "lookup"}, NEW op \in {"put", "delete", "get"},
           NEW k \in Keys, NEW x \in Values \cup {Absent}, NEW pin \in Versions \cup {Absent},
           Begin(pc, op, k, x, pin)
    PROVE  /\ call' \in Call /\ call'.pc = pc /\ call'.op = op /\ call'.key = k
           /\ call'.val = x /\ call'.pin = pin /\ call'.next = 1 /\ call'.whole
           /\ call = Idle /\ UNCHANGED <<policy, caches, latest, snapshots, hurt>>
           /\ clean' = IF op = "get" THEN clean ELSE clean \ {k}
<1>1. call' = [pc |-> pc, op |-> op, key |-> k, val |-> x, next |-> 1, staged |-> 0,
               whole |-> TRUE, pin |-> pin]
  BY DEF Begin, Idle
<1>2. 1 \in 1..(NumCaches + 1) /\ 0 \in 0..NumCaches
  BY WriteThroughAssumption
<1>3. call' \in Call
  BY <1>1, <1>2 DEF Call
<1>4. /\ call = Idle /\ UNCHANGED <<policy, caches, latest, snapshots, hurt>>
      /\ clean' = IF op = "get" THEN clean ELSE clean \ {k}
  BY DEF Begin
<1>. QED
  BY <1>1, <1>3, <1>4

LEMMA TypeBegin ==
    ASSUME TypeInv,
           NEW pc \in {"stage", "lookup"}, NEW op \in {"put", "delete", "get"},
           pc = "lookup" <=> op = "get",
           NEW k \in Keys, NEW x \in Values \cup {Absent},
           (op = "put" => x \in Values) /\ (op = "delete" => x = Absent),
           NEW pin \in Versions \cup {Absent},
           pin # Absent => pin \in DOMAIN snapshots /\ "pinned" \in Faults,
           Begin(pc, op, k, x, pin)
    PROVE  TypeInv'
<1>1. call' # Idle /\ call'.pc # "idle"
  BY BegunCall, IdleTyped
<1>2. TypeOK'
  BY BegunCall DEF TypeInv, TypeOK, Canonical!TypeOK
<1>3. /\ call'.pc = pc /\ call'.op = op /\ call'.key = k /\ call'.val = x
      /\ call'.pin = pin /\ snapshots' = snapshots
      /\ op # "get" => k \notin clean'
  BY BegunCall
<1>4. CallOK'
  BY <1>1, <1>3 DEF CallOK
<1>. QED
  BY <1>2, <1>4 DEF TypeInv

LEMMA TypeStage ==
    ASSUME TypeInv, Stage
    PROVE  TypeInv'
<1>1. call.val \in Values \cup {Absent} /\ call.key \in Keys
  BY DEF TypeInv, CallOK, Stage
<1>. QED
  BY <1>1, StoreOne, NextTurn, TypeGoOn DEF Stage, TypeInv, TypeOK

LEMMA TypeStageFails ==
    ASSUME TypeInv, StageFails
    PROVE  TypeInv'
<1>1. /\ call.val \in Values \cup {Absent} /\ call.key \in Keys /\ call.next \in CacheIds
      /\ call.pc = "stage" /\ UNCHANGED <<policy, latest, snapshots, clean>>
  BY DEF TypeInv, CallOK, StageFails
<1>2. caches' \in [CacheIds -> Maps] /\ hurt' \subseteq Faults
  BY <1>1, StoreOne DEF StageFails, Meets, TypeInv, TypeOK
<1>3. CASE call' = [call EXCEPT !.next = @ + 1, !.whole = FALSE]
  BY <1>1, <1>2, <1>3, NextTurnRefused, TypeGoOn
<1>4. CASE call' = [call EXCEPT !.pc = "compensate", !.next = 1, !.staged = call.next - 1]
  BY <1>1, <1>2, <1>4, StartCompensating, TypeGoOn
<1>5. CASE Return
  BY <1>1, <1>2, <1>5, TypeReturn DEF TypeInv, TypeOK, Canonical!TypeOK
<1>. QED
  BY <1>3, <1>4, <1>5 DEF StageFails

LEMMA TypeCompensate ==
    ASSUME TypeInv, Compensate
    PROVE  TypeInv'
<1>1. /\ call.key \in Keys /\ call.pc = "compensate"
      /\ UNCHANGED <<policy, latest, snapshots, clean>>
      /\ call.next \in 1..(NumCaches + 1) /\ call.staged \in 0..NumCaches
      /\ NumCaches \in Nat
  BY WriteThroughAssumption DEF TypeInv, TypeOK, CallOK, Compensate, Call
<1>2. CASE call.next > call.staged
  BY <1>1, <1>2, TypeReturn DEF Compensate, TypeInv, TypeOK, Canonical!TypeOK
<1>3. CASE ~(call.next > call.staged)
  <2>1. call.next \in CacheIds /\ call.next <= call.staged
    BY <1>1, <1>3 DEF CacheIds
  <2>2. caches' \in [CacheIds -> Maps] /\ hurt' \subseteq Faults
    BY <1>1, <1>3, <2>1, StoreOne DEF Compensate, Meets, TypeInv, TypeOK
  <2>. QED
    BY <1>1, <1>3, <2>1, <2>2, NextTurn, TypeGoOn DEF Compensate
<1>. QED
  BY <1>2, <1>3

LEMMA TypeCommits ==
    ASSUME TypeInv, Commit \/ CommitFails
    PROVE  TypeInv'
<1>1. call.key \in Keys /\ Return /\ policy' = policy /\ caches' = caches
  BY DEF TypeInv, CallOK, Commit, CommitFails
<1>2. Canonical!TypeOK'
  BY WriteReaches DEF Commit, CommitFails, TypeInv, TypeOK, Canonical!TypeOK
<1>3. clean' \subseteq Keys /\ hurt' \subseteq Faults
  BY <1>1 DEF Commit, CommitFails, Meets, TypeInv, TypeOK
<1>. QED
  BY <1>1, <1>2, <1>3, TypeReturn DEF TypeInv, TypeOK

LEMMA TypeLookups ==
    ASSUME TypeInv, Lookup \/ LookupFails
    PROVE  TypeInv'
<1>1. /\ call.next \in CacheIds /\ call.pc = "lookup"
      /\ UNCHANGED <<policy, caches, latest, snapshots, clean>>
      /\ hurt' \subseteq Faults
  BY DEF TypeInv, TypeOK, Lookup, LookupFails, Meets
<1>2. CASE Return
  BY <1>1, <1>2, TypeReturn DEF TypeInv, TypeOK, Canonical!TypeOK
<1>3. CASE call' = [call EXCEPT !.next = @ + 1]
  BY <1>1, <1>3, NextTurn, TypeGoOn DEF TypeInv, TypeOK
<1>. QED
  BY <1>2, <1>3 DEF Lookup, LookupFails, Return

LEMMA TypeFetch ==
    ASSUME TypeInv, Fetch
    PROVE  TypeInv'
<1> DEFINE found == IF call.pin = Absent THEN latest[call.key]
                                         ELSE snapshots[call.pin][call.key]
<1>1. /\ call.key \in Keys /\ call.pc = "lookup"
      /\ UNCHANGED <<policy, caches, latest, snapshots, clean>>
      /\ hurt' \subseteq Faults
  BY DEF TypeInv, TypeOK, CallOK, Fetch, Meets
<1>2. found \in Values \cup {Absent}
  BY <1>1 DEF TypeInv, TypeOK, CallOK, Canonical!TypeOK, Canonical!Maps
<1>3. CASE Return
  BY <1>1, <1>3, TypeReturn DEF TypeInv, TypeOK, Canonical!TypeOK
<1>4. CASE /\ call' = [call EXCEPT !.pc = "refill", !.next = 1, !.val = found]
           /\ found # Absent
  <2>1. found \in Values
    BY <1>2, <1>4
  <2> HIDE DEF found
  <2>. QED
    BY <1>1, <1>4, <2>1, StartRefilling, TypeGoOn DEF TypeInv, TypeOK
<1>5. (call' = IF found = Absent THEN Idle
               ELSE [call EXCEPT !.pc = "refill", !.next = 1, !.val = found]) \/ Return
  BY DEF Fetch
<1>. QED
  BY <1>3, <1>4, <1>5 DEF Return

LEMMA TypeRefill ==
    ASSUME TypeInv, Refill
    PROVE  TypeInv'
<1>1. /\ call.key \in Keys /\ call.val \in Values /\ call.pc = "refill"
      /\ UNCHANGED <<policy, latest, snapshots, clean>>
      /\ call.pin # Absent => "pinned" \in Faults
      /\ call.next \in 1..(NumCaches + 1) /\ NumCaches \in Nat
  BY WriteThroughAssumption DEF TypeInv, TypeOK, CallOK, Refill, Call
<1>2. CASE call.next > NumCaches
  BY <1>1, <1>2, TypeReturn DEF Refill, TypeInv, TypeOK, Canonical!TypeOK
<1>3. CASE ~(call.next > NumCaches)
  <2>1. call.next \in CacheIds
    BY <1>1, <1>3 DEF CacheIds
  <2>2. caches' \in [CacheIds -> Maps] /\ hurt' \subseteq Faults
    BY <1>1, <1>3, <2>1, StoreOne DEF Refill, Meets, TypeInv, TypeOK
  <2>. QED
    BY <1>1, <1>3, <2>1, <2>2, NextTurn, TypeGoOn DEF Refill
<1>. QED
  BY <1>2, <1>3

LEMMA TypeCrash ==
    ASSUME TypeInv, Crash
    PROVE  TypeInv'
<1>1. caches' \in [CacheIds -> Maps]
  <2>1. [k \in Keys |-> Absent] \in Maps
    BY DEF Maps
  <2>. QED
    BY <2>1 DEF Crash, TypeInv, TypeOK
<1>. QED
  BY <1>1, TypeReturn DEF Crash, Meets, TypeInv, TypeOK, Canonical!TypeOK

LEMMA TypeStep == TypeInv /\ [Next]_vars => TypeInv'
<1> SUFFICES ASSUME TypeInv, [Next]_vars PROVE TypeInv'
  OBVIOUS
<1>1. ASSUME NEW k \in Keys, Get(k) PROVE TypeInv'
  <2>1. DOMAIN snapshots \subseteq Versions
    BY DEF TypeInv, TypeOK, Canonical!TypeOK
  <2>2. CASE Begin("lookup", "get", k, Absent, Absent)
    BY <2>2, TypeBegin
  <2>3. ASSUME "pinned" \in Faults, NEW pin \in DOMAIN snapshots,
               Begin("lookup", "get", k, Absent, pin)
        PROVE  TypeInv'
    BY <2>1, <2>3, TypeBegin
  <2>. QED
    BY <1>1, <2>2, <2>3 DEF Get
<1>2. ASSUME NEW k \in Keys, Delete(k) PROVE TypeInv'
  BY <1>2, TypeBegin DEF Delete
<1>3. ASSUME NEW k \in Keys, NEW val \in Values, Put(k, val) PROVE TypeInv'
  BY <1>3, TypeBegin DEF Put
<1>4. CASE UNCHANGED vars
  BY <1>4 DEF vars, TypeInv, TypeOK, CallOK, Canonical!TypeOK
<1>. QED
  BY <1>1, <1>2, <1>3, <1>4, TypeStage, TypeStageFails, TypeCompensate, TypeCommits,
     TypeLookups, TypeFetch, TypeRefill, TypeCrash DEF Next

\* Type correctness, with any number of caches and any faults.
THEOREM WriteThroughTypeCorrect == Spec => []TypeOK
<1>1. TypeInv => TypeOK
  BY DEF TypeInv
<1>. QED
  BY TypeInit, TypeStep, <1>1, PTL DEF Spec

-----------------------------------------------------------------------------
(* Agreement *)

LEMMA SafeInit == Init => SafeInv
<1> SUFFICES ASSUME Init PROVE SafeInv
  OBVIOUS
<1>1. \A c \in CacheIds, k \in Keys : Agrees(c, k)
  BY DEF Init, Agrees
<1>2. StagedOK /\ RefillOK
  BY IdleTyped DEF Init, StagedOK, RefillOK
<1>3. CleanOK /\ StrictOK
  BY <1>1, IdleTyped DEF Init, CleanOK, StrictOK
<1>. QED
  BY <1>2, <1>3 DEF SafeInv

\* Beginning a call.
LEMMA SafeBegin ==
    ASSUME TypeInv, SafeInv,
           NEW pc \in {"stage", "lookup"}, NEW op \in {"put", "delete", "get"},
           NEW k \in Keys, NEW x \in Values \cup {Absent}, NEW pin \in Versions \cup {Absent},
           Begin(pc, op, k, x, pin)
    PROVE  SafeInv'
<1>1. /\ call'.pc = pc /\ call'.next = 1 /\ call'.whole /\ clean' \subseteq clean
      /\ UNCHANGED <<policy, caches, latest, snapshots, hurt>> /\ call.pc = "idle"
  BY BegunCall, IdleTyped
<1>2. \A c \in CacheIds : c \in Nat /\ ~(c < 1)
  BY WriteThroughAssumption DEF CacheIds
<1>3. StagedOK' /\ RefillOK'
  BY <1>1, <1>2 DEF StagedOK, RefillOK
<1>4. CleanOK'
  BY <1>1 DEF SafeInv, CleanOK, Agrees
<1>5. StrictOK'
  BY <1>1 DEF SafeInv, StrictOK, Calm, Agrees
<1>. QED
  BY <1>3, <1>4, <1>5 DEF SafeInv

\* Leaving a call that wrote nothing more, where every key agrees if the run is
\* calm.
LEMMA SafeReturn ==
    ASSUME TypeInv, SafeInv, Return, UNCHANGED <<policy, caches, latest, clean>>,
           hurt \subseteq hurt',
           Calm' => \A c \in CacheIds, k \in Keys : Agrees(c, k)
    PROVE  SafeInv'
<1>1. call'.pc = "idle"
  BY IdleTyped DEF Return
<1>2. StagedOK' /\ RefillOK'
  BY <1>1 DEF StagedOK, RefillOK
<1>3. CleanOK'
  BY DEF SafeInv, CleanOK, Agrees
<1>4. StrictOK'
  BY <1>1 DEF StrictOK, Agrees
<1>. QED
  BY <1>2, <1>3, <1>4 DEF SafeInv

\* Writing into a cache what a dirty key may hold there.
LEMMA CleanKept ==
    ASSUME TypeInv, SafeInv, call.key \notin clean, call.key \in Keys,
           NEW c \in CacheIds, NEW x \in Values \cup {Absent}, Store(c, call.key, x),
           UNCHANGED <<latest, clean>>, hurt \subseteq hurt'
    PROVE  CleanOK'
<1>1. \A d \in CacheIds, k \in clean : caches'[d][k] = caches[d][k]
  BY StoreOne DEF TypeInv, TypeOK
<1>. QED
  BY <1>1 DEF SafeInv, CleanOK, Agrees

LEMMA SafeStage ==
    ASSUME TypeInv, SafeInv, Stage
    PROVE  SafeInv'
<1>1. /\ call.val \in Values \cup {Absent} /\ call.key \in Keys /\ call.next \in CacheIds
      /\ call.key \notin clean /\ call.pc = "stage"
      /\ UNCHANGED <<policy, latest, snapshots, clean, hurt>>
      /\ Store(call.next, call.key, call.val)
  BY DEF TypeInv, CallOK, Stage
<1>2. /\ call'.pc = "stage" /\ call'.key = call.key /\ call'.val = call.val
      /\ call'.whole = call.whole /\ call'.next = call.next + 1
  BY <1>1, NextTurn DEF Stage
<1>3. /\ caches'[call.next][call.key] = call.val
      /\ \A c \in CacheIds, k \in Keys :
            c # call.next \/ k # call.key => caches'[c][k] = caches[c][k]
  BY <1>1, StoreOne
<1>4. \A c \in CacheIds : c \in Nat /\ (c < call.next + 1 => c = call.next \/ c < call.next)
                          /\ (c < call.next => c < call.next + 1)
  BY <1>1, WriteThroughAssumption DEF CacheIds
<1>5. call.next < call.next + 1
  BY <1>1, WriteThroughAssumption DEF CacheIds
<1>6. StagedOK'
  BY <1>1, <1>2, <1>3, <1>4 DEF SafeInv, StagedOK
<1>7. RefillOK'
  BY <1>2 DEF RefillOK
<1>8. CleanOK'
  BY <1>1, CleanKept
<1>9. StrictOK'
  <2>1. ASSUME Calm', NEW c \in CacheIds, NEW k \in Keys
        PROVE  Agrees(c, k)' \/ (k = call.key /\ c < call.next + 1)
    <3>1. Calm
      BY <1>1, <2>1 DEF Calm
    <3>2. CASE c = call.next /\ k = call.key
      BY <1>5, <3>2
    <3>3. CASE c # call.next \/ k # call.key
      <4>1. caches'[c][k] = caches[c][k] /\ latest'[k] = latest[k]
        BY <1>1, <1>3, <3>3
      <4>2. Agrees(c, k) \/ (k = call.key /\ c < call.next)
        BY <1>1, <3>1 DEF SafeInv, StrictOK
      <4>. QED
        BY <1>4, <4>1, <4>2 DEF Agrees
    <3>. QED
      BY <3>2, <3>3
  <2>2. Calm' => call'.whole
    BY <1>1, <1>2 DEF SafeInv, StrictOK, Calm
  <2>. QED
    BY <1>2, <2>1, <2>2 DEF StrictOK
<1>. QED
  BY <1>6, <1>7, <1>8, <1>9 DEF SafeInv

\* A cache refuses a write; in a calm run it has not taken it.
LEMMA SafeStageFails ==
    ASSUME TypeInv, SafeInv, StageFails
    PROVE  SafeInv'
<1>1. /\ call.val \in Values \cup {Absent} /\ call.key \in Keys /\ call.next \in CacheIds
      /\ call.key \notin clean /\ call.pc = "stage" /\ hurt \subseteq hurt'
      /\ UNCHANGED <<policy, latest, snapshots, clean>>
  BY DEF TypeInv, CallOK, StageFails, Meets
<1>2. caches' = caches \/ (Store(call.next, call.key, call.val) /\ "cacheLate" \in hurt')
  BY DEF StageFails, Meets
<1>3. CleanOK'
  <2>1. CASE caches' = caches
    BY <1>1, <2>1 DEF SafeInv, CleanOK, Agrees
  <2>2. CASE Store(call.next, call.key, call.val)
    BY <1>1, <2>2, CleanKept
  <2>. QED
    BY <1>2, <2>1, <2>2
<1>4. ASSUME Calm'
      PROVE  /\ policy = "strict" /\ UNCHANGED <<caches, latest>>
             /\ \A c \in CacheIds : c < call.next => caches[c][call.key] = call.val
             /\ \A c \in CacheIds, k \in Keys :
                    Agrees(c, k) \/ (k = call.key /\ c < call.next)
  <2>1. Calm /\ caches' = caches /\ policy = "strict"
    BY <1>1, <1>2, <1>4 DEF Calm
  <2>2. call.whole
    BY <1>1, <2>1 DEF SafeInv, StrictOK
  <2>. QED
    BY <1>1, <2>1, <2>2 DEF SafeInv, StrictOK, StagedOK
<1>5. CASE policy = "lax" /\ call' = [call EXCEPT !.next = @ + 1, !.whole = FALSE]
  <2>1. call'.pc = "stage" /\ ~call'.whole
    BY <1>1, <1>5, NextTurnRefused
  <2>2. StagedOK' /\ RefillOK'
    BY <2>1 DEF StagedOK, RefillOK
  <2>3. StrictOK'
    BY <1>1, <1>5 DEF StrictOK, Calm
  <2>. QED
    BY <1>3, <2>2, <2>3 DEF SafeInv
<1>6. CASE call' = [call EXCEPT !.pc = "compensate", !.next = 1, !.staged = call.next - 1]
  <2>1. /\ call'.pc = "compensate" /\ call'.key = call.key
        /\ call'.next = 1 /\ call'.staged = call.next - 1
    BY <1>1, <1>6, StartCompensating
  <2>2. StagedOK' /\ RefillOK'
    BY <2>1 DEF StagedOK, RefillOK
  <2>3. \A c \in CacheIds : c < call.next => 1 <= c /\ c <= call.next - 1
    BY <1>1, WriteThroughAssumption DEF CacheIds
  <2>4. StrictOK'
    BY <1>4, <2>1, <2>3 DEF StrictOK, Agrees
  <2>. QED
    BY <1>3, <2>2, <2>4 DEF SafeInv
<1>7. CASE policy = "strict" /\ call.op = "delete" /\ Return
  <2>1. call'.pc = "idle"
    BY <1>7, IdleTyped DEF Return
  <2>2. StagedOK' /\ RefillOK'
    BY <2>1 DEF StagedOK, RefillOK
  <2>3. call.val = Absent
    BY <1>7 DEF TypeInv, CallOK
  <2>4. StrictOK'
    BY <1>4, <2>1, <2>3 DEF StrictOK, Agrees
  <2>. QED
    BY <1>3, <2>2, <2>4 DEF SafeInv
<1>. QED
  BY <1>5, <1>6, <1>7 DEF StageFails

LEMMA SafeCompensate ==
    ASSUME TypeInv, SafeInv, Compensate
    PROVE  SafeInv'
<1>1. /\ call.key \in Keys /\ call.pc = "compensate" /\ call.key \notin clean
      /\ UNCHANGED <<policy, latest, snapshots, clean>> /\ hurt \subseteq hurt'
      /\ call.next \in 1..(NumCaches + 1) /\ call.staged \in 0..NumCaches
      /\ NumCaches \in Nat
  BY WriteThroughAssumption DEF TypeInv, TypeOK, CallOK, Compensate, Call, Meets
<1>2. Calm' => Calm
  BY <1>1 DEF Calm
<1>3. CASE call.next > call.staged
  <2>1. \A c \in CacheIds : ~(call.next <= c /\ c <= call.staged)
    BY <1>1, <1>3 DEF CacheIds
  <2>2. Calm' => \A c \in CacheIds, k \in Keys : Agrees(c, k)
    BY <1>1, <1>2, <2>1 DEF SafeInv, StrictOK
  <2>. QED
    BY <1>1, <1>3, <2>2, SafeReturn DEF Compensate
<1>4. CASE ~(call.next > call.staged)
  <2>1. call.next \in CacheIds /\ call.next <= call.staged
    BY <1>1, <1>4 DEF CacheIds
  <2>2. /\ call'.pc = "compensate" /\ call'.key = call.key
        /\ call'.next = call.next + 1 /\ call'.staged = call.staged
    BY <1>1, <1>4, <2>1, NextTurn DEF Compensate
  <2>3. Store(call.next, call.key, Absent) \/ (caches' = caches /\ "compensate" \in hurt')
    BY <1>4 DEF Compensate, Meets
  <2>4. StagedOK' /\ RefillOK'
    BY <2>2 DEF StagedOK, RefillOK
  <2>5. CleanOK'
    <3>1. CASE Store(call.next, call.key, Absent)
      BY <1>1, <2>1, <3>1, CleanKept
    <3>2. CASE caches' = caches
      BY <1>1, <3>2 DEF SafeInv, CleanOK, Agrees
    <3>. QED
      BY <2>3, <3>1, <3>2
  <2>6. ASSUME Calm', NEW c \in CacheIds, NEW k \in Keys
        PROVE  \/ Agrees(c, k)'
               \/ k = call.key /\ call.next + 1 <= c /\ c <= call.staged
    <3>1. Store(call.next, call.key, Absent) /\ Calm
      BY <1>2, <2>3, <2>6 DEF Calm
    <3>2. CASE c = call.next /\ k = call.key
      <4>1. caches'[c][k] = Absent
        BY <1>1, <2>1, <3>1, <3>2, StoreOne
      <4>. QED
        BY <4>1 DEF Agrees
    <3>3. CASE c # call.next \/ k # call.key
      <4>1. caches'[c][k] = caches[c][k] /\ latest'[k] = latest[k]
        BY <1>1, <2>1, <3>1, <3>3, StoreOne
      <4>2. Agrees(c, k) \/ (k = call.key /\ call.next <= c /\ c <= call.staged)
        BY <1>1, <3>1 DEF SafeInv, StrictOK
      <4>3. c # call.next /\ call.next <= c => call.next + 1 <= c
        BY <1>1 DEF CacheIds
      <4>. QED
        BY <3>3, <4>1, <4>2, <4>3 DEF Agrees
    <3>. QED
      BY <3>2, <3>3
  <2>7. StrictOK'
    BY <2>2, <2>6 DEF StrictOK
  <2>. QED
    BY <2>4, <2>5, <2>7 DEF SafeInv
<1>. QED
  BY <1>3, <1>4

\* The canonical write: whatever it leaves of the other keys, in every cache a
\* write that was whole is what the canonical store now holds.
LEMMA SafeCommits ==
    ASSUME TypeInv, SafeInv, Commit \/ CommitFails
    PROVE  SafeInv'
<1>1. /\ call.key \in Keys /\ call.pc = "stage" /\ call.key \notin clean
      /\ Return /\ UNCHANGED <<policy, caches>> /\ hurt \subseteq hurt'
      /\ call.next > NumCaches /\ call.next \in 1..(NumCaches + 1) /\ NumCaches \in Nat
      /\ clean \subseteq Keys
  BY WriteThroughAssumption
     DEF TypeInv, TypeOK, CallOK, Commit, CommitFails, Call, Meets
<1>2. call'.pc = "idle" /\ \A c \in CacheIds : c < call.next
  BY <1>1, IdleTyped DEF Return, CacheIds
<1>3. /\ CanonicalWrite \/ (UNCHANGED latest /\ "canonical" \in hurt')
      /\ clean' \subseteq clean \cup {call.key}
      /\ call.key \in clean' => call.whole /\ CanonicalWrite
  BY <1>1 DEF Commit, CommitFails, Meets
<1>4. CanonicalWrite => latest'[call.key] = call.val
  BY <1>1, WriteReaches
<1>5. \A k \in Keys \ {call.key} : latest'[k] = latest[k]
  BY <1>1, <1>3, WriteReaches
<1>6. call.whole => \A c \in CacheIds : caches[c][call.key] = call.val
  BY <1>1, <1>2 DEF SafeInv, StagedOK
<1>7. CleanOK'
  BY <1>1, <1>3, <1>4, <1>5, <1>6 DEF SafeInv, CleanOK, Agrees
<1>8. ASSUME Calm', NEW c \in CacheIds, NEW k \in Keys PROVE Agrees(c, k)'
  <2>1. Calm /\ CanonicalWrite
    BY <1>1, <1>3, <1>8 DEF Calm
  <2>2. CASE k = call.key
    BY <1>1, <1>4, <1>6, <2>1, <2>2 DEF SafeInv, StrictOK, Agrees
  <2>3. CASE k # call.key
    BY <1>1, <1>5, <2>1, <2>3 DEF SafeInv, StrictOK, Agrees
  <2>. QED
    BY <2>2, <2>3
<1>9. StagedOK' /\ RefillOK' /\ StrictOK'
  BY <1>2, <1>8 DEF StagedOK, RefillOK, StrictOK
<1>. QED
  BY <1>7, <1>9 DEF SafeInv

\* A call that reads finds every key in agreement if the run is calm.
LEMMA ReadsCalmly ==
    ASSUME SafeInv, call.pc \in {"lookup", "refill"}, Calm
    PROVE  \A c \in CacheIds, k \in Keys : Agrees(c, k)
  BY DEF SafeInv, StrictOK

LEMMA SafeReads ==
    ASSUME TypeInv, SafeInv, Lookup \/ LookupFails \/ Fetch
    PROVE  SafeInv'
<1>1. /\ call.pc = "lookup" /\ hurt \subseteq hurt'
      /\ UNCHANGED <<policy, caches, latest, snapshots, clean>>
  BY DEF Lookup, LookupFails, Fetch, Meets
<1>2. Calm' => \A c \in CacheIds, k \in Keys : Agrees(c, k)
  BY <1>1, ReadsCalmly DEF Calm
<1>3. CASE Return
  BY <1>1, <1>2, <1>3, SafeReturn
<1>4. ASSUME call'.pc \in {"lookup", "refill"}, RefillOK' PROVE SafeInv'
  <2>1. StagedOK' /\ StrictOK'
    BY <1>1, <1>2, <1>4 DEF StagedOK, StrictOK, Agrees
  <2>2. CleanOK'
    BY <1>1 DEF SafeInv, CleanOK, Agrees
  <2>. QED
    BY <1>4, <2>1, <2>2 DEF SafeInv
<1>5. CASE call.next \in CacheIds /\ call' = [call EXCEPT !.next = @ + 1]
  <2>1. call'.pc = "lookup"
    BY <1>1, <1>5, NextTurn
  <2>. QED
    BY <1>4, <2>1 DEF RefillOK
<1>6. ASSUME NEW found, found = (IF call.pin = Absent THEN latest[call.key]
                                 ELSE snapshots[call.pin][call.key]),
             found # Absent,
             call' = [call EXCEPT !.pc = "refill", !.next = 1, !.val = found]
      PROVE  SafeInv'
  <2>1. found \in Values
    BY <1>1, <1>6 DEF TypeInv, TypeOK, CallOK, Canonical!TypeOK, Canonical!Maps
  <2>2. /\ call'.pc = "refill" /\ call'.val = found /\ call'.key = call.key
        /\ call'.pin = call.pin
    BY <1>6, <2>1, StartRefilling
  <2>3. RefillOK'
    BY <1>1, <1>6, <2>2 DEF RefillOK
  <2>. QED
    BY <1>4, <2>2, <2>3
<1>7. CASE Lookup \/ LookupFails
  BY <1>3, <1>5, <1>7 DEF Lookup, LookupFails, Return
<1>8. CASE Fetch
  BY <1>3, <1>6, <1>8 DEF Fetch, Return
<1>. QED
  BY <1>7, <1>8

LEMMA SafeRefill ==
    ASSUME TypeInv, SafeInv, Refill
    PROVE  SafeInv'
<1>1. /\ call.key \in Keys /\ call.val \in Values /\ call.pc = "refill"
      /\ UNCHANGED <<policy, latest, snapshots, clean>> /\ hurt \subseteq hurt'
      /\ call.next \in 1..(NumCaches + 1) /\ NumCaches \in Nat
  BY WriteThroughAssumption DEF TypeInv, TypeOK, CallOK, Refill, Call, Meets
<1>2. Calm' => \A c \in CacheIds, k \in Keys : Agrees(c, k)
  BY <1>1, ReadsCalmly DEF Calm
<1>3. CASE call.next > NumCaches
  BY <1>1, <1>2, <1>3, SafeReturn DEF Refill
<1>4. CASE ~(call.next > NumCaches)
  <2>1. call.next \in CacheIds
    BY <1>1, <1>4 DEF CacheIds
  <2>2. /\ call'.pc = "refill" /\ call'.key = call.key /\ call'.val = call.val
        /\ call'.pin = call.pin
    BY <1>4, <2>1, NextTurn DEF Refill
  <2>3. \/ caches' = caches
        \/ Store(call.next, call.key, call.val) /\ (call.pin # Absent => "pinned" \in hurt')
    BY <1>4 DEF Refill
  <2>4. StagedOK' /\ RefillOK'
    BY <1>1, <2>2 DEF SafeInv, StagedOK, RefillOK
  <2>5. ASSUME "pinned" \notin hurt', NEW c \in CacheIds, NEW k \in Keys, Agrees(c, k)
        PROVE  Agrees(c, k)'
    <3>1. CASE caches' = caches
      BY <1>1, <2>5, <3>1 DEF Agrees
    <3>2. CASE /\ Store(call.next, call.key, call.val)
               /\ call.pin # Absent => "pinned" \in hurt'
      <4>1. CASE c = call.next /\ k = call.key
        <5>1. call.pin = Absent
          BY <2>5, <3>2
        <5>. QED
          BY <1>1, <2>1, <3>2, <4>1, <5>1, StoreOne DEF SafeInv, RefillOK, Agrees
      <4>2. CASE c # call.next \/ k # call.key
        BY <1>1, <2>1, <2>5, <3>2, <4>2, StoreOne DEF Agrees
      <4>. QED
        BY <4>1, <4>2
    <3>. QED
      BY <2>3, <3>1, <3>2
  <2>6. CleanOK'
    BY <1>1, <2>5 DEF SafeInv, CleanOK, TypeInv, TypeOK
  <2>7. StrictOK'
    BY <1>2, <2>2, <2>5 DEF StrictOK, Calm
  <2>. QED
    BY <2>4, <2>6, <2>7 DEF SafeInv
<1>. QED
  BY <1>3, <1>4

LEMMA SafeCrash ==
    ASSUME TypeInv, SafeInv, Crash
    PROVE  SafeInv'
<1>1. /\ call'.pc = "idle" /\ UNCHANGED <<policy, latest, clean>> /\ hurt \subseteq hurt'
      /\ "crash" \in hurt'
  BY IdleTyped DEF Crash, Return, Meets
<1>2. \A c \in CacheIds, k \in Keys : caches'[c][k] \in {Absent, caches[c][k]}
  BY DEF Crash
<1>3. CleanOK'
  BY <1>1, <1>2 DEF SafeInv, CleanOK, Agrees, TypeInv, TypeOK
<1>4. StagedOK' /\ RefillOK' /\ StrictOK'
  BY <1>1 DEF StagedOK, RefillOK, StrictOK, Calm
<1>. QED
  BY <1>3, <1>4 DEF SafeInv

LEMMA SafeStep == TypeInv /\ SafeInv /\ [Next]_vars => SafeInv'
<1> SUFFICES ASSUME TypeInv, SafeInv, [Next]_vars PROVE SafeInv'
  OBVIOUS
<1>1. ASSUME NEW k \in Keys, Get(k) PROVE SafeInv'
  <2>1. DOMAIN snapshots \subseteq Versions
    BY DEF TypeInv, TypeOK, Canonical!TypeOK
  <2>2. CASE Begin("lookup", "get", k, Absent, Absent)
    BY <2>2, SafeBegin
  <2>3. ASSUME NEW pin \in DOMAIN snapshots, Begin("lookup", "get", k, Absent, pin)
        PROVE  SafeInv'
    BY <2>1, <2>3, SafeBegin
  <2>. QED
    BY <1>1, <2>2, <2>3 DEF Get
<1>2. ASSUME NEW k \in Keys, Delete(k) PROVE SafeInv'
  BY <1>2, SafeBegin DEF Delete
<1>3. ASSUME NEW k \in Keys, NEW val \in Values, Put(k, val) PROVE SafeInv'
  BY <1>3, SafeBegin DEF Put
<1>4. CASE UNCHANGED vars
  BY <1>4 DEF vars, SafeInv, StagedOK, RefillOK, CleanOK, StrictOK, Calm, Agrees
<1>. QED
  BY <1>1, <1>2, <1>3, <1>4, SafeStage, SafeStageFails, SafeCompensate, SafeCommits,
     SafeReads, SafeRefill, SafeCrash DEF Next

LEMMA SafetyHolds == Spec => [](TypeInv /\ SafeInv)
  BY TypeInit, TypeStep, SafeInit, SafeStep, PTL DEF Spec

\* Under `.strict`, a failing cache never splits the caches from the canonical
\* store, whichever of any number of caches it is.
THEOREM StrictCachesAgree == Spec => []StrictAgreement
<1>1. ASSUME TypeInv, SafeInv PROVE StrictAgreement
  <2>1. call = Idle => call.pc = "idle"
    BY IdleTyped
  <2>. QED
    BY <1>1, <2>1 DEF SafeInv, StrictOK, Calm, Agrees, StrictAgreement, Agreement, AgreeOn
<1>. QED
  BY SafetyHolds, <1>1, PTL

\* One write that goes through everywhere heals its key in every cache.
THEOREM OneWholeWriteHeals == Spec => []WholeWritesConverge
<1>1. ASSUME TypeInv, SafeInv PROVE WholeWritesConverge
  BY <1>1 DEF SafeInv, CleanOK, Agrees, WholeWritesConverge, AgreeOn
<1>. QED
  BY SafetyHolds, <1>1, PTL
=============================================================================
