------------------------ MODULE IndexedDbStoreProofs ------------------------
(***************************************************************************)
(* The IndexedDB host store for any number of tabs, object stores, keys    *)
(* and writes: only an aborted transaction loses a write without a word,   *)
(* no store opens on an object store that is not there, and the versions   *)
(* of a record differ.                                                     *)
(***************************************************************************)
EXTENDS IndexedDbStore, FiniteSetTheorems, TLAPS

Fields == {"phase", "store", "want", "cache", "chain", "tx", "lost", "closing",
           "unsaved", "foreign"}

\* A sequence, whatever it is of.
Row(s) == s \in Seq({s[i] : i \in DOMAIN s})

\* A store object that was handed to its caller.
Stands(s) == s.phase \in {"open", "closed"}

\* The last write of k that waits carries what the cache shows; if none waits,
\* the one whose transaction runs does.
Carries(s, k) ==
    /\ \A i \in DOMAIN s.chain :
        s.chain[i].key = k /\ (\A j \in DOMAIN s.chain : j > i => s.chain[j].key # k)
            => s.chain[i].rec = s.cache[k]
    /\ (\A i \in DOMAIN s.chain : s.chain[i].key # k) =>
        \A i \in DOMAIN s.tx : s.tx[i].key = k => s.tx[i].rec = s.cache[k]

TabOK(s) ==
    /\ s = [f \in Fields |-> s[f]]
    /\ s.cache = [k \in Keys |-> s.cache[k]]
    /\ Row(s.chain) /\ (\A i \in DOMAIN s.chain : s.chain[i].key \in Keys)
    /\ s.tx = <<>> \/ (s.tx = <<s.tx[1]>> /\ s.tx[1].key \in Keys)
    /\ s.phase # "none" => s.store \in Stores
    /\ ~Stands(s) => s.chain = <<>> /\ s.tx = <<>>
    /\ s.tx # <<>> => s.lost = {}
    /\ \A k \in Keys : Carries(s, k)

Unfinished(s, k) ==
    \/ \E i \in DOMAIN s.tx : s.tx[i].key = k
    \/ \E i \in DOMAIN s.chain : s.chain[i].key = k

\* What a reload finds on the disk d is what the cache shows.
SavedOn(s, d) ==
    Stands(s) =>
        \A k \in Keys :
            ~Unfinished(s, k) /\ k \notin s.lost \cup s.unsaved \cup s.foreign
                => d[s.store][k] = s.cache[k]

DiskOK(d) == d = [s \in Stores |-> [k \in Keys |-> d[s][k]]]

WritesInv ==
    /\ tab = [t \in Tabs |-> tab[t]]
    /\ DiskOK(disk)
    /\ \A t \in Tabs : TabOK(tab[t]) /\ SavedOn(tab[t], disk)

\* The upgrade at the head of the queue is that of a tab which waits for it, or
\* was given up.
UpgradeOK ==
    upgrade # None =>
        /\ upgrade = [f \in {"tab", "want", "store", "tell", "blocked"} |-> upgrade[f]]
        /\ upgrade.tab \in Tabs /\ upgrade.want \in Nat \ {0}
        /\ ~upgrade.blocked => /\ tab[upgrade.tab].phase = "upgrading"
                               /\ tab[upgrade.tab].store = upgrade.store

\* A store that has read its object store, or is about to.
Reads(s) == s.phase \in {"loading", "open", "closed"}

Fits(s, stores) ==
    /\ s.want \in Nat
    /\ s.closing # -1 => Stands(s)
    /\ Reads(s) => s.store \in stores

SchemaInv ==
    /\ dbVersion \in Nat /\ (dbVersion = 0 => schema = {})
    /\ UpgradeOK
    /\ \A t \in Tabs : Fits(tab[t], schema)

-----------------------------------------------------------------------------
(* Sequences *)

LEMMA RowAppend ==
    ASSUME NEW s, Row(s), NEW e
    PROVE  /\ Row(Append(s, e)) /\ Len(s) \in Nat
           /\ DOMAIN s = 1..Len(s) /\ DOMAIN Append(s, e) = 1..(Len(s) + 1)
           /\ \A i \in 1..Len(s) : Append(s, e)[i] = s[i]
           /\ Append(s, e)[Len(s) + 1] = e
<1> DEFINE S == {s[i] : i \in DOMAIN s}
           T == S \cup {e}
           a == Append(s, e)
<1>1. s \in Seq(S) /\ s \in Seq(T) /\ e \in T
  BY DEF Row
<1> HIDE DEF S, T
<1>2. /\ Len(s) \in Nat /\ DOMAIN s = 1..Len(s)
      /\ a \in Seq(T) /\ Len(a) = Len(s) + 1 /\ DOMAIN a = 1..(Len(s) + 1)
      /\ \A i \in 1..Len(s) : a[i] = s[i]
      /\ a[Len(s) + 1] = e
  BY <1>1
<1> HIDE DEF a
<1>3. a \in Seq({a[i] : i \in DOMAIN a})
  BY <1>2
<1>. QED
  BY <1>2, <1>3 DEF Row, a

LEMMA RowTail ==
    ASSUME NEW s, Row(s), s # <<>>
    PROVE  /\ Row(Tail(s)) /\ Len(s) \in Nat \ {0}
           /\ DOMAIN s = 1..Len(s) /\ DOMAIN Tail(s) = 1..(Len(s) - 1)
           /\ \A i \in 1..(Len(s) - 1) : Tail(s)[i] = s[i + 1]
           /\ Head(s) = s[1]
<1> DEFINE S == {s[i] : i \in DOMAIN s}
           a == Tail(s)
<1>1. s \in Seq(S)
  BY DEF Row
<1> HIDE DEF S
<1>2. /\ Len(s) \in Nat \ {0} /\ DOMAIN s = 1..Len(s)
      /\ a \in Seq(S) /\ Len(a) = Len(s) - 1 /\ DOMAIN a = 1..(Len(s) - 1)
      /\ \A i \in 1..(Len(s) - 1) : a[i] = s[i + 1]
      /\ Head(s) = s[1]
  BY <1>1
<1> HIDE DEF a
<1>3. a \in Seq({a[i] : i \in DOMAIN a})
  BY <1>2
<1>. QED
  BY <1>2, <1>3 DEF Row, a

LEMMA RowShared ==
    ASSUME NEW s, Row(s), NEW k, NEW rec
    PROVE  LET a == Shared(s, k, rec)
           IN  /\ Row(a) /\ Len(a) = Len(s) /\ Len(s) \in Nat
               /\ DOMAIN s = 1..Len(s) /\ DOMAIN a = 1..Len(s)
               /\ \A i \in 1..Len(s) : /\ a[i].key = s[i].key
                                       /\ s[i].key # k => a[i] = s[i]
<1> DEFINE a == Shared(s, k, rec)
           S == {s[i] : i \in DOMAIN s}
           T == S \cup {[key |-> k, rec |-> rec]}
<1>1. /\ s \in Seq(S) /\ Len(s) \in Nat /\ DOMAIN s = 1..Len(s)
      /\ \A i \in 1..Len(s) : s[i] \in S
  BY DEF Row
<1>2. /\ a = [i \in 1..Len(s) |-> a[i]]
      /\ \A i \in 1..Len(s) :
            \/ a[i] = s[i]
            \/ a[i] = [key |-> k, rec |-> rec] /\ s[i].key = k
  BY <1>1 DEF Shared
<1>3. \A i \in 1..Len(s) : a[i].key = s[i].key /\ (s[i].key # k => a[i] = s[i])
  BY <1>2
<1> HIDE DEF a, S
<1>4. a \in [1..Len(s) -> T]
  BY <1>1, <1>2
<1>5. a \in Seq(T)
  <2> HIDE DEF T
  <2>. QED
    BY <1>1, <1>4
<1> HIDE DEF T
<1>6. Len(a) = Len(s) /\ DOMAIN a = 1..Len(s)
  BY <1>1, <1>2, <1>5
<1>7. a \in Seq({a[i] : i \in DOMAIN a})
  BY <1>5, <1>6
<1>. QED
  BY <1>1, <1>3, <1>6, <1>7 DEF Row, a

-----------------------------------------------------------------------------
(* One store object *)

LEMMA NewTabOK == TabOK(NewTab) /\ ~Stands(NewTab)
<1>1. NewTab = [f \in Fields |-> NewTab[f]]
  BY DEF NewTab, Fields
<1>2. /\ NewTab.phase = "none" /\ NewTab.chain = <<>> /\ NewTab.tx = <<>>
      /\ NewTab.lost = {}
      /\ NewTab.cache = [k \in Keys |-> NewTab.cache[k]]
  BY DEF NewTab, NoRecords
<1>3. Row(<<>>) /\ DOMAIN <<>> = {}
  BY DEF Row
<1>. QED
  BY <1>1, <1>2, <1>3 DEF TabOK, Stands, Carries

\* Nothing but the phase changes, or what is neither cached nor written.
LEMMA SameWrites ==
    ASSUME NEW s, TabOK(s), NEW x, x = [f \in Fields |-> x[f]],
           x.cache = s.cache, x.chain = s.chain, x.tx = s.tx, x.lost = s.lost,
           x.phase # "none" => x.store \in Stores,
           Stands(s) => Stands(x)
    PROVE  TabOK(x)
<1>1. ASSUME NEW k \in Keys PROVE Carries(x, k)
  <2>1. Carries(s, k)
    BY DEF TabOK
  <2>. QED
    BY <2>1 DEF Carries
<1>2. x.cache = [k \in Keys |-> x.cache[k]]
  BY DEF TabOK
<1>. QED
  BY <1>1, <1>2 DEF TabOK

LEMMA SameSaved ==
    ASSUME NEW s, NEW x, NEW d, SavedOn(s, d), Stands(s),
           x.cache = s.cache, x.chain = s.chain, x.tx = s.tx, x.store = s.store, x.lost = s.lost,
           s.unsaved \cup s.foreign \subseteq x.unsaved \cup x.foreign
    PROVE  SavedOn(x, d)
BY DEF SavedOn, Unfinished

\* loadCache
LEMMA LoadedOK ==
    ASSUME NEW s, TabOK(s), NEW d, DiskOK(d), s.phase = "loading", NEW x,
           x = [s EXCEPT !.phase = "open", !.cache = d[s.store]]
    PROVE  TabOK(x) /\ SavedOn(x, d)
<1>1. /\ x = [f \in Fields |-> x[f]] /\ x.phase = "open" /\ x.cache = d[s.store]
      /\ x.chain = s.chain /\ x.tx = s.tx /\ x.store = s.store /\ x.lost = s.lost
  BY DEF TabOK, Fields
<1>2. s.chain = <<>> /\ s.tx = <<>> /\ s.store \in Stores
  BY DEF TabOK, Stands
<1>3. d[s.store] = [k \in Keys |-> d[s.store][k]]
  BY <1>2 DEF DiskOK
<1>4. Row(<<>>) /\ DOMAIN <<>> = {}
  BY DEF Row
<1>. QED
  BY <1>1, <1>2, <1>3, <1>4 DEF TabOK, SavedOn, Stands, Carries

\* A put or a delete: the cache, and a write that is enqueued behind the others,
\* of which those of the same key may have come to carry something else.
LEMMA EnqueuedOK ==
    ASSUME NEW s, TabOK(s), NEW d, SavedOn(s, d), Stands(s), NEW k \in Keys, NEW rec, NEW sh,
           Row(sh), Len(sh) = Len(s.chain),
           \A i \in 1..Len(s.chain) :
                sh[i].key = s.chain[i].key /\ (s.chain[i].key # k => sh[i] = s.chain[i]),
           NEW x,
           x = [s EXCEPT !.cache = [s.cache EXCEPT ![k] = rec],
                         !.chain = Append(sh, [key |-> k, rec |-> rec])]
    PROVE  TabOK(x) /\ SavedOn(x, d)
<1> DEFINE n == Len(s.chain)
           e == [key |-> k, rec |-> rec]
<1>1. /\ x = [f \in Fields |-> x[f]] /\ x.phase = s.phase
      /\ x.cache = [s.cache EXCEPT ![k] = rec] /\ x.chain = Append(sh, e)
      /\ x.tx = s.tx /\ x.store = s.store
      /\ x.lost = s.lost /\ x.unsaved = s.unsaved /\ x.foreign = s.foreign
  BY DEF TabOK, Fields
<1>2. /\ Row(s.chain) /\ \A i \in DOMAIN s.chain : s.chain[i].key \in Keys
      /\ s.cache = [q \in Keys |-> s.cache[q]]
      /\ s.tx # <<>> => s.lost = {}
      /\ \A q \in Keys : Carries(s, q)
  BY DEF TabOK
<1>3. /\ x.cache = [q \in Keys |-> x.cache[q]] /\ x.cache[k] = rec
      /\ \A q \in Keys \ {k} : x.cache[q] = s.cache[q]
  BY <1>1, <1>2
<1>4. n \in Nat /\ DOMAIN s.chain = 1..n
  BY <1>2 DEF Row
<1>e. e.key = k /\ e.rec = rec
  OBVIOUS
<1> HIDE DEF e
<1>5. /\ Row(x.chain) /\ DOMAIN x.chain = 1..(n + 1)
      /\ \A i \in 1..n : x.chain[i] = sh[i]
      /\ x.chain[n + 1] = e
  BY <1>1, <1>4, RowAppend
<1>6. /\ \A i \in 1..n : /\ x.chain[i].key = s.chain[i].key
                         /\ s.chain[i].key # k => x.chain[i] = s.chain[i]
      /\ x.chain[n + 1].key = k /\ x.chain[n + 1].rec = rec
  BY <1>4, <1>5, <1>e
<1>7. ASSUME NEW q \in Keys PROVE Carries(x, q)
  <2>1. CASE q = k
    <3>1. ASSUME NEW i \in DOMAIN x.chain, x.chain[i].key = k,
                 \A j \in DOMAIN x.chain : j > i => x.chain[j].key # k
          PROVE  x.chain[i].rec = rec
      <4>1. i = n + 1
        BY <1>4, <1>5, <1>6, <3>1
      <4>. QED
        BY <1>6, <4>1
    <3>2. n + 1 \in DOMAIN x.chain
      BY <1>4, <1>5
    <3>. QED
      BY <1>3, <1>6, <2>1, <3>1, <3>2 DEF Carries
  <2>2. CASE q # k
    <3>1. Carries(s, q) /\ x.cache[q] = s.cache[q]
      BY <1>2, <1>3, <2>2
    <3>2. ASSUME NEW i \in DOMAIN x.chain, x.chain[i].key = q,
                 \A j \in DOMAIN x.chain : j > i => x.chain[j].key # q
          PROVE  x.chain[i].rec = x.cache[q]
      <4>1. i \in 1..n
        BY <1>4, <1>5, <1>6, <2>2, <3>2
      <4>2. s.chain[i].key = q /\ x.chain[i] = s.chain[i]
        BY <1>6, <2>2, <3>2, <4>1
      <4>3. \A j \in 1..n : j > i => s.chain[j].key # q
        <5>1. \A j \in 1..n : j \in DOMAIN x.chain
          BY <1>4, <1>5
        <5>. QED
          BY <1>6, <3>2, <5>1
      <4>. QED
        BY <1>4, <3>1, <4>1, <4>2, <4>3 DEF Carries
    <3>3. ASSUME \A i \in DOMAIN x.chain : x.chain[i].key # q
          PROVE  \A i \in DOMAIN s.chain : s.chain[i].key # q
      BY <1>4, <1>5, <1>6, <3>3
    <3>. QED
      BY <1>1, <3>1, <3>2, <3>3 DEF Carries
  <2>. QED
    BY <2>1, <2>2
<1>8. \A i \in DOMAIN x.chain : x.chain[i].key \in Keys
  <2>1. \A i \in 1..(n + 1) : i \in 1..n \/ i = n + 1
    BY <1>4
  <2>. QED
    BY <1>2, <1>4, <1>5, <1>6, <2>1
<1>9. TabOK(x)
  BY <1>1, <1>2, <1>3, <1>5, <1>7, <1>8 DEF TabOK, Stands
<1>10. ASSUME NEW q \in Keys, ~Unfinished(x, q), q \notin x.lost \cup x.unsaved \cup x.foreign
       PROVE  d[x.store][q] = x.cache[q]
  <2>1. n + 1 \in DOMAIN x.chain /\ \A i \in 1..n : i \in DOMAIN x.chain
    BY <1>4, <1>5
  <2>2. q # k
    BY <1>6, <1>10, <2>1 DEF Unfinished
  <2>3. ~Unfinished(s, q)
    BY <1>1, <1>4, <1>6, <1>10, <2>1 DEF Unfinished
  <2>. QED
    BY <1>1, <1>3, <1>10, <2>2, <2>3 DEF SavedOn
<1>. QED
  BY <1>9, <1>10 DEF SavedOn

LEMMA PutOK ==
    ASSUME NEW s, TabOK(s), NEW d, SavedOn(s, d), Stands(s), NEW k \in Keys, NEW rec, NEW x,
           x = [s EXCEPT !.cache = [s.cache EXCEPT ![k] = rec],
                         !.chain = Append(Shared(s.chain, k, rec), [key |-> k, rec |-> rec])]
    PROVE  TabOK(x) /\ SavedOn(x, d)
<1> DEFINE sh == Shared(s.chain, k, rec)
<1>1. Row(s.chain)
  BY DEF TabOK
<1>2. /\ Row(sh) /\ Len(sh) = Len(s.chain)
      /\ \A i \in 1..Len(s.chain) :
            sh[i].key = s.chain[i].key /\ (s.chain[i].key # k => sh[i] = s.chain[i])
  BY <1>1, RowShared
<1> HIDE DEF sh
<1>3. x = [s EXCEPT !.cache = [s.cache EXCEPT ![k] = rec],
                    !.chain = Append(sh, [key |-> k, rec |-> rec])]
  BY DEF sh
<1>. QED
  BY <1>2, <1>3, EnqueuedOK

LEMMA DeleteOK ==
    ASSUME NEW s, TabOK(s), NEW d, SavedOn(s, d), Stands(s), NEW k \in Keys, NEW rec, NEW x,
           x = [s EXCEPT !.cache = [s.cache EXCEPT ![k] = rec],
                         !.chain = Append(s.chain, [key |-> k, rec |-> rec])]
    PROVE  TabOK(x) /\ SavedOn(x, d)
<1>1. Row(s.chain)
  BY DEF TabOK
<1>. QED
  BY <1>1, EnqueuedOK

\* The head of the chain leaves it: x has it in a transaction, or reported it.
LEMMA StartedOK ==
    ASSUME NEW s, TabOK(s), NEW d, SavedOn(s, d), Stands(s), s.chain # <<>>, s.tx = <<>>,
           s.lost = {}, NEW x, x = [f \in Fields |-> x[f]], Stands(x), x.store = s.store,
           x.cache = s.cache, x.chain = Tail(s.chain), x.lost = {}, x.foreign = s.foreign,
           \/ x.tx = <<Head(s.chain)>> /\ x.unsaved = s.unsaved
           \/ x.tx = <<>> /\ x.unsaved = s.unsaved \cup {Head(s.chain).key}
    PROVE  TabOK(x) /\ SavedOn(x, d)
<1> DEFINE n == Len(s.chain)
           h == Head(s.chain)
<1>1. /\ Row(s.chain) /\ \A i \in DOMAIN s.chain : s.chain[i].key \in Keys
      /\ s.cache = [q \in Keys |-> s.cache[q]]
      /\ s.store \in Stores
      /\ \A q \in Keys : Carries(s, q)
  BY DEF TabOK, Stands
<1>2. Row(x.chain) /\ h = s.chain[1]
  BY <1>1, RowTail
<1>d. n \in Nat \ {0} /\ DOMAIN s.chain = 1..n /\ DOMAIN x.chain = 1..(n - 1)
  BY <1>1, RowTail
<1>s. \A i \in 1..(n - 1) : x.chain[i] = s.chain[i + 1]
  <2>1. \A i \in 1..(n - 1) : Tail(s.chain)[i] = s.chain[i + 1]
    BY <1>1, RowTail, Zenon
  <2>. QED
    BY <2>1, Zenon
<1>k. h.key \in Keys
  <2>1. 1 \in DOMAIN s.chain
    BY <1>d
  <2>. QED
    BY <1>1, <1>2, <2>1
<1>a. /\ \A i \in 1..(n - 1) : i \in DOMAIN x.chain /\ i + 1 \in DOMAIN s.chain /\ i \in Nat
      /\ \A j \in DOMAIN s.chain :
            j # 1 => j - 1 \in 1..(n - 1) /\ (j - 1) + 1 = j /\ j \in Nat
  BY <1>d
<1>p. \A j \in DOMAIN s.chain : j # 1 => x.chain[j - 1] = s.chain[j] /\ j - 1 \in DOMAIN x.chain
  <2>1. ASSUME NEW j \in DOMAIN s.chain, j # 1
        PROVE  x.chain[j - 1] = s.chain[j] /\ j - 1 \in DOMAIN x.chain
    <3>1. j - 1 \in 1..(n - 1) /\ (j - 1) + 1 = j
      BY <1>a, <2>1
    <3>2. x.chain[j - 1] = s.chain[(j - 1) + 1]
      BY <1>s, <3>1
    <3>. QED
      BY <1>a, <3>1, <3>2
  <2>. QED
    BY <2>1
<1> HIDE DEF h
<1>3. /\ x.tx = <<>> \/ x.tx = <<h>>
      /\ x.tx # <<>> => DOMAIN x.tx = {1} /\ x.tx[1] = h
      /\ x.tx = <<>> => DOMAIN x.tx = {}
  <2>1. x.tx = <<>> \/ x.tx = <<h>>
    BY DEF h
  <2>2. <<h>> # <<>> /\ DOMAIN <<h>> = {1} /\ <<h>>[1] = h /\ DOMAIN <<>> = {}
    OBVIOUS
  <2>. QED
    BY <2>1, <2>2
<1>4. ASSUME NEW q \in Keys PROVE Carries(x, q)
  <2>1. Carries(s, q)
    BY <1>1
  <2>2. ASSUME NEW i \in DOMAIN x.chain, x.chain[i].key = q,
               \A j \in DOMAIN x.chain : j > i => x.chain[j].key # q
        PROVE  x.chain[i].rec = x.cache[q]
    <3>1. i + 1 \in DOMAIN s.chain /\ s.chain[i + 1] = x.chain[i] /\ i \in Nat
      BY <1>d, <1>a, <1>s, <2>2
    <3>2. ASSUME NEW j \in DOMAIN s.chain, j > i + 1 PROVE s.chain[j].key # q
      <4>1. j # 1 /\ j - 1 > i
        BY <1>d, <3>1, <3>2
      <4>2. x.chain[j - 1] = s.chain[j] /\ j - 1 \in DOMAIN x.chain
        BY <1>p, <4>1
      <4>. QED
        BY <2>2, <4>1, <4>2
    <3>. QED
      BY <2>1, <2>2, <3>1, <3>2 DEF Carries
  <2>3. ASSUME \A i \in DOMAIN x.chain : x.chain[i].key # q, x.tx # <<>>, h.key = q
        PROVE  h.rec = x.cache[q]
    <3>1. ASSUME NEW j \in DOMAIN s.chain, j > 1 PROVE s.chain[j].key # q
      <4>1. j # 1
        BY <1>d, <3>1
      <4>. QED
        BY <1>p, <2>3, <4>1
    <3>2. 1 \in DOMAIN s.chain
      BY <1>d
    <3>. QED
      BY <1>2, <2>1, <2>3, <3>1, <3>2 DEF Carries
  <2>. QED
    BY <1>3, <2>2, <2>3 DEF Carries
<1>5. ASSUME NEW i \in DOMAIN x.chain PROVE x.chain[i].key \in Keys
  <2>1. i + 1 \in DOMAIN s.chain /\ x.chain[i] = s.chain[i + 1]
    BY <1>d, <1>a, <1>s
  <2>. QED
    BY <1>1, <2>1
<1>6. TabOK(x)
  BY <1>1, <1>2, <1>3, <1>k, <1>4, <1>5 DEF TabOK
<1>7. ASSUME NEW q \in Keys, ~Unfinished(x, q), q \notin x.lost \cup x.unsaved \cup x.foreign
      PROVE  d[x.store][q] = x.cache[q]
  <2>1. q # h.key
    <3>1. CASE x.tx = <<>>
      <4>1. x.unsaved = s.unsaved \cup {h.key} \/ x.tx = <<h>>
        BY DEF h
      <4>2. <<h>> # <<>>
        OBVIOUS
      <4>. QED
        BY <1>7, <3>1, <4>1, <4>2
    <3>2. CASE x.tx # <<>>
      BY <1>3, <1>7, <3>2 DEF Unfinished
    <3>. QED
      BY <3>1, <3>2
  <2>2. ASSUME NEW i \in DOMAIN s.chain PROVE s.chain[i].key # q
    <3>1. CASE i = 1
      BY <1>2, <2>1, <3>1
    <3>2. CASE i # 1
      BY <1>p, <1>7, <3>2 DEF Unfinished
    <3>. QED
      BY <3>1, <3>2
  <2>3. ~Unfinished(s, q) /\ q \notin s.lost \cup s.unsaved \cup s.foreign
    BY <1>7, <2>2 DEF Unfinished
  <2>. QED
    BY <2>3 DEF SavedOn
<1>. QED
  BY <1>6, <1>7 DEF SavedOn

\* A transaction ended: its write is on the disk e, was reported, or is lost.
LEMMA EndedOK ==
    ASSUME NEW s, TabOK(s), NEW d, NEW e, SavedOn(s, d), Stands(s), s.tx # <<>>,
           NEW x, x = [f \in Fields |-> x[f]], x.phase = s.phase, x.store = s.store,
           x.cache = s.cache, x.chain = s.chain, x.tx = <<>>,
           \A q \in Keys \ {Head(s.tx).key} :
                /\ e[s.store][q] = d[s.store][q]
                /\ q \in s.unsaved \cup s.foreign => q \in x.unsaved \cup x.foreign,
           \/ Head(s.tx).key \in x.lost \cup x.unsaved
           \/ e[s.store][Head(s.tx).key] = Head(s.tx).rec
    PROVE  TabOK(x) /\ SavedOn(x, e)
<1>0. s.lost = {}
  BY DEF TabOK
<1>1. /\ s.tx = <<s.tx[1]>> /\ Head(s.tx) = s.tx[1] /\ DOMAIN s.tx = {1}
      /\ s.cache = [q \in Keys |-> s.cache[q]]
      /\ \A q \in Keys : Carries(s, q)
  BY DEF TabOK
<1>2. DOMAIN <<>> = {}
  OBVIOUS
<1>3. TabOK(x)
  <2>1. ASSUME NEW q \in Keys PROVE Carries(x, q)
    <3>1. Carries(s, q)
      BY <1>1
    <3>. QED
      BY <1>2, <3>1 DEF Carries
  <2>. QED
    BY <1>1, <1>2, <2>1 DEF TabOK, Stands
<1>4. ASSUME NEW q \in Keys, ~Unfinished(x, q), q \notin x.lost \cup x.unsaved \cup x.foreign
      PROVE  e[x.store][q] = x.cache[q]
  <2>1. \A i \in DOMAIN s.chain : s.chain[i].key # q
    BY <1>4 DEF Unfinished
  <2>2. CASE q = Head(s.tx).key
    BY <1>1, <1>4, <2>1, <2>2 DEF Carries
  <2>3. CASE q # Head(s.tx).key
    BY <1>0, <1>1, <1>4, <2>1, <2>3 DEF SavedOn, Unfinished
  <2>. QED
    BY <2>2, <2>3
<1>. QED
  BY <1>3, <1>4 DEF SavedOn

-----------------------------------------------------------------------------
(* Steps *)

\* One tab changes, and nothing on the disk.
LEMMA TabStep ==
    ASSUME WritesInv, NEW t \in Tabs, disk' = disk,
           tab' = [tab EXCEPT ![t] = tab'[t]],
           TabOK(tab'[t]), SavedOn(tab'[t], disk)
    PROVE  WritesInv'
<1>1. tab' = [u \in Tabs |-> tab'[u]] /\ \A u \in Tabs \ {t} : tab'[u] = tab[u]
  BY DEF WritesInv
<1>. QED
  BY <1>1 DEF WritesInv

\* The tab of t becomes x.
Becomes(t, x) == tab' = [tab EXCEPT ![t] = x]

LEMMA BecomesStep ==
    ASSUME WritesInv, NEW t \in Tabs, disk' = disk, NEW x, Becomes(t, x),
           TabOK(x), SavedOn(x, disk)
    PROVE  WritesInv'
<1>1. tab'[t] = x /\ tab' = [tab EXCEPT ![t] = tab'[t]]
  BY DEF WritesInv, Becomes
<1>. QED
  BY <1>1, TabStep

\* A tab that has not come to stand open yet, or is given up.
LEMMA NotYetStep ==
    ASSUME WritesInv, NEW t \in Tabs, disk' = disk, NEW x, Becomes(t, x),
           TabOK(x), ~Stands(x)
    PROVE  WritesInv'
BY BecomesStep DEF SavedOn

LEMMA FailedStep ==
    ASSUME WritesInv, NEW t \in Tabs, disk' = disk, Failed(t)
    PROVE  WritesInv'
BY NewTabOK, NotYetStep DEF Failed, Becomes

LEMMA OpenStep ==
    ASSUME WritesInv, NEW t \in Tabs, NEW s \in Stores, Open(t, s)
    PROVE  WritesInv'
<1> DEFINE x == [tab[t] EXCEPT !.phase = "probing", !.store = s]
<1>1. TabOK(tab[t]) /\ ~Stands(tab[t]) /\ disk' = disk /\ Becomes(t, x)
  BY DEF WritesInv, Open, database, Stands, Becomes
<1>2. /\ x = [f \in Fields |-> x[f]] /\ x.phase = "probing" /\ x.store = s
      /\ x.cache = tab[t].cache /\ x.chain = tab[t].chain /\ x.tx = tab[t].tx
      /\ x.lost = tab[t].lost
  BY <1>1 DEF TabOK, Fields
<1> HIDE DEF x
<1>3. TabOK(x) /\ ~Stands(x)
  BY <1>1, <1>2, SameWrites DEF Stands
<1>. QED
  BY <1>1, <1>3, NotYetStep

\* From one phase of opening to the next.
LEMMA PhaseStep ==
    ASSUME WritesInv, NEW t \in Tabs, disk' = disk,
           tab[t].phase \in {"probing", "upgrading"},
           NEW want,
           \/ Becomes(t, [tab[t] EXCEPT !.phase = "loading"])
           \/ Becomes(t, [tab[t] EXCEPT !.phase = "upgrading", !.want = want])
    PROVE  WritesInv'
<1>1. TabOK(tab[t]) /\ ~Stands(tab[t]) /\ tab[t].store \in Stores
  BY DEF WritesInv, Stands, TabOK
<1>2. ASSUME NEW x, \/ x = [tab[t] EXCEPT !.phase = "loading"]
                    \/ x = [tab[t] EXCEPT !.phase = "upgrading", !.want = want]
      PROVE  TabOK(x) /\ ~Stands(x)
  <2>1. /\ x = [f \in Fields |-> x[f]] /\ x.phase \in {"loading", "upgrading"}
        /\ x.store = tab[t].store
        /\ x.cache = tab[t].cache /\ x.chain = tab[t].chain /\ x.tx = tab[t].tx
        /\ x.lost = tab[t].lost
    BY <1>1, <1>2 DEF TabOK, Fields
  <2>. QED
    BY <1>1, <2>1, SameWrites DEF Stands
<1>. QED
  BY <1>2, NotYetStep

LEMMA ProbeStep ==
    ASSUME WritesInv, NEW t \in Tabs, Probe(t)
    PROVE  WritesInv'
<1>1. disk' = disk /\ tab[t].phase = "probing"
  BY DEF Probe
<1>2. \/ Becomes(t, [tab[t] EXCEPT !.phase = "loading"])
      \/ Becomes(t, [tab[t] EXCEPT !.phase = "upgrading", !.want = dbVersion + 1])
  <2>1. tab = [u \in Tabs |-> tab[u]]
    BY DEF WritesInv
  <2>2. \/ tab' = [tab EXCEPT ![t].phase = "loading"]
        \/ tab' = [tab EXCEPT ![t].phase = "upgrading", ![t].want = dbVersion' + 1]
        \/ tab' = [tab EXCEPT ![t].phase = "upgrading", ![t].want = dbVersion + 1]
    BY DEF Probe
  <2>. QED
    BY <2>1, <2>2 DEF Probe, Becomes
<1>. QED
  BY <1>1, <1>2, PhaseStep

LEMMA QueueStep ==
    ASSUME WritesInv, NEW t \in Tabs, 
           OpenWithoutUpgrade(t) \/ OpenTooOld(t) \/ OpenFails(t)
    PROVE  WritesInv'
<1>1. disk' = disk /\ tab[t].phase \in {"probing", "upgrading"}
  BY DEF OpenWithoutUpgrade, OpenTooOld, OpenFails, database
<1>2. Failed(t) \/ Becomes(t, [tab[t] EXCEPT !.phase = "loading"])
  <2>1. tab = [u \in Tabs |-> tab[u]]
    BY DEF WritesInv
  <2>2. Failed(t) \/ tab' = [tab EXCEPT ![t].phase = "loading"]
    BY DEF OpenWithoutUpgrade, OpenTooOld, OpenFails
  <2>. QED
    BY <2>1, <2>2 DEF Becomes
<1>. QED
  BY <1>1, <1>2, FailedStep, PhaseStep

LEMMA BlockedStep ==
    ASSUME WritesInv, SchemaInv, Blocked
    PROVE  WritesInv'
BY FailedStep DEF Blocked, SchemaInv, UpgradeOK

LEMMA UpgradeFailsStep ==
    ASSUME WritesInv, SchemaInv, UpgradeFails
    PROVE  WritesInv'
<1>1. disk' = disk /\ upgrade.tab \in Tabs
  BY DEF UpgradeFails, SchemaInv, UpgradeOK
<1>2. CASE upgrade.blocked
  <2>1. tab' = tab
    BY <1>2 DEF UpgradeFails
  <2>. QED
    BY <1>1, <2>1 DEF WritesInv
<1>3. CASE ~upgrade.blocked
  BY <1>1, <1>3, FailedStep DEF UpgradeFails
<1>. QED
  BY <1>2, <1>3

LEMMA UpgradeStep ==
    ASSUME WritesInv, SchemaInv, Upgrade
    PROVE  WritesInv'
<1>1. disk' = disk /\ upgrade.tab \in Tabs /\ tab = [u \in Tabs |-> tab[u]]
  BY DEF Upgrade, SchemaInv, UpgradeOK, WritesInv
<1>2. CASE upgrade.blocked
  <2>1. tab' = tab
    BY <1>2 DEF Upgrade
  <2>. QED
    BY <1>1, <2>1 DEF WritesInv
<1>3. CASE ~upgrade.blocked
  <2>1. Becomes(upgrade.tab, [tab[upgrade.tab] EXCEPT !.phase = "loading"])
    BY <1>1, <1>3 DEF Upgrade, Becomes
  <2>2. tab[upgrade.tab].phase = "upgrading"
    BY <1>3 DEF Upgrade, SchemaInv, UpgradeOK
  <2>. QED
    BY <1>1, <2>1, <2>2, PhaseStep
<1>. QED
  BY <1>2, <1>3

\* Only phases and what counts for close() change.
LEMMA CloseStep ==
    ASSUME WritesInv, NEW t \in Tabs, Stands(tab[t]), disk' = disk, NEW n,
           \/ Becomes(t, [tab[t] EXCEPT !.phase = "closed"])
           \/ Becomes(t, [tab[t] EXCEPT !.closing = n])
           \/ Becomes(t, [tab[t] EXCEPT !.phase = "closed", !.closing = n])
    PROVE  WritesInv'
<1>1. TabOK(tab[t]) /\ SavedOn(tab[t], disk) /\ tab[t].store \in Stores
  BY DEF WritesInv, Stands, TabOK
<1>2. ASSUME NEW x, \/ x = [tab[t] EXCEPT !.phase = "closed"]
                    \/ x = [tab[t] EXCEPT !.closing = n]
                    \/ x = [tab[t] EXCEPT !.phase = "closed", !.closing = n]
      PROVE  TabOK(x) /\ SavedOn(x, disk)
  <2>1. /\ x = [f \in Fields |-> x[f]] /\ x.phase \in {"closed", tab[t].phase}
        /\ x.store = tab[t].store
        /\ x.cache = tab[t].cache /\ x.chain = tab[t].chain /\ x.tx = tab[t].tx
        /\ x.lost = tab[t].lost
        /\ x.unsaved = tab[t].unsaved /\ x.foreign = tab[t].foreign
    BY <1>1, <1>2 DEF TabOK, Fields
  <2>. QED
    BY <1>1, <2>1, SameWrites, SameSaved DEF Stands
<1>. QED
  BY <1>2, BecomesStep

LEMMA ClosesStep ==
    ASSUME WritesInv, SchemaInv, NEW t \in Tabs,
           VersionChange(t) \/ Close(t) \/ CloseReturns(t)
    PROVE  WritesInv'
<1>1. tab = [u \in Tabs |-> tab[u]] /\ disk' = disk
  BY DEF WritesInv, VersionChange, Close, CloseReturns, database
<1>2. CASE tab' = tab
  BY <1>1, <1>2 DEF WritesInv
<1>3. CASE VersionChange(t) /\ tab[t].phase = "open"
  <2>1. Becomes(t, [tab[t] EXCEPT !.phase = "closed"]) /\ Stands(tab[t])
    BY <1>1, <1>3 DEF VersionChange, Becomes, Stands
  <2>. QED
    BY <1>1, <2>1, CloseStep
<1>4. CASE Close(t)
  <2>1. Stands(tab[t])
    BY <1>4 DEF Close, Usable, Stands
  <2>2. Becomes(t, [tab[t] EXCEPT !.closing =
            Len(tab[t].chain) + Len(tab[t].tx) + Cardinality(tab[t].lost)])
    BY <1>1, <1>4 DEF Close, Becomes
  <2>. QED
    BY <1>1, <2>1, <2>2, CloseStep
<1>5. CASE CloseReturns(t)
  <2>1. Becomes(t, [tab[t] EXCEPT !.phase = "closed", !.closing = -1])
    BY <1>1, <1>5 DEF CloseReturns, Becomes
  <2>2. Stands(tab[t])
    BY <1>5 DEF CloseReturns, SchemaInv, Fits
  <2>. QED
    BY <1>1, <2>1, <2>2, CloseStep
<1>6. VersionChange(t) => tab' = tab \/ tab[t].phase = "open"
  BY DEF VersionChange
<1>. QED
  BY <1>2, <1>3, <1>4, <1>5, <1>6

LEMMA LoadStep ==
    ASSUME WritesInv, NEW t \in Tabs, Load(t)
    PROVE  WritesInv'
<1>1. TabOK(tab[t]) /\ DiskOK(disk) /\ disk' = disk /\ tab[t].phase = "loading"
  BY DEF WritesInv, Load, database
<1>2. Becomes(t, [tab[t] EXCEPT !.phase = "open", !.cache = disk[tab[t].store]])
  <2>1. tab = [u \in Tabs |-> tab[u]]
    BY DEF WritesInv
  <2>. QED
    BY <2>1 DEF Load, Becomes
<1>3. ASSUME NEW x, x = [tab[t] EXCEPT !.phase = "open", !.cache = disk[tab[t].store]]
      PROVE  TabOK(x) /\ SavedOn(x, disk)
  BY <1>1, <1>3, LoadedOK
<1>. QED
  BY <1>1, <1>2, <1>3, BecomesStep

LEMMA PutStep ==
    ASSUME WritesInv, NEW t \in Tabs, NEW k \in Keys, NEW val \in Values, Put(t, k, val)
    PROVE  WritesInv'
<1> DEFINE s == tab[t]
           rec == Append(s.cache[k], [version |-> NextVersion(s.cache[k]), val |-> val])
<1>1. TabOK(s) /\ SavedOn(s, disk) /\ disk' = disk /\ Stands(s)
  BY DEF WritesInv, Put, database, Write, Usable, Stands
<1>2. tab' = [tab EXCEPT ![t].cache[k] = rec,
                         ![t].chain = Append(Shared(@, k, rec), [key |-> k, rec |-> rec])]
  BY DEF Put
<1> HIDE DEF rec
<1>3. Becomes(t, [s EXCEPT !.cache = [s.cache EXCEPT ![k] = rec],
                           !.chain = Append(Shared(s.chain, k, rec),
                                            [key |-> k, rec |-> rec])])
  <2>1. tab = [u \in Tabs |-> tab[u]] /\ s = [f \in Fields |-> s[f]]
    BY <1>1 DEF WritesInv, TabOK
  <2>. QED
    BY <1>2, <2>1 DEF Becomes, Fields
<1>4. ASSUME NEW x, x = [s EXCEPT !.cache = [s.cache EXCEPT ![k] = rec],
                                  !.chain = Append(Shared(s.chain, k, rec),
                                                   [key |-> k, rec |-> rec])]
      PROVE  TabOK(x) /\ SavedOn(x, disk)
  <2> HIDE DEF s
  <2>. QED
    BY <1>1, <1>4, PutOK
<1>. QED
  BY <1>1, <1>3, <1>4, BecomesStep

LEMMA DeleteStep ==
    ASSUME WritesInv, NEW t \in Tabs, NEW k \in Keys, Delete(t, k)
    PROVE  WritesInv'
<1> DEFINE s == tab[t]
<1>1. TabOK(s) /\ SavedOn(s, disk) /\ disk' = disk /\ Stands(s)
  BY DEF WritesInv, Delete, database, Write, Usable, Stands
<1>2. tab' = [tab EXCEPT ![t].cache[k] = <<>>,
                         ![t].chain = Append(@, [key |-> k, rec |-> <<>>])]
  BY DEF Delete
<1>3. Becomes(t, [s EXCEPT !.cache = [s.cache EXCEPT ![k] = <<>>],
                           !.chain = Append(s.chain, [key |-> k, rec |-> <<>>])])
  <2>1. tab = [u \in Tabs |-> tab[u]] /\ s = [f \in Fields |-> s[f]]
    BY <1>1 DEF WritesInv, TabOK
  <2>. QED
    BY <1>2, <2>1 DEF Becomes, Fields
<1>4. ASSUME NEW x, x = [s EXCEPT !.cache = [s.cache EXCEPT ![k] = <<>>],
                                  !.chain = Append(s.chain, [key |-> k, rec |-> <<>>])]
      PROVE  TabOK(x) /\ SavedOn(x, disk)
  <2> HIDE DEF s
  <2>. QED
    BY <1>1, <1>4, DeleteOK
<1>. QED
  BY <1>1, <1>3, <1>4, BecomesStep

LEMMA StartStep ==
    ASSUME WritesInv, NEW t \in Tabs, StartWrite(t) \/ StartThrows(t)
    PROVE  WritesInv'
<1> DEFINE s == tab[t]
           y == [s EXCEPT !.tx = <<Head(s.chain)>>, !.chain = Tail(s.chain)]
           z == Report(Settled([s EXCEPT !.chain = Tail(s.chain)]), Head(s.chain).key)
<1>1. /\ TabOK(s) /\ SavedOn(s, disk) /\ disk' = disk /\ Stands(s)
      /\ s.chain # <<>> /\ s.tx = <<>> /\ s.lost = {}
  BY DEF WritesInv, StartWrite, StartThrows, CanStart, database, Stands
<1>2. Becomes(t, y) \/ Becomes(t, z)
  <2>1. tab = [u \in Tabs |-> tab[u]] /\ s = [f \in Fields |-> s[f]]
    BY <1>1 DEF WritesInv, TabOK
  <2>2. CASE StartWrite(t)
    BY <2>1, <2>2 DEF StartWrite, Becomes, Fields
  <2>3. CASE StartThrows(t)
    BY <2>1, <2>3 DEF StartThrows, Becomes, Fields, Report, Settled
  <2>. QED
    BY <2>2, <2>3
<1>3. ASSUME NEW x, x = y \/ x = z PROVE TabOK(x) /\ SavedOn(x, disk)
  <2>1. /\ x = [f \in Fields |-> x[f]] /\ x.phase = s.phase /\ x.store = s.store
        /\ x.cache = s.cache /\ x.chain = Tail(s.chain) /\ x.lost = {}
        /\ x.foreign = s.foreign
        /\ \/ x.tx = <<Head(s.chain)>> /\ x.unsaved = s.unsaved
           \/ x.tx = <<>> /\ x.unsaved = s.unsaved \cup {Head(s.chain).key}
    BY <1>1, <1>3 DEF TabOK, Fields, Report, Settled
  <2> HIDE DEF s
  <2>. QED
    BY <1>1, <2>1, StartedOK DEF Stands
<1> HIDE DEF s, y, z
<1>. QED
  BY <1>1, <1>2, <1>3, BecomesStep

LEMMA WriteFailsStep ==
    ASSUME WritesInv, NEW t \in Tabs, WriteFails(t)
    PROVE  WritesInv'
<1> DEFINE s == tab[t]
           x == Report(Settled(s), Head(s.tx).key)
<1>1. TabOK(s) /\ SavedOn(s, disk) /\ disk' = disk /\ Stands(s) /\ s.tx # <<>>
  BY DEF WritesInv, TabOK, WriteFails, database
<1>2. Becomes(t, x)
  BY DEF WriteFails, Becomes
<1>3. TabOK(x) /\ SavedOn(x, disk)
  <2>1. /\ x = [f \in Fields |-> x[f]] /\ x.phase = s.phase /\ x.store = s.store
        /\ x.cache = s.cache /\ x.chain = s.chain /\ x.foreign = s.foreign
        /\ x.lost = s.lost /\ x.tx = <<>> /\ x.unsaved = s.unsaved \cup {Head(s.tx).key}
    BY <1>1 DEF TabOK, Fields, Report, Settled
  <2> HIDE DEF s, x
  <2>. QED
    BY <1>1, <2>1, EndedOK
<1> HIDE DEF s, x
<1>. QED
  BY <1>1, <1>2, <1>3, BecomesStep

LEMMA WriteAbortsStep ==
    ASSUME WritesInv, NEW t \in Tabs, WriteAborts(t)
    PROVE  WritesInv'
<1> DEFINE s == tab[t]
           x == [s EXCEPT !.tx = <<>>, !.lost = {Head(s.tx).key}]
<1>1. TabOK(s) /\ SavedOn(s, disk) /\ disk' = disk /\ Stands(s) /\ s.tx # <<>>
  BY DEF WritesInv, TabOK, WriteAborts, database
<1>2. Becomes(t, x)
  <2>1. tab = [u \in Tabs |-> tab[u]]
    BY DEF WritesInv
  <2>. QED
    BY <2>1 DEF WriteAborts, Becomes
<1>3. TabOK(x) /\ SavedOn(x, disk)
  <2>1. /\ x = [f \in Fields |-> x[f]] /\ x.phase = s.phase /\ x.store = s.store
        /\ x.cache = s.cache /\ x.chain = s.chain /\ x.foreign = s.foreign
        /\ x.lost = {Head(s.tx).key} /\ x.tx = <<>> /\ x.unsaved = s.unsaved
    BY <1>1 DEF TabOK, Fields
  <2> HIDE DEF s, x
  <2>. QED
    BY <1>1, <2>1, EndedOK
<1> HIDE DEF s, x
<1>. QED
  BY <1>1, <1>2, <1>3, BecomesStep

LEMMA CommitStep ==
    ASSUME WritesInv, NEW t \in Tabs, tab[t].tx # <<>>, NEW e,
           e = [disk EXCEPT ![tab[t].store][Head(tab[t].tx).key] = Head(tab[t].tx).rec],
           disk' = e, NEW x, TabOK(x), SavedOn(x, e),
           tab' = [u \in Tabs |->
                IF u = t THEN x
                ELSE IF Usable(u) /\ tab[u].store = tab[t].store
                THEN [tab[u] EXCEPT !.foreign = @ \cup {Head(tab[t].tx).key}]
                ELSE tab[u]]
    PROVE  WritesInv'
<1> DEFINE k == Head(tab[t].tx).key
<1>1. \A u \in Tabs : TabOK(tab[u]) /\ SavedOn(tab[u], disk)
  BY DEF WritesInv
<1>2. k \in Keys /\ tab[t].store \in Stores
  <2>1. TabOK(tab[t])
    BY <1>1
  <2>. QED
    BY <2>1 DEF TabOK, Stands
<1>3. /\ e = [s \in Stores |-> e[s]]
      /\ \A s \in Stores : s # tab[t].store => e[s] = disk[s]
      /\ \A q \in Keys \ {k} : e[tab[t].store][q] = disk[tab[t].store][q]
  BY <1>2 DEF WritesInv, DiskOK
<1>4. DiskOK(e)
  BY <1>2 DEF WritesInv, DiskOK
<1>5. ASSUME NEW u \in Tabs PROVE TabOK(tab'[u]) /\ SavedOn(tab'[u], e)
  <2>1. CASE u = t
    BY <2>1
  <2>2. CASE u # t /\ Usable(u) /\ tab[u].store = tab[t].store
    <3>1. Stands(tab[u]) /\ tab'[u] = [tab[u] EXCEPT !.foreign = tab[u].foreign \cup {k}]
      BY <2>2 DEF Usable, Stands
    <3>2. \A q \in Keys \ {k} : e[tab[u].store][q] = disk[tab[u].store][q]
      BY <1>3, <2>2
    <3> HIDE DEF k
    <3>3. ASSUME NEW y, y = [tab[u] EXCEPT !.foreign = tab[u].foreign \cup {k}]
          PROVE  TabOK(y) /\ SavedOn(y, e)
      <4> DEFINE w == tab[u]
      <4>1. TabOK(w) /\ SavedOn(w, disk) /\ Stands(w) /\ w.store \in Stores
        BY <1>1, <3>1 DEF TabOK, Stands
      <4>2. /\ y = [f \in Fields |-> y[f]] /\ y.phase = w.phase
            /\ y.store = w.store /\ y.cache = w.cache /\ y.chain = w.chain
            /\ y.tx = w.tx /\ y.lost = w.lost
            /\ y.unsaved = w.unsaved /\ y.foreign = w.foreign \cup {k}
        BY <3>3, <4>1 DEF TabOK, Fields
      <4>3. \A q \in Keys \ {k} : e[w.store][q] = disk[w.store][q]
        BY <3>2
      <4> HIDE DEF w
      <4>4. TabOK(y)
        BY <4>1, <4>2, SameWrites DEF Stands
      <4>5. SavedOn(y, e)
        <5>1. ASSUME NEW q \in Keys, ~Unfinished(y, q), q \notin y.lost \cup y.unsaved \cup y.foreign
              PROVE  e[y.store][q] = y.cache[q]
          <6>1. q # k /\ q \notin w.lost \cup w.unsaved \cup w.foreign
            BY <4>2, <5>1
          <6>2. ~Unfinished(w, q)
            BY <4>2, <5>1 DEF Unfinished
          <6>3. disk[w.store][q] = w.cache[q]
            BY <4>1, <6>1, <6>2 DEF SavedOn
          <6>4. e[w.store][q] = disk[w.store][q]
            BY <4>3, <6>1
          <6>. QED
            BY <4>2, <6>3, <6>4
        <5>. QED
          BY <5>1 DEF SavedOn
      <4>. QED
        BY <4>4, <4>5
    <3>. QED
      BY <3>1, <3>3, Zenon
  <2>3. CASE u # t /\ ~(Usable(u) /\ tab[u].store = tab[t].store)
    <3>1. tab'[u] = tab[u] /\ TabOK(tab[u]) /\ SavedOn(tab[u], disk)
      BY <1>1, <2>3
    <3>2. CASE Stands(tab[u])
      <4>1. tab[u].store \in Stores /\ tab[u].store # tab[t].store
        BY <2>3, <3>1, <3>2 DEF Usable, Stands, TabOK
      <4>. QED
        BY <1>3, <3>1, <4>1 DEF SavedOn
    <3>. QED
      BY <3>1, <3>2 DEF SavedOn
  <2>. QED
    BY <2>1, <2>2, <2>3
<1>6. tab' = [u \in Tabs |-> tab'[u]]
  OBVIOUS
<1>. QED
  BY <1>4, <1>5, <1>6 DEF WritesInv

LEMMA WriteEndsStep ==
    ASSUME WritesInv, NEW t \in Tabs, WriteEnds(t)
    PROVE  WritesInv'
<1> DEFINE s == tab[t]
           k == Head(s.tx).key
           x == [Settled(s) EXCEPT !.unsaved = s.unsaved \ {k}, !.foreign = s.foreign \ {k}]
           e == [disk EXCEPT ![s.store][k] = Head(s.tx).rec]
<1>1. TabOK(s) /\ SavedOn(s, disk) /\ Stands(s) /\ s.tx # <<>>
  BY DEF WritesInv, TabOK, WriteEnds
<1>2. s.store \in Stores /\ k \in Keys
  BY <1>1 DEF TabOK, Stands
<1>3. /\ \A q \in Keys \ {k} : e[s.store][q] = disk[s.store][q]
      /\ e[s.store][k] = Head(s.tx).rec
  BY <1>2 DEF WritesInv, DiskOK
<1>4. /\ x = [f \in Fields |-> x[f]] /\ x.phase = s.phase /\ x.store = s.store
      /\ x.cache = s.cache /\ x.chain = s.chain /\ x.tx = <<>> /\ x.lost = s.lost
      /\ x.unsaved = s.unsaved \ {k} /\ x.foreign = s.foreign \ {k}
  BY <1>1 DEF TabOK, Fields, Settled
<1>5. disk' = e
  BY DEF WriteEnds, Committed
<1>6. tab' = [u \in Tabs |->
                IF u = t THEN x
                ELSE IF Usable(u) /\ tab[u].store = tab[t].store
                THEN [tab[u] EXCEPT !.foreign = @ \cup {Head(tab[t].tx).key}]
                ELSE tab[u]]
  <2>1. x = [Settled(tab[t]) EXCEPT !.unsaved = @ \ {k}, !.foreign = @ \ {k}]
    BY <1>1 DEF Settled, TabOK, Fields
  <2> HIDE DEF x
  <2>. QED
    BY <2>1 DEF WriteEnds, Committed
<1>7. TabOK(x) /\ SavedOn(x, e)
  <2> HIDE DEF s, e, x
  <2>1. \A q \in Keys \ {Head(s.tx).key} :
            q \in s.unsaved \cup s.foreign => q \in x.unsaved \cup x.foreign
    BY <1>4
  <2>2. e[s.store][Head(s.tx).key] = Head(s.tx).rec
    BY <1>3
  <2>. QED
    BY <1>1, <1>3, <1>4, <2>1, <2>2, EndedOK
<1>8. e = [disk EXCEPT ![tab[t].store][Head(tab[t].tx).key] = Head(tab[t].tx).rec]
  OBVIOUS
<1> HIDE DEF e, x
<1>. QED
  BY <1>1, <1>5, <1>6, <1>7, <1>8, CommitStep

LEMMA ReloadStep ==
    ASSUME WritesInv, NEW t \in Tabs, Reload(t)
    PROVE  WritesInv'
<1>1. CASE Failed(t) /\ UNCHANGED disk
  BY <1>1, FailedStep
<1>2. CASE ~(Failed(t) /\ UNCHANGED disk)
  <2> DEFINE e == [disk EXCEPT ![tab[t].store][Head(tab[t].tx).key] = Head(tab[t].tx).rec]
  <2>1. /\ tab[t].tx # <<>> /\ disk' = e
        /\ tab' = [u \in Tabs |->
                IF u = t THEN NewTab
                ELSE IF Usable(u) /\ tab[u].store = tab[t].store
                THEN [tab[u] EXCEPT !.foreign = @ \cup {Head(tab[t].tx).key}]
                ELSE tab[u]]
    BY <1>2 DEF Reload
  <2>2. TabOK(NewTab) /\ SavedOn(NewTab, e)
    BY NewTabOK DEF SavedOn
  <2>3. e = [disk EXCEPT ![tab[t].store][Head(tab[t].tx).key] = Head(tab[t].tx).rec]
    OBVIOUS
  <2> HIDE DEF e
  <2>. QED
    BY <2>1, <2>2, <2>3, CommitStep
<1>. QED
  BY <1>1, <1>2

-----------------------------------------------------------------------------
(* The schema *)

\* What a write does to a store object.
Still(a, b) ==
    /\ b.phase = a.phase /\ b.store = a.store /\ b.want = a.want
    /\ b.closing = a.closing \/ Stands(a)

LEMMA StillStep ==
    ASSUME SchemaInv, UNCHANGED <<schema, dbVersion, upgrade>>,
           \A u \in Tabs : Still(tab[u], tab'[u])
    PROVE  SchemaInv'
<1>1. UpgradeOK'
  BY DEF SchemaInv, UpgradeOK, Still
<1>2. ASSUME NEW u \in Tabs PROVE Fits(tab'[u], schema)
  BY DEF SchemaInv, Fits, Still, Reads, Stands
<1>. QED
  BY <1>1, <1>2 DEF SchemaInv

LEMMA EnqueueStill ==
    ASSUME WritesInv, SchemaInv, NEW t \in Tabs, NEW k \in Keys,
           Delete(t, k) \/ \E val \in Values : Put(t, k, val)
    PROVE  SchemaInv'
<1>1. tab = [u \in Tabs |-> tab[u]] /\ tab[t] = [f \in Fields |-> tab[t][f]]
  BY DEF WritesInv, TabOK
<1>2. PICK rec, chain :
        tab' = [tab EXCEPT ![t].cache[k] = rec, ![t].chain = chain]
  BY DEF Delete, Put
<1>3. \A u \in Tabs : Still(tab[u], tab'[u])
  BY <1>1, <1>2 DEF Still, Fields
<1>4. UNCHANGED <<schema, dbVersion, upgrade>>
  BY DEF Delete, Put, database
<1>. QED
  BY <1>3, <1>4, StillStep

LEMMA WriteStill ==
    ASSUME WritesInv, SchemaInv, NEW t \in Tabs,
           \/ StartWrite(t) \/ StartThrows(t)
           \/ WriteEnds(t) \/ WriteFails(t) \/ WriteAborts(t) \/ Close(t)
    PROVE  SchemaInv'
<1>1. /\ tab = [u \in Tabs |-> tab[u]]
      /\ \A u \in Tabs : tab[u] = [f \in Fields |-> tab[u][f]]
  BY DEF WritesInv, TabOK
<1>2. Stands(tab[t])
  BY DEF WritesInv, TabOK, StartWrite, StartThrows, WriteEnds, WriteFails, WriteAborts,
         Close, Usable, Stands
<1>3. ASSUME NEW u \in Tabs PROVE Still(tab[u], tab'[u])
  <2>1. CASE StartWrite(t)
    BY <1>1, <2>1 DEF StartWrite, Still, Fields
  <2>2. CASE StartThrows(t)
    BY <1>1, <1>2, <2>2 DEF StartThrows, Report, Settled, Still, Fields
  <2>3. CASE WriteEnds(t)
    BY <1>1, <1>2, <2>3 DEF WriteEnds, Committed, Settled, Still, Fields
  <2>4. CASE WriteFails(t)
    BY <1>1, <1>2, <2>4 DEF WriteFails, Report, Settled, Still, Fields
  <2>5. CASE WriteAborts(t)
    BY <1>1, <2>5 DEF WriteAborts, Still, Fields
  <2>6. CASE Close(t)
    BY <1>1, <1>2, <2>6 DEF Close, Still, Fields
  <2>. QED
    BY <2>1, <2>2, <2>3, <2>4, <2>5, <2>6
<1>4. UNCHANGED <<schema, dbVersion, upgrade>>
  BY DEF StartWrite, StartThrows, WriteEnds, WriteFails, WriteAborts, Close, database
<1>. QED
  BY <1>3, <1>4, StillStep

\* One tab moves on to another phase, and no upgrade waits for it.
LEMMA MovesStep ==
    ASSUME WritesInv, SchemaInv, NEW t \in Tabs, NEW x, Becomes(t, x),
           upgrade' = upgrade, upgrade = None \/ tab[t].phase # "upgrading",
           schema \subseteq schema', dbVersion' \in Nat, dbVersion' = 0 => schema' = {},
           Fits(x, schema')
    PROVE  SchemaInv'
<1>1. tab'[t] = x /\ \A u \in Tabs \ {t} : tab'[u] = tab[u]
  BY DEF WritesInv, Becomes
<1>2. UpgradeOK'
  BY <1>1 DEF SchemaInv, UpgradeOK
<1>3. ASSUME NEW u \in Tabs PROVE Fits(tab'[u], schema')
  BY <1>1 DEF SchemaInv, Fits
<1>. QED
  BY <1>2, <1>3 DEF SchemaInv

LEMMA NewTabFits == ASSUME NEW stores PROVE Fits(NewTab, stores)
BY DEF NewTab, Fits, Reads

LEMMA OpenMoves ==
    ASSUME WritesInv, SchemaInv, NEW t \in Tabs, NEW s \in Stores, Open(t, s)
    PROVE  SchemaInv'
<1> DEFINE x == [tab[t] EXCEPT !.phase = "probing", !.store = s]
<1>1. /\ tab = [u \in Tabs |-> tab[u]] /\ tab[t] = [f \in Fields |-> tab[t][f]]
      /\ tab[t].phase = "none" /\ Fits(tab[t], schema)
  BY DEF WritesInv, TabOK, Open, SchemaInv
<1>2. Becomes(t, x)
  BY <1>1 DEF Open, Becomes
<1>3. x.phase = "probing" /\ x.want = tab[t].want /\ x.closing = tab[t].closing
  BY <1>1 DEF Fields
<1> HIDE DEF x
<1>4. Fits(x, schema')
  BY <1>1, <1>3 DEF Fits, Stands, Reads
<1>. QED
  BY <1>1, <1>2, <1>4, MovesStep DEF Open, database, SchemaInv

LEMMA ProbeMoves ==
    ASSUME WritesInv, SchemaInv, NEW t \in Tabs, Probe(t)
    PROVE  SchemaInv'
<1>1. /\ tab = [u \in Tabs |-> tab[u]] /\ tab[t] = [f \in Fields |-> tab[t][f]]
      /\ tab[t].phase = "probing" /\ Fits(tab[t], schema)
      /\ upgrade = None /\ upgrade' = upgrade
  BY DEF WritesInv, TabOK, Probe, SchemaInv
<1>2. /\ schema \subseteq schema' /\ (dbVersion' = 0 => schema' = {})
      /\ dbVersion \in Nat /\ dbVersion' \in Nat
  BY DEF Probe, SchemaInv
<1>3. CASE tab[t].store \in schema'
  <2> DEFINE x == [tab[t] EXCEPT !.phase = "loading"]
  <2>1. Becomes(t, x)
    BY <1>1, <1>3 DEF Probe, Becomes
  <2>2. /\ x.phase = "loading" /\ x.want = tab[t].want /\ x.closing = tab[t].closing
        /\ x.store = tab[t].store
    BY <1>1 DEF Fields
  <2> HIDE DEF x
  <2>3. Fits(x, schema')
    BY <1>1, <1>3, <2>2 DEF Fits, Stands
  <2>. QED
    BY <1>1, <1>2, <2>1, <2>3, MovesStep
<1>4. CASE tab[t].store \notin schema'
  <2> DEFINE x == [tab[t] EXCEPT !.phase = "upgrading", !.want = dbVersion + 1]
  <2>1. Becomes(t, x)
    BY <1>1, <1>4 DEF Probe, Becomes
  <2>2. /\ x.phase = "upgrading" /\ x.want = dbVersion + 1 /\ x.closing = tab[t].closing
    BY <1>1 DEF Fields
  <2> HIDE DEF x
  <2>3. Fits(x, schema')
    BY <1>1, <1>2, <2>2 DEF Fits, Stands, Reads
  <2>. QED
    BY <1>1, <1>2, <2>1, <2>3, MovesStep
<1>. QED
  BY <1>3, <1>4

LEMMA OpenedMoves ==
    ASSUME WritesInv, SchemaInv, NEW t \in Tabs,
           OpenWithoutUpgrade(t) \/ OpenTooOld(t) \/ OpenFails(t) \/ LoadFails(t)
    PROVE  SchemaInv'
<1>1. /\ tab = [u \in Tabs |-> tab[u]] /\ tab[t] = [f \in Fields |-> tab[t][f]]
      /\ Fits(tab[t], schema)
  BY DEF WritesInv, TabOK, SchemaInv
<1>2. /\ upgrade' = upgrade /\ (upgrade = None \/ tab[t].phase # "upgrading")
      /\ schema' = schema /\ dbVersion' = dbVersion
  BY DEF OpenWithoutUpgrade, OpenTooOld, OpenFails, LoadFails, database
<1>3. CASE Failed(t)
  <2>1. Becomes(t, NewTab)
    BY <1>3 DEF Failed, Becomes
  <2>. QED
    BY <1>2, <2>1, NewTabFits, MovesStep DEF SchemaInv
<1>4. CASE ~Failed(t)
  <2> DEFINE x == [tab[t] EXCEPT !.phase = "loading"]
  <2>1. Becomes(t, x) /\ tab[t].store \in schema /\ tab[t].phase = "upgrading"
    BY <1>1, <1>4 DEF OpenWithoutUpgrade, OpenTooOld, OpenFails, LoadFails, Becomes
  <2>2. /\ x.phase = "loading" /\ x.want = tab[t].want /\ x.closing = tab[t].closing
        /\ x.store = tab[t].store
    BY <1>1 DEF Fields
  <2> HIDE DEF x
  <2>3. Fits(x, schema)
    BY <1>1, <2>1, <2>2 DEF Fits, Stands
  <2>. QED
    BY <1>2, <2>1, <2>3, MovesStep DEF SchemaInv
<1>. QED
  BY <1>3, <1>4

LEMMA LoadMoves ==
    ASSUME WritesInv, SchemaInv, NEW t \in Tabs, Load(t)
    PROVE  SchemaInv'
<1> DEFINE x == [tab[t] EXCEPT !.phase = "open", !.cache = disk[tab[t].store]]
<1>1. /\ tab = [u \in Tabs |-> tab[u]] /\ tab[t] = [f \in Fields |-> tab[t][f]]
      /\ Fits(tab[t], schema) /\ tab[t].phase = "loading"
  BY DEF WritesInv, TabOK, SchemaInv, Load
<1>2. Becomes(t, x)
  BY <1>1 DEF Load, Becomes
<1>3. /\ x.phase = "open" /\ x.want = tab[t].want /\ x.store = tab[t].store
  BY <1>1 DEF Fields
<1> HIDE DEF x
<1>4. Fits(x, schema)
  BY <1>1, <1>3 DEF Fits, Stands, Reads
<1>. QED
  BY <1>1, <1>2, <1>4, MovesStep DEF Load, database, SchemaInv

LEMMA CloseReturnsMoves ==
    ASSUME WritesInv, SchemaInv, NEW t \in Tabs, CloseReturns(t)
    PROVE  SchemaInv'
<1> DEFINE x == [tab[t] EXCEPT !.phase = "closed", !.closing = -1]
<1>1. /\ tab = [u \in Tabs |-> tab[u]] /\ tab[t] = [f \in Fields |-> tab[t][f]]
      /\ Fits(tab[t], schema)
  BY DEF WritesInv, TabOK, SchemaInv
<1>s. Stands(tab[t])
  BY <1>1 DEF CloseReturns, Fits
<1>2. Becomes(t, x)
  BY <1>1 DEF CloseReturns, Becomes
<1>3. /\ x.phase = "closed" /\ x.want = tab[t].want /\ x.store = tab[t].store
  BY <1>1 DEF Fields
<1> HIDE DEF x
<1>4. Fits(x, schema)
  BY <1>1, <1>s, <1>3 DEF Fits, Stands, Reads
<1>. QED
  BY <1>s, <1>2, <1>4, MovesStep DEF CloseReturns, database, SchemaInv, Stands

LEMMA VersionChangeSchema ==
    ASSUME WritesInv, SchemaInv, NEW t \in Tabs, VersionChange(t)
    PROVE  SchemaInv'
<1>1. /\ tab = [u \in Tabs |-> tab[u]]
      /\ \A u \in Tabs : tab[u] = [f \in Fields |-> tab[u][f]]
      /\ \A u \in Tabs : Fits(tab[u], schema)
  BY DEF WritesInv, TabOK, SchemaInv
<1>2. /\ schema' = schema /\ dbVersion' = dbVersion
      /\ upgrade # None /\ upgrade' = [upgrade EXCEPT !.tell = @ \ {t}]
  BY DEF VersionChange
<1>3. ASSUME NEW u \in Tabs
      PROVE  /\ Fits(tab'[u], schema)
             /\ tab[u].phase = "upgrading" =>
                    tab'[u].phase = "upgrading" /\ tab'[u].store = tab[u].store
  <2>1. \/ tab'[u] = tab[u]
        \/ tab'[u] = [tab[u] EXCEPT !.phase = "closed"] /\ tab[u].phase = "open"
    BY <1>1 DEF VersionChange
  <2>2. CASE tab'[u] = tab[u]
    BY <1>1, <2>2
  <2>3. CASE tab'[u] = [tab[u] EXCEPT !.phase = "closed"] /\ tab[u].phase = "open"
    <3>1. /\ tab'[u].phase = "closed" /\ tab'[u].store = tab[u].store
          /\ tab'[u].want = tab[u].want
      BY <1>1, <2>3 DEF Fields
    <3>. QED
      BY <1>1, <2>3, <3>1 DEF Fits, Stands, Reads
  <2>. QED
    BY <2>1, <2>2, <2>3
<1>4. UpgradeOK'
  <2>1. /\ upgrade = [f \in {"tab", "want", "store", "tell", "blocked"} |-> upgrade[f]]
        /\ upgrade.tab \in Tabs /\ upgrade.want \in Nat \ {0}
        /\ ~upgrade.blocked => /\ tab[upgrade.tab].phase = "upgrading"
                               /\ tab[upgrade.tab].store = upgrade.store
    BY <1>2 DEF SchemaInv, UpgradeOK
  <2>2. /\ upgrade' = [f \in {"tab", "want", "store", "tell", "blocked"} |-> upgrade'[f]]
        /\ upgrade'.tab = upgrade.tab /\ upgrade'.want = upgrade.want
        /\ upgrade'.store = upgrade.store /\ upgrade'.blocked = upgrade.blocked
    BY <1>2, <2>1
  <2>. QED
    BY <1>3, <2>1, <2>2 DEF UpgradeOK
<1>. QED
  BY <1>2, <1>3, <1>4 DEF SchemaInv

LEMMA StartUpgradeSchema ==
    ASSUME WritesInv, SchemaInv, NEW t \in Tabs, StartUpgrade(t)
    PROVE  SchemaInv'
<1>1. /\ tab' = tab /\ schema' = schema /\ dbVersion' = dbVersion /\ dbVersion \in Nat
      /\ tab[t].phase = "upgrading" /\ tab[t].want \in Nat /\ tab[t].want > dbVersion
  BY DEF StartUpgrade, SchemaInv, Fits
<1>2. /\ upgrade'.tab = t /\ upgrade'.want = tab[t].want /\ upgrade'.store = tab[t].store
      /\ upgrade' = [f \in {"tab", "want", "store", "tell", "blocked"} |-> upgrade'[f]]
  BY DEF StartUpgrade
<1>3. tab[t].want \in Nat \ {0}
  BY <1>1
<1>4. UpgradeOK'
  BY <1>1, <1>2, <1>3 DEF UpgradeOK
<1>. QED
  BY <1>1, <1>4 DEF SchemaInv

LEMMA BlockedSchema ==
    ASSUME WritesInv, SchemaInv, Blocked
    PROVE  SchemaInv'
<1>1. /\ upgrade = [f \in {"tab", "want", "store", "tell", "blocked"} |-> upgrade[f]]
      /\ upgrade.tab \in Tabs /\ upgrade.want \in Nat \ {0}
  BY DEF Blocked, SchemaInv, UpgradeOK
<1>2. /\ upgrade' = [upgrade EXCEPT !.blocked = TRUE]
      /\ schema' = schema /\ dbVersion' = dbVersion
      /\ tab' = [tab EXCEPT ![upgrade.tab] = NewTab]
  BY DEF Blocked, Failed
<1>3. /\ upgrade' = [f \in {"tab", "want", "store", "tell", "blocked"} |-> upgrade'[f]]
      /\ upgrade'.tab = upgrade.tab /\ upgrade'.want = upgrade.want /\ upgrade'.blocked
  BY <1>1, <1>2
<1>4. UpgradeOK'
  BY <1>1, <1>3 DEF UpgradeOK
<1>5. ASSUME NEW u \in Tabs PROVE Fits(tab'[u], schema)
  BY <1>1, <1>2, NewTabFits DEF SchemaInv, WritesInv
<1>. QED
  BY <1>2, <1>4, <1>5 DEF SchemaInv

LEMMA UpgradeFailsSchema ==
    ASSUME WritesInv, SchemaInv, UpgradeFails
    PROVE  SchemaInv'
<1>1. /\ upgrade' = None /\ schema' = schema /\ dbVersion' = dbVersion
      /\ tab' = tab \/ tab' = [tab EXCEPT ![upgrade.tab] = NewTab]
      /\ upgrade.tab \in Tabs
  BY DEF UpgradeFails, Failed, SchemaInv, UpgradeOK
<1>2. ASSUME NEW u \in Tabs PROVE Fits(tab'[u], schema)
  BY <1>1, NewTabFits DEF SchemaInv, WritesInv
<1>. QED
  BY <1>1, <1>2 DEF SchemaInv, UpgradeOK

LEMMA UpgradeSchema ==
    ASSUME WritesInv, SchemaInv, Upgrade
    PROVE  SchemaInv'
<1>1. /\ upgrade.tab \in Tabs /\ upgrade.want \in Nat \ {0}
      /\ ~upgrade.blocked => /\ tab[upgrade.tab].phase = "upgrading"
                             /\ tab[upgrade.tab].store = upgrade.store
      /\ tab = [u \in Tabs |-> tab[u]]
      /\ \A u \in Tabs : tab[u] = [f \in Fields |-> tab[u][f]] /\ Fits(tab[u], schema)
  BY DEF Upgrade, SchemaInv, UpgradeOK, WritesInv, TabOK
<1>2. /\ upgrade' = None /\ dbVersion' = upgrade.want
      /\ schema' = schema \cup {upgrade.store}
      /\ IF upgrade.blocked THEN tab' = tab
         ELSE tab' = [tab EXCEPT ![upgrade.tab].phase = "loading"]
  BY DEF Upgrade
<1>3. ASSUME NEW u \in Tabs PROVE Fits(tab'[u], schema')
  <2>1. CASE tab'[u] = tab[u]
    BY <1>1, <1>2, <2>1 DEF Fits
  <2>2. CASE tab'[u] # tab[u]
    <3>1. /\ ~upgrade.blocked /\ u = upgrade.tab
          /\ tab'[u] = [tab[u] EXCEPT !.phase = "loading"]
      BY <1>1, <1>2, <2>2
    <3>2. /\ tab'[u].phase = "loading" /\ tab'[u].store = tab[u].store
          /\ tab'[u].want = tab[u].want /\ tab'[u].closing = tab[u].closing
      BY <1>1, <3>1 DEF Fields
    <3>. QED
      BY <1>1, <1>2, <3>1, <3>2 DEF Fits, Stands
  <2>. QED
    BY <2>1, <2>2
<1>. QED
  BY <1>1, <1>2, <1>3 DEF SchemaInv, UpgradeOK

LEMMA ReloadSchema ==
    ASSUME WritesInv, SchemaInv, NEW t \in Tabs, Reload(t)
    PROVE  SchemaInv'
<1>1. /\ tab = [u \in Tabs |-> tab[u]]
      /\ \A u \in Tabs : tab[u] = [f \in Fields |-> tab[u][f]]
  BY DEF WritesInv, TabOK
<1>2. ASSUME NEW u \in Tabs
      PROVE  tab'[u] = NewTab \/ Still(tab[u], tab'[u])
  BY <1>1 DEF Reload, Failed, Still, Fields
<1>3. ASSUME NEW u \in Tabs, u # t PROVE Still(tab[u], tab'[u])
  BY <1>1, <1>3 DEF Reload, Failed, Still, Fields
<1>4. schema' = schema /\ dbVersion' = dbVersion
  BY DEF Reload
<1>5. UpgradeOK'
  <2>1. upgrade' = None \/ (upgrade' = upgrade /\ upgrade.tab # t)
    BY DEF Reload
  <2>. QED
    BY <1>3, <2>1 DEF SchemaInv, UpgradeOK, Still
<1>6. ASSUME NEW u \in Tabs PROVE Fits(tab'[u], schema)
  BY <1>2, NewTabFits DEF SchemaInv, Fits, Still, Reads, Stands
<1>. QED
  BY <1>4, <1>5, <1>6 DEF SchemaInv

-----------------------------------------------------------------------------
(* Every behaviour *)

IInv == WritesInv /\ SchemaInv

LEMMA InitIInv == Init => IInv
<1> SUFFICES ASSUME Init PROVE IInv
  OBVIOUS
<1>1. tab = [t \in Tabs |-> NewTab] /\ upgrade = None
  BY DEF Init
<1>2. DiskOK(disk)
  <2>1. /\ disk = [s \in Stores |-> IF s \in schema THEN Left[s] ELSE NoRecords]
        /\ schema \subseteq DOMAIN Left
    BY DEF Init
  <2>2. ASSUME NEW s \in Stores PROVE disk[s] = [k \in Keys |-> disk[s][k]]
    BY <2>1, IndexedDbAssumption DEF NoRecords
  <2>. QED
    BY <2>1, <2>2 DEF DiskOK
<1>3. WritesInv
  BY <1>1, <1>2, NewTabOK DEF WritesInv, SavedOn
<1>4. SchemaInv
  BY <1>1, NewTabFits DEF Init, SchemaInv, UpgradeOK
<1>. QED
  BY <1>3, <1>4 DEF IInv

LEMMA WritesKept == IInv /\ [Next]_vars => WritesInv'
<1> SUFFICES ASSUME WritesInv, SchemaInv, [Next]_vars PROVE WritesInv'
  BY DEF IInv
<1>1. CASE UNCHANGED vars
  BY <1>1 DEF vars, WritesInv
<1>2. CASE Blocked \/ Upgrade \/ UpgradeFails
  BY <1>2, BlockedStep, UpgradeStep, UpgradeFailsStep
<1>3. ASSUME NEW t \in Tabs, Step(t) PROVE WritesInv'
  <2>1. CASE \E s \in Stores : Open(t, s)
    BY <2>1, OpenStep
  <2>2. CASE Probe(t) \/ OpenWithoutUpgrade(t) \/ OpenTooOld(t) \/ OpenFails(t) \/ Load(t)
    BY <2>2, ProbeStep, QueueStep, LoadStep
  <2>3. CASE StartUpgrade(t)
    BY <2>3 DEF StartUpgrade, WritesInv
  <2>4. CASE VersionChange(t) \/ Close(t) \/ CloseReturns(t)
    BY <2>4, ClosesStep
  <2>5. CASE LoadFails(t)
    BY <2>5, FailedStep DEF LoadFails
  <2>6. CASE \E k \in Keys : Delete(t, k) \/ \E val \in Values : Put(t, k, val)
    BY <2>6, DeleteStep, PutStep
  <2>7. CASE StartWrite(t) \/ StartThrows(t)
    BY <2>7, StartStep
  <2>8. CASE WriteEnds(t) \/ WriteFails(t) \/ WriteAborts(t)
    BY <2>8, WriteEndsStep, WriteFailsStep, WriteAbortsStep
  <2>9. CASE Reload(t)
    BY <2>9, ReloadStep
  <2>. QED
    BY <1>3, <2>1, <2>2, <2>3, <2>4, <2>5, <2>6, <2>7, <2>8, <2>9 DEF Step, Browser
<1>. QED
  BY <1>1, <1>2, <1>3 DEF Next

LEMMA SchemaKept == IInv /\ [Next]_vars => SchemaInv'
<1> SUFFICES ASSUME WritesInv, SchemaInv, [Next]_vars PROVE SchemaInv'
  BY DEF IInv
<1>1. CASE UNCHANGED vars
  BY <1>1 DEF vars, SchemaInv, UpgradeOK
<1>2. CASE Blocked \/ Upgrade \/ UpgradeFails
  BY <1>2, BlockedSchema, UpgradeSchema, UpgradeFailsSchema
<1>3. ASSUME NEW t \in Tabs, Step(t) PROVE SchemaInv'
  <2>1. CASE \E s \in Stores : Open(t, s)
    BY <2>1, OpenMoves
  <2>2. CASE \/ Probe(t) \/ OpenWithoutUpgrade(t) \/ OpenTooOld(t)
             \/ OpenFails(t) \/ LoadFails(t)
    BY <2>2, ProbeMoves, OpenedMoves
  <2>3. CASE StartUpgrade(t)
    BY <2>3, StartUpgradeSchema
  <2>4. CASE VersionChange(t)
    BY <2>4, VersionChangeSchema
  <2>5. CASE Load(t) \/ CloseReturns(t)
    BY <2>5, LoadMoves, CloseReturnsMoves
  <2>6. CASE \E k \in Keys : Delete(t, k) \/ \E val \in Values : Put(t, k, val)
    BY <2>6, EnqueueStill
  <2>7. CASE \/ StartWrite(t) \/ StartThrows(t)
             \/ WriteEnds(t) \/ WriteFails(t) \/ WriteAborts(t) \/ Close(t)
    BY <2>7, WriteStill
  <2>8. CASE Reload(t)
    BY <2>8, ReloadSchema
  <2>. QED
    BY <1>3, <2>1, <2>2, <2>3, <2>4, <2>5, <2>6, <2>7, <2>8 DEF Step, Browser
<1>. QED
  BY <1>1, <1>2, <1>3 DEF Next

LEMMA AlwaysIInv == Spec => []IInv
<1>1. IInv /\ [Next]_vars => IInv'
  BY WritesKept, SchemaKept DEF IInv
<1>. QED
  BY InitIInv, <1>1, PTL DEF Spec

\* For any number of tabs, object stores, keys and writes, in every
\* interleaving of their transactions: once a key has no write under way and
\* none of its writes was reported, overtaken by another tab, or lost in a
\* transaction that aborted without an error event, storage holds what the
\* cache answers (createIndexedDbHostStore: put, delete, enqueue).
THEOREM CachesAgreeWithStorage == Spec => []OnlyAbortsAreSilent
<1>1. IInv => OnlyAbortsAreSilent
  BY DEF IInv, WritesInv, OnlyAbortsAreSilent, Usable, Stands, Waits, Unfinished,
         SavedOn, Saved
<1>. QED
  BY AlwaysIInv, <1>1, PTL

\* Whatever the order in which tabs ask for upgrades, are blocked, overtake one
\* another or leave, a store that reads or writes does so on an object store of
\* the database (openDatabase).
THEOREM StoresOpenOnTheirSchema == Spec => []OpenStoresExist
<1>1. IInv => OpenStoresExist
  BY DEF IInv, SchemaInv, Fits, Reads, OpenStoresExist, Usable
<1>. QED
  BY AlwaysIInv, <1>1, PTL

-----------------------------------------------------------------------------
(* The versions of a record: nextVersion and the records it makes *)

Distinct(r) == \A i, j \in 1..Len(r) : r[i].version = r[j].version => i = j

\* The records whose versions are told apart.
Records == {r \in Seq(Entry) : Distinct(r)}

LEMMA FiniteMax ==
    ASSUME NEW S \in SUBSET Nat, IsFiniteSet(S), S # {}
    PROVE  Max(S) \in S /\ \A d \in S : Max(S) >= d
<1> DEFINE P(c) == {d \in S : d >= c}
           T == {Cardinality(P(c)) : c \in S}
<1>1. \A c : IsFiniteSet(P(c)) /\ Cardinality(P(c)) \in Nat
  BY FS_Subset, FS_CardinalityType
<1>2. T \subseteq Nat /\ T # {}
  BY <1>1
<1>3. PICK m \in T : \A n \in T : ~(<<n, m>> \in OpToRel(<, Nat))
  BY <1>2, NatLessThanWellFounded, WFMin, Zenon
<1>4. PICK c \in S : m = Cardinality(P(c))
  OBVIOUS
<1>5. ASSUME NEW d \in S PROVE c >= d
  <2>1. SUFFICES ASSUME c < d PROVE FALSE
    OBVIOUS
  <2>2. Cardinality(P(d)) < Cardinality(P(c))
    <3>1. PICK A, B : A = P(c) /\ B = P(d)
      OBVIOUS
    <3>2. B \in SUBSET A /\ c \in A /\ c \notin B
      <4>1. \A e \in B : e \in A
        BY <2>1, <3>1
      <4>2. c \in A /\ c \notin B
        BY <2>1, <3>1
      <4>. QED
        BY <4>1, <4>2
    <3>3. IsFiniteSet(A) /\ Cardinality(A) \in Nat /\ Cardinality(B) \in Nat
      BY <1>1, <3>1
    <3>4. Cardinality(B) <= Cardinality(A) /\ (Cardinality(A) = Cardinality(B) => A = B)
      BY <3>2, <3>3, FS_Subset
    <3>5. Cardinality(B) < Cardinality(A)
      BY <3>2, <3>3, <3>4
    <3>. QED
      BY <3>1, <3>5
  <2>3. Cardinality(P(d)) \in T /\ Cardinality(P(d)) \in Nat /\ m \in Nat
    BY <1>1, <1>2
  <2> HIDE DEF T, P
  <2>. QED
    BY <1>3, <1>4, <2>2, <2>3 DEF OpToRel
<1>6. \E x \in S : \A d \in S : x >= d
  BY <1>5
<1>. QED
  BY <1>6 DEF Max

\* nextVersion numbers no two versions alike.
LEMMA NextVersionIsNew ==
    ASSUME NEW r \in Seq(Entry)
    PROVE  NextVersion(r) \in Nat /\ \A i \in 1..Len(r) : r[i].version # NextVersion(r)
<1> DEFINE f == [i \in 1..Len(r) |-> r[i].version]
           V == {f[i] : i \in 1..Len(r)}
           N == V \ {Malformed}
<1>1. Len(r) \in Nat /\ \A i \in 1..Len(r) : r[i].version \in Nat
  <2>1. \A i \in 1..Len(r) : r[i] \in Entry
    OBVIOUS
  <2>. QED
    BY <2>1 DEF Entry
<1>2. {e.version : e \in Range(r)} = V
  BY DEF Range
<1>3. NextVersion(r) = IF N = {} THEN Len(r) + 1 ELSE Max(N) + 1
  BY <1>2 DEF NextVersion
<1>4. IsFiniteSet(N) /\ N \in SUBSET Nat
  <2>1. IsFiniteSet(1..Len(r))
    BY <1>1, FS_Interval
  <2>2. PICK g : g = f
    OBVIOUS
  <2>3. g \in Surjection(1..Len(r), V)
    BY <2>2 DEF Surjection
  <2>4. IsFiniteSet(V)
    BY <2>1, <2>3, FS_Surjection
  <2>5. V \in SUBSET Nat
    BY <1>1
  <2> HIDE DEF V
  <2>. QED
    BY <2>4, <2>5, FS_Subset
<1>5. \A i \in 1..Len(r) : r[i].version = 0 \/ r[i].version \in N
  BY DEF Malformed
<1> HIDE DEF N
<1>6. CASE N = {}
  BY <1>1, <1>3, <1>5, <1>6
<1>7. CASE N # {}
  <2>1. PICK x \in Nat : x = Max(N) /\ \A d \in N : x >= d
    BY <1>4, <1>7, FiniteMax
  <2>2. \A d \in N : d \in Nat /\ d # x + 1
    BY <1>4, <2>1
  <2>3. NextVersion(r) = x + 1
    BY <1>3, <1>7, <2>1
  <2>. QED
    BY <1>1, <1>5, <2>1, <2>2, <2>3
<1>. QED
  BY <1>6, <1>7

LEMMA AppendVersion ==
    ASSUME NEW r \in Records, NEW val \in Values
    PROVE  Append(r, [version |-> NextVersion(r), val |-> val]) \in Records
<1>1. PICK v \in Nat : v = NextVersion(r)
  BY NextVersionIsNew DEF Records
<1>2. PICK e \in Entry : e = [version |-> NextVersion(r), val |-> val]
  BY <1>1 DEF Entry
<1>3. r \in Seq(Entry) /\ Distinct(r) /\ Len(r) \in Nat
  BY DEF Records
<1>4. PICK a : a = Append(r, e)
  OBVIOUS
<1>5. /\ a \in Seq(Entry) /\ Len(a) = Len(r) + 1
      /\ \A i \in 1..Len(r) : a[i] = r[i]
      /\ a[Len(r) + 1] = e
  BY <1>3, <1>4
<1>6. e.version = v /\ \A i \in 1..Len(r) : r[i].version # v
  BY <1>1, <1>2, <1>3, NextVersionIsNew
<1>7. ASSUME NEW i \in 1..Len(a), NEW j \in 1..Len(a), a[i].version = a[j].version
      PROVE  i = j
  <2>1. \A h \in 1..Len(a) : h \in 1..Len(r) \/ h = Len(r) + 1
    BY <1>3, <1>5
  <2>2. CASE i \in 1..Len(r) /\ j \in 1..Len(r)
    BY <1>3, <1>5, <1>7, <2>2 DEF Distinct
  <2>3. CASE i \in 1..Len(r) /\ j = Len(r) + 1
    BY <1>5, <1>6, <1>7, <2>3
  <2>4. CASE i = Len(r) + 1 /\ j \in 1..Len(r)
    BY <1>5, <1>6, <1>7, <2>4
  <2>. QED
    BY <2>1, <2>2, <2>3, <2>4
<1>8. Distinct(a)
  BY <1>7 DEF Distinct
<1>. QED
  BY <1>2, <1>4, <1>5, <1>8 DEF Records

-----------------------------------------------------------------------------
(* Types *)

WriteItem == [key : Keys, rec : Records]

\* The writes of a store object that are not over.
Pending(s) == Len(s.chain) + Len(s.tx) + Cardinality(s.lost)

\* A store object after n puts and deletes of all tabs.
TabTyped(s, n) ==
    /\ s.phase \in Phases /\ s.store \in Stores \cup {None}
    /\ s.cache \in [Keys -> Records]
    /\ s.chain \in Seq(WriteItem) /\ s.tx \in Seq(WriteItem)
    /\ s.lost \subseteq Keys /\ Cardinality(s.lost) \in Nat
    /\ Len(s.tx) <= 1 /\ Pending(s) <= n
    /\ s.closing \in -1..MaxWrites
    /\ s.unsaved \subseteq Keys /\ s.foreign \subseteq Keys

TypesInv ==
    /\ writes \in 0..MaxWrites
    /\ disk \in [Stores -> [Keys -> Records]]
    /\ \A t \in Tabs : TabTyped(tab[t], writes)

LEMMA EmptyRecord == <<>> \in Records
BY DEF Records, Distinct

LEMMA NewTabTyped == ASSUME NEW n \in Nat PROVE TabTyped(NewTab, n)
<1>1. /\ NewTab.phase = "none" /\ NewTab.store = None /\ NewTab.cache = NoRecords
      /\ NewTab.chain = <<>> /\ NewTab.tx = <<>> /\ NewTab.closing = -1
      /\ NewTab.lost = {} /\ NewTab.unsaved = {} /\ NewTab.foreign = {}
  BY DEF NewTab
<1>2. NoRecords \in [Keys -> Records]
  BY EmptyRecord DEF NoRecords
<1>3. <<>> \in Seq(WriteItem) /\ Len(<<>>) = 0 /\ Cardinality({}) = 0
  BY FS_EmptySet
<1>4. -1 \in -1..MaxWrites
  BY IndexedDbAssumption
<1>5. Pending(NewTab) = 0
  BY <1>1, <1>3 DEF Pending
<1>. QED
  BY <1>1, <1>2, <1>3, <1>4, <1>5 DEF TabTyped, Phases

LEMMA TypedLengths ==
    ASSUME NEW s, NEW n \in Nat, TabTyped(s, n)
    PROVE  /\ Len(s.chain) \in Nat /\ Len(s.tx) \in Nat /\ Cardinality(s.lost) \in Nat
           /\ Pending(s) \in 0..n
           /\ s.phase \in Phases /\ s.store \in Stores \cup {None}
           /\ s.closing \in -1..MaxWrites
<1>1. Len(s.chain) \in Nat /\ Len(s.tx) \in Nat /\ Cardinality(s.lost) \in Nat
  BY DEF TabTyped
<1>2. PICK p : p = Pending(s)
  OBVIOUS
<1>3. p <= n
  BY <1>2, Zenon DEF TabTyped
<1>4. p \in Nat
  <2>1. PICK a \in Nat, b \in Nat, c \in Nat :
            a = Len(s.chain) /\ b = Len(s.tx) /\ c = Cardinality(s.lost)
    BY <1>1
  <2>2. p = a + b + c
    BY <1>2, <2>1, Zenon DEF Pending
  <2>. QED
    BY <2>2
<1>5. p \in 0..n
  BY <1>3, <1>4
<1>. QED
  BY <1>1, <1>2, <1>5, Zenon DEF TabTyped

\* Nothing that is cached or written changes.
LEMMA SameTyped ==
    ASSUME NEW s, NEW n \in Nat, NEW m \in Nat, n <= m, TabTyped(s, n), NEW x,
           x.cache = s.cache, x.chain = s.chain, x.tx = s.tx, x.lost = s.lost,
           x.phase \in Phases, x.store \in Stores \cup {None},
           x.closing \in -1..MaxWrites,
           x.unsaved \subseteq Keys, x.foreign \subseteq Keys
    PROVE  TabTyped(x, m)
<1>2. PICK p \in 0..n : p = Pending(s)
  BY TypedLengths, Zenon
<1>3. Pending(x) <= m
  <2>1. p <= m
    OBVIOUS
  <2>2. Pending(x) = Pending(s)
    BY Zenon DEF Pending
  <2>. QED
    BY <1>2, <2>1, <2>2, Zenon
<1>4. /\ x.cache \in [Keys -> Records] /\ x.chain \in Seq(WriteItem)
      /\ x.tx \in Seq(WriteItem) /\ Len(x.tx) <= 1
      /\ x.lost \subseteq Keys /\ Cardinality(x.lost) \in Nat
  BY DEF TabTyped
<1>. QED
  BY <1>3, <1>4, Zenon DEF TabTyped

\* One tab changes, and nothing on the disk.
LEMMA TypedStep ==
    ASSUME TypesInv, NEW t \in Tabs, disk' = disk,
           writes' \in Nat, writes <= writes', writes' <= MaxWrites,
           \A u \in Tabs \ {t} : tab'[u] = tab[u],
           TabTyped(tab'[t], writes')
    PROVE  TypesInv'
<1>1. writes \in Nat /\ writes' \in 0..MaxWrites
  BY IndexedDbAssumption DEF TypesInv
<1>2. ASSUME NEW u \in Tabs, u # t PROVE TabTyped(tab'[u], writes')
  <2>1. PICK s : s = tab[u] /\ s = tab'[u] /\ TabTyped(s, writes)
    BY <1>2 DEF TypesInv
  <2>. QED
    BY <1>1, <2>1, SameTyped DEF TabTyped
<1>3. \A u \in Tabs : TabTyped(tab'[u], writes')
  BY <1>2
<1>4. disk' \in [Stores -> [Keys -> Records]]
  BY DEF TypesInv
<1>. QED
  BY <1>1, <1>3, <1>4 DEF TypesInv

LEMMA NoStepTyped == ASSUME TypesInv, tab' = tab, disk' = disk, writes' = writes PROVE TypesInv'
BY DEF TypesInv, TabTyped

\* The schema, the queue of open requests and close() leave the writes alone.
LEMMA PhasesTyped ==
    ASSUME WritesInv, TypesInv, NEW t \in Tabs, disk' = disk, writes' = writes,
           NEW x, Becomes(t, x),
           \/ x = NewTab
           \/ /\ x = [f \in Fields |-> x[f]]
              /\ x.cache = tab[t].cache /\ x.chain = tab[t].chain /\ x.tx = tab[t].tx
              /\ x.lost = tab[t].lost
              /\ x.unsaved = tab[t].unsaved /\ x.foreign = tab[t].foreign
              /\ x.phase \in Phases /\ x.store \in Stores \cup {None}
              /\ x.closing \in -1..MaxWrites
    PROVE  TypesInv'
<1>1. tab'[t] = x /\ \A u \in Tabs \ {t} : tab'[u] = tab[u]
  BY DEF WritesInv, Becomes
<1>2. writes \in Nat /\ writes <= writes /\ writes <= MaxWrites /\ TabTyped(tab[t], writes)
  BY IndexedDbAssumption DEF TypesInv
<1>3. tab[t].unsaved \subseteq Keys /\ tab[t].foreign \subseteq Keys
  BY <1>2 DEF TabTyped
<1>4. TabTyped(x, writes)
  <2>1. CASE x = NewTab
    BY <1>2, <2>1, NewTabTyped
  <2>2. CASE x # NewTab
    <3>1. PICK s : s = tab[t]
      OBVIOUS
    <3>. QED
      BY <1>2, <1>3, <2>2, <3>1, SameTyped
  <2>. QED
    BY <2>1, <2>2
<1>. QED
  BY <1>1, <1>2, <1>4, TypedStep

LEMMA QueueTyped ==
    ASSUME WritesInv, SchemaInv, TypesInv, NEW t \in Tabs,
           \/ \E s \in Stores : Open(t, s)
           \/ Probe(t) \/ StartUpgrade(t) \/ OpenWithoutUpgrade(t) \/ OpenTooOld(t)
           \/ OpenFails(t) \/ LoadFails(t) \/ VersionChange(t) \/ Close(t) \/ CloseReturns(t)
    PROVE  TypesInv'
<1>1. disk' = disk /\ writes' = writes
  BY DEF Open, Probe, StartUpgrade, OpenWithoutUpgrade, OpenTooOld, OpenFails, LoadFails,
         VersionChange, Close, CloseReturns, database
<1>2. /\ tab = [u \in Tabs |-> tab[u]]
      /\ TabTyped(tab[t], writes) /\ writes \in Nat /\ writes <= MaxWrites
  BY DEF WritesInv, TypesInv
<1>3. PICK s : s = tab[t] /\ s = [f \in Fields |-> s[f]]
  BY DEF WritesInv, TabOK
<1>4. /\ s.phase \in Phases /\ s.store \in Stores \cup {None} /\ s.closing \in -1..MaxWrites
      /\ -1 \in -1..MaxWrites
      /\ Pending(s) \in -1..MaxWrites
  <2>1. TabTyped(s, writes)
    BY <1>2, <1>3
  <2>2. PICK l \in 0..writes : l = Pending(s)
    BY <1>2, <2>1, TypedLengths
  <2>3. l \in -1..MaxWrites /\ -1 \in -1..MaxWrites
    BY <1>2, IndexedDbAssumption
  <2>. QED
    BY <1>2, <2>1, <2>2, <2>3, TypedLengths
<1>5. CASE tab' = tab
  BY <1>1, <1>5, NoStepTyped
<1>6. CASE tab' # tab
  <2>1. \/ \E st \in Stores : tab' = [tab EXCEPT ![t].phase = "probing", ![t].store = st]
        \/ tab' = [tab EXCEPT ![t].phase = "loading"]
        \/ tab' = [tab EXCEPT ![t].phase = "upgrading", ![t].want = dbVersion + 1]
        \/ Failed(t)
        \/ tab' = [tab EXCEPT ![t].phase = "closed"]
        \/ tab' = [tab EXCEPT ![t].closing = Pending(s)]
        \/ tab' = [tab EXCEPT ![t].phase = "closed", ![t].closing = -1]
    BY <1>3, <1>6 DEF Open, Probe, StartUpgrade, OpenWithoutUpgrade, OpenTooOld,
         OpenFails, LoadFails, VersionChange, Close, CloseReturns, Pending
  <2>2. \/ \E st \in Stores : Becomes(t, [s EXCEPT !.phase = "probing", !.store = st])
        \/ Becomes(t, [s EXCEPT !.phase = "loading"])
        \/ Becomes(t, [s EXCEPT !.phase = "upgrading", !.want = dbVersion + 1])
        \/ Becomes(t, NewTab)
        \/ Becomes(t, [s EXCEPT !.phase = "closed"])
        \/ Becomes(t, [s EXCEPT !.closing = Pending(s)])
        \/ Becomes(t, [s EXCEPT !.phase = "closed", !.closing = -1])
    BY <1>2, <1>3, <2>1 DEF Becomes, Failed
  <2>3. ASSUME NEW x,
               \/ \E st \in Stores : x = [s EXCEPT !.phase = "probing", !.store = st]
               \/ x = [s EXCEPT !.phase = "loading"]
               \/ x = [s EXCEPT !.phase = "upgrading", !.want = dbVersion + 1]
               \/ x = [s EXCEPT !.phase = "closed"]
               \/ x = [s EXCEPT !.closing = Pending(s)]
               \/ x = [s EXCEPT !.phase = "closed", !.closing = -1]
        PROVE  /\ x = [f \in Fields |-> x[f]]
               /\ x.cache = s.cache /\ x.chain = s.chain /\ x.tx = s.tx
               /\ x.lost = s.lost /\ x.unsaved = s.unsaved /\ x.foreign = s.foreign
               /\ x.phase \in Phases /\ x.store \in Stores \cup {None}
               /\ x.closing \in -1..MaxWrites
    BY <1>3, <1>4, <2>3 DEF Fields, Phases
  <2>4. PICK x : Becomes(t, x) /\
               \/ x = NewTab
               \/ \E st \in Stores : x = [s EXCEPT !.phase = "probing", !.store = st]
               \/ x = [s EXCEPT !.phase = "loading"]
               \/ x = [s EXCEPT !.phase = "upgrading", !.want = dbVersion + 1]
               \/ x = [s EXCEPT !.phase = "closed"]
               \/ x = [s EXCEPT !.closing = Pending(s)]
               \/ x = [s EXCEPT !.phase = "closed", !.closing = -1]
    BY <2>2
  <2>. QED
    BY <1>1, <1>3, <2>3, <2>4, PhasesTyped
<1>. QED
  BY <1>5, <1>6

LEMMA UpgradesTyped ==
    ASSUME WritesInv, SchemaInv, TypesInv, Blocked \/ Upgrade \/ UpgradeFails
    PROVE  TypesInv'
<1>1. disk' = disk /\ writes' = writes
  BY DEF Blocked, Upgrade, UpgradeFails
<1>2. PICK t \in Tabs : t = upgrade.tab
  BY DEF SchemaInv, UpgradeOK, Blocked, Upgrade, UpgradeFails
<1>3. PICK s : s = tab[t] /\ s = [f \in Fields |-> s[f]] /\ TabTyped(s, writes)
  BY DEF WritesInv, TabOK, TypesInv
<1>4. CASE tab' = tab
  BY <1>1, <1>4, NoStepTyped
<1>5. CASE Failed(t)
  BY <1>1, <1>5, PhasesTyped DEF Failed, Becomes
<1>6. CASE tab' = [tab EXCEPT ![t].phase = "loading"]
  <2>1. PICK x : x = [s EXCEPT !.phase = "loading"]
    OBVIOUS
  <2>2. Becomes(t, x)
    BY <1>3, <1>6, <2>1 DEF Becomes, WritesInv
  <2>3. /\ x = [f \in Fields |-> x[f]]
        /\ x.cache = s.cache /\ x.chain = s.chain /\ x.tx = s.tx
        /\ x.lost = s.lost /\ x.unsaved = s.unsaved /\ x.foreign = s.foreign
        /\ x.phase = "loading" /\ x.store = s.store /\ x.closing = s.closing
    BY <1>3, <2>1 DEF Fields
  <2>4. x.phase \in Phases /\ x.store \in Stores \cup {None} /\ x.closing \in -1..MaxWrites
    BY <1>3, <2>3 DEF TabTyped, Phases
  <2>. QED
    BY <1>1, <1>3, <2>2, <2>3, <2>4, PhasesTyped
<1>. QED
  BY <1>2, <1>4, <1>5, <1>6 DEF Blocked, Upgrade, UpgradeFails

LEMMA ItemsTail ==
    ASSUME NEW S, NEW c \in Seq(S), c # <<>>
    PROVE  /\ Tail(c) \in Seq(S) /\ Len(c) \in Nat /\ Len(Tail(c)) = Len(c) - 1
           /\ Head(c) \in S /\ <<Head(c)>> \in Seq(S) /\ Len(<<Head(c)>>) = 1
OBVIOUS

LEMMA ItemsAppend ==
    ASSUME NEW S, NEW c \in Seq(S), NEW e \in S
    PROVE  Append(c, e) \in Seq(S) /\ Len(Append(c, e)) = Len(c) + 1 /\ Len(c) \in Nat
OBVIOUS

\* The waiting writes that share an array stay as many.
LEMMA SharedTyped ==
    ASSUME NEW c \in Seq(WriteItem), NEW k \in Keys, NEW r \in Records
    PROVE  Shared(c, k, r) \in Seq(WriteItem) /\ Len(Shared(c, k, r)) = Len(c)
<1>1. PICK e \in WriteItem : e = [key |-> k, rec |-> r]
  BY DEF WriteItem
<1>2. DOMAIN c = 1..Len(c) /\ Len(c) \in Nat /\ \A i \in 1..Len(c) : c[i] \in WriteItem
  OBVIOUS
<1> DEFINE f == Shared(c, k, r)
<1>3. f = [i \in 1..Len(c) |->
            IF /\ c[i].key = k
               /\ \A j \in i..Len(c) : c[j].key = k => c[j].rec # <<>>
            THEN e ELSE c[i]]
  BY <1>1, <1>2 DEF Shared
<1>4. \A i \in 1..Len(c) : f[i] \in WriteItem
  BY <1>1, <1>2, <1>3
<1>5. f \in [1..Len(c) -> WriteItem]
  BY <1>3, <1>4
<1> HIDE DEF f
<1>6. f \in Seq(WriteItem) /\ Len(f) = Len(c)
  BY <1>2, <1>5
<1>. QED
  BY <1>6 DEF f

\* Putting or deleting: one write more.
LEMMA EnqueuedTyped ==
    ASSUME NEW s, NEW n \in Nat, TabTyped(s, n), NEW k \in Keys, NEW r \in Records,
           NEW c \in Seq(WriteItem), Len(c) = Len(s.chain), NEW x,
           x.phase = s.phase, x.store = s.store, x.tx = s.tx, x.closing = s.closing,
           x.lost = s.lost, x.unsaved = s.unsaved, x.foreign = s.foreign,
           x.cache = [s.cache EXCEPT ![k] = r],
           x.chain = Append(c, [key |-> k, rec |-> r])
    PROVE  TabTyped(x, n + 1)
<1>1. PICK e \in WriteItem : e = [key |-> k, rec |-> r]
  BY DEF WriteItem
<1>2. x.chain \in Seq(WriteItem) /\ Len(x.chain) = Len(s.chain) + 1
  <2>1. x.chain = Append(c, e)
    BY <1>1
  <2>2. Append(c, e) \in Seq(WriteItem) /\ Len(Append(c, e)) = Len(c) + 1
    BY ItemsAppend
  <2>. QED
    BY <2>1, <2>2
<1>3. Pending(x) <= n + 1
  <2>1. PICK a \in Nat, b \in Nat, d \in Nat :
            a = Len(s.chain) /\ b = Len(s.tx) /\ d = Cardinality(s.lost)
    BY TypedLengths
  <2>2. Pending(s) \in 0..n
    BY TypedLengths, Zenon
  <2>3. a + b + d \in 0..n
    BY <2>1, <2>2, Zenon DEF Pending
  <2>4. (a + 1) + b + d <= n + 1 /\ a + 1 \in Nat
    BY <2>3
  <2>5. Len(x.chain) = a + 1 /\ Len(x.tx) = b /\ Cardinality(x.lost) = d
    BY <1>2, <2>1
  <2>6. Pending(x) = (a + 1) + b + d
    BY <2>5, Zenon DEF Pending
  <2>. QED
    BY <2>4, <2>6, Zenon
<1>4. x.cache \in [Keys -> Records]
  <2>1. s.cache \in [Keys -> Records]
    BY DEF TabTyped
  <2>. QED
    BY <2>1
<1>. QED
  BY <1>2, <1>3, <1>4, Zenon DEF TabTyped

LEMMA PutTyped ==
    ASSUME WritesInv, TypesInv, NEW t \in Tabs, NEW k \in Keys, NEW val \in Values,
           Put(t, k, val)
    PROVE  TypesInv'
<1> DEFINE s == tab[t]
           rec == Append(s.cache[k], [version |-> NextVersion(s.cache[k]), val |-> val])
<1>1. /\ disk' = disk /\ writes' = writes + 1 /\ writes < MaxWrites
      /\ writes \in Nat /\ TabTyped(s, writes)
  BY DEF Put, database, Write, TypesInv
<1>2. tab' = [tab EXCEPT ![t].cache[k] = rec,
                         ![t].chain = Append(Shared(@, k, rec), [key |-> k, rec |-> rec])]
  BY DEF Put
<1>3. rec \in Records
  <2>1. s.cache[k] \in Records
    BY <1>1 DEF TabTyped
  <2>. QED
    BY <2>1, AppendVersion
<1> HIDE DEF rec
<1> DEFINE x == [s EXCEPT !.cache = [s.cache EXCEPT ![k] = rec],
                          !.chain = Append(Shared(s.chain, k, rec),
                                           [key |-> k, rec |-> rec])]
<1>4. tab = [u \in Tabs |-> tab[u]] /\ s = [f \in Fields |-> s[f]]
  BY DEF WritesInv, TabOK
<1>5. tab'[t] = x /\ \A u \in Tabs \ {t} : tab'[u] = tab[u]
  BY <1>2, <1>4 DEF Fields
<1>6. TabTyped(x, writes + 1)
  <2>1. /\ x.phase = s.phase /\ x.store = s.store /\ x.tx = s.tx /\ x.closing = s.closing
        /\ x.lost = s.lost /\ x.unsaved = s.unsaved /\ x.foreign = s.foreign
        /\ x.cache = [s.cache EXCEPT ![k] = rec]
        /\ x.chain = Append(Shared(s.chain, k, rec), [key |-> k, rec |-> rec])
    BY <1>4 DEF Fields
  <2>2. s.chain \in Seq(WriteItem)
    BY <1>1 DEF TabTyped
  <2>3. PICK c \in Seq(WriteItem) : c = Shared(s.chain, k, rec) /\ Len(c) = Len(s.chain)
    BY <1>3, <2>2, SharedTyped
  <2> HIDE DEF s, x
  <2>. QED
    BY <1>1, <1>3, <2>1, <2>3, EnqueuedTyped
<1>7. writes + 1 \in Nat /\ writes <= writes + 1 /\ writes + 1 <= MaxWrites
  BY <1>1, IndexedDbAssumption
<1> HIDE DEF x
<1>. QED
  BY <1>1, <1>5, <1>6, <1>7, TypedStep

LEMMA DeleteTyped ==
    ASSUME WritesInv, TypesInv, NEW t \in Tabs, NEW k \in Keys, Delete(t, k)
    PROVE  TypesInv'
<1> DEFINE s == tab[t]
           x == [s EXCEPT !.cache = [s.cache EXCEPT ![k] = <<>>],
                          !.chain = Append(s.chain, [key |-> k, rec |-> <<>>])]
<1>1. /\ disk' = disk /\ writes' = writes + 1 /\ writes < MaxWrites
      /\ writes \in Nat /\ TabTyped(s, writes)
  BY DEF Delete, database, Write, TypesInv
<1>2. tab' = [tab EXCEPT ![t].cache[k] = <<>>,
                         ![t].chain = Append(@, [key |-> k, rec |-> <<>>])]
  BY DEF Delete
<1>4. tab = [u \in Tabs |-> tab[u]] /\ s = [f \in Fields |-> s[f]]
  BY DEF WritesInv, TabOK
<1>5. tab'[t] = x /\ \A u \in Tabs \ {t} : tab'[u] = tab[u]
  BY <1>2, <1>4 DEF Fields
<1>6. TabTyped(x, writes + 1)
  <2>1. /\ x.phase = s.phase /\ x.store = s.store /\ x.tx = s.tx /\ x.closing = s.closing
        /\ x.lost = s.lost /\ x.unsaved = s.unsaved /\ x.foreign = s.foreign
        /\ x.cache = [s.cache EXCEPT ![k] = <<>>]
        /\ x.chain = Append(s.chain, [key |-> k, rec |-> <<>>])
    BY <1>4 DEF Fields
  <2>2. s.chain \in Seq(WriteItem)
    BY <1>1 DEF TabTyped
  <2> HIDE DEF s, x
  <2>. QED
    BY <1>1, <2>1, <2>2, EmptyRecord, EnqueuedTyped
<1>7. writes + 1 \in Nat /\ writes <= writes + 1 /\ writes + 1 <= MaxWrites
  BY <1>1, IndexedDbAssumption
<1> HIDE DEF x
<1>. QED
  BY <1>1, <1>5, <1>6, <1>7, TypedStep

\* A write that starts or stops: no more are pending than before.
LEMMA MovedTyped ==
    ASSUME WritesInv, TypesInv, NEW t \in Tabs, disk' = disk, writes' = writes,
           NEW x, Becomes(t, x),
           x.phase = tab[t].phase, x.store = tab[t].store, x.cache = tab[t].cache,
           x.chain \in Seq(WriteItem), x.tx \in Seq(WriteItem), Len(x.tx) <= 1,
           Pending(x) <= writes, x.closing \in -1..MaxWrites,
           x.lost \subseteq Keys, Cardinality(x.lost) \in Nat,
           x.unsaved \subseteq Keys, x.foreign \subseteq Keys
    PROVE  TypesInv'
<1>1. tab'[t] = x /\ \A u \in Tabs \ {t} : tab'[u] = tab[u]
  BY DEF WritesInv, Becomes
<1>2. TabTyped(tab[t], writes) /\ writes \in Nat /\ writes <= writes /\ writes <= MaxWrites
  BY IndexedDbAssumption DEF TypesInv
<1>3. TabTyped(x, writes)
  <2>1. tab[t].phase \in Phases /\ tab[t].store \in Stores \cup {None}
        /\ tab[t].cache \in [Keys -> Records]
    BY <1>2, Zenon DEF TabTyped
  <2>. QED
    BY <2>1, Zenon DEF TabTyped
<1>. QED
  BY <1>1, <1>2, <1>3, TypedStep

\* What waits for close().
Waited(c) == IF c > 0 THEN c - 1 ELSE c

LEMMA WaitedTyped ==
    ASSUME NEW c \in -1..MaxWrites PROVE Waited(c) \in -1..MaxWrites
BY IndexedDbAssumption DEF Waited

LEMMA TypedParts ==
    ASSUME TypesInv, NEW t \in Tabs
    PROVE  /\ TabTyped(tab[t], writes) /\ writes \in Nat
           /\ tab[t].chain \in Seq(WriteItem) /\ tab[t].tx \in Seq(WriteItem)
           /\ Len(tab[t].tx) <= 1
           /\ tab[t].closing \in -1..MaxWrites
           /\ tab[t].lost \subseteq Keys /\ Cardinality(tab[t].lost) \in Nat
           /\ tab[t].unsaved \subseteq Keys /\ tab[t].foreign \subseteq Keys
<1>1. TabTyped(tab[t], writes) /\ writes \in Nat
  BY DEF TypesInv
<1>. QED
  BY <1>1, Zenon DEF TabTyped

LEMMA StartTyped ==
    ASSUME WritesInv, TypesInv, NEW t \in Tabs, StartWrite(t) \/ StartThrows(t)
    PROVE  TypesInv'
<1> DEFINE s == tab[t]
           y == [s EXCEPT !.tx = <<Head(s.chain)>>, !.chain = Tail(s.chain)]
           z == Report(Settled([s EXCEPT !.chain = Tail(s.chain)]), Head(s.chain).key)
<1>1. /\ disk' = disk /\ writes' = writes
      /\ s.chain # <<>> /\ s.tx = <<>> /\ s.lost = {}
  BY DEF StartWrite, StartThrows, CanStart, database
<1>2. tab = [u \in Tabs |-> tab[u]] /\ s = [f \in Fields |-> s[f]]
  BY DEF WritesInv, TabOK
<1>3. Becomes(t, y) \/ Becomes(t, z)
  <2>2. CASE StartWrite(t)
    BY <1>2, <2>2 DEF StartWrite, Becomes, Fields
  <2>3. CASE StartThrows(t)
    BY <1>2, <2>3 DEF StartThrows, Becomes, Fields, Report, Settled
  <2>. QED
    BY <2>2, <2>3
<1>4. ASSUME NEW x, Becomes(t, x), x = y \/ x = z PROVE TypesInv'
  <2>1. /\ x.phase = s.phase /\ x.store = s.store /\ x.cache = s.cache
        /\ x.chain = Tail(s.chain) /\ x.lost = s.lost /\ x.foreign = s.foreign
        /\ \/ x.tx = <<Head(s.chain)>> /\ x.unsaved = s.unsaved /\ x.closing = s.closing
           \/ /\ x.tx = <<>> /\ x.unsaved = s.unsaved \cup {Head(s.chain).key}
              /\ x.closing = Waited(s.closing)
    BY <1>2, <1>4 DEF Fields, Report, Settled, Waited
  <2>2. TypesInv /\ t \in Tabs
    OBVIOUS
  <2>3. /\ TabTyped(s, writes) /\ writes \in Nat /\ s.chain \in Seq(WriteItem)
        /\ s.closing \in -1..MaxWrites /\ s.unsaved \subseteq Keys /\ s.foreign \subseteq Keys
    BY TypedParts
  <2>4. /\ Tail(s.chain) \in Seq(WriteItem) /\ Len(Tail(s.chain)) = Len(s.chain) - 1
        /\ Head(s.chain) \in WriteItem /\ <<Head(s.chain)>> \in Seq(WriteItem)
        /\ Len(<<Head(s.chain)>>) = 1
    BY <1>1, <2>3, ItemsTail
  <2>5. Head(s.chain).key \in Keys
    BY <2>4 DEF WriteItem
  <2>6. PICK a \in Nat : a = Len(s.chain)
    BY <2>3
  <2>e. Len(s.tx) = 0 /\ Cardinality(s.lost) = 0 /\ 0 \in Nat
    BY <1>1, FS_EmptySet
  <2>7. a <= writes /\ a - 1 \in Nat
    <3>1. PICK l \in 0..writes : l = Pending(s)
      BY <2>3, TypedLengths, Zenon
    <3>2. Pending(s) = a + 0 + 0
      BY <2>6, <2>e, Zenon DEF Pending
    <3>3. Len(s.chain) # 0
      BY <1>1, <2>3
    <3>. QED
      BY <2>6, <3>1, <3>2, <3>3
  <2>8. (a - 1) + 1 + 0 <= writes /\ (a - 1) + 0 + 0 <= writes /\ 1 \in Nat
    BY <2>3, <2>7
  <2>9. /\ x.chain \in Seq(WriteItem) /\ x.tx \in Seq(WriteItem) /\ Len(x.tx) <= 1
        /\ Len(x.chain) = a - 1 /\ (Len(x.tx) = 1 \/ Len(x.tx) = 0)
    <3>1. <<>> \in Seq(WriteItem) /\ Len(<<>>) = 0
      OBVIOUS
    <3>2. x.chain = Tail(s.chain) /\ (x.tx = <<Head(s.chain)>> \/ x.tx = <<>>)
      BY <2>1
    <3>3. x.chain \in Seq(WriteItem) /\ Len(x.chain) = a - 1
      <4>1. Len(s.chain) - 1 = a - 1
        BY <2>6
      <4>. QED
        BY <2>4, <3>2, <4>1, Zenon
    <3>4. x.tx \in Seq(WriteItem) /\ (Len(x.tx) = 1 \/ Len(x.tx) = 0)
      <4>1. CASE x.tx = <<>>
        BY <3>1, <4>1, Zenon
      <4>2. CASE x.tx = <<Head(s.chain)>>
        BY <2>4, <4>2, Zenon
      <4>. QED
        BY <3>2, <4>1, <4>2
    <3>5. Len(x.tx) <= 1
      <4>1. PICK n : n = Len(x.tx)
        OBVIOUS
      <4>2. n = 1 \/ n = 0
        BY <3>4, <4>1, Zenon
      <4>3. n <= 1
        BY <4>2
      <4>. QED
        BY <4>1, <4>3, Zenon
    <3>. QED
      BY <3>3, <3>4, <3>5, Zenon
  <2>10. Pending(x) <= writes
    <3>1. Cardinality(x.lost) = 0
      BY <2>1, <2>e
    <3>2. CASE Len(x.tx) = 1
      BY <2>8, <2>9, <3>1, <3>2, Zenon DEF Pending
    <3>3. CASE Len(x.tx) = 0
      BY <2>8, <2>9, <3>1, <3>3, Zenon DEF Pending
    <3>. QED
      BY <2>9, <3>2, <3>3
  <2>11. x.closing \in -1..MaxWrites
    BY <2>1, <2>3, WaitedTyped
  <2>12. x.unsaved \subseteq Keys /\ x.foreign \subseteq Keys
    BY <2>1, <2>3, <2>5
  <2>c. x.lost \subseteq Keys /\ Cardinality(x.lost) \in Nat
    BY <1>1, <2>1, <2>e
  <2> HIDE DEF s, y, z
  <2>13. /\ x.phase = tab[t].phase /\ x.store = tab[t].store /\ x.cache = tab[t].cache
    BY <2>1 DEF s
  <2>. QED
    BY <1>1, <1>4, <2>9, <2>10, <2>11, <2>12, <2>c, <2>13, MovedTyped
<1> HIDE DEF s, y, z
<1>. QED
  BY <1>3, <1>4

LEMMA WriteStopsTyped ==
    ASSUME WritesInv, TypesInv, NEW t \in Tabs, WriteFails(t) \/ WriteAborts(t)
    PROVE  TypesInv'
<1> DEFINE s == tab[t]
           y == Report(Settled(s), Head(s.tx).key)
           z == [s EXCEPT !.tx = <<>>, !.lost = {Head(s.tx).key}]
<1>1. disk' = disk /\ writes' = writes /\ s.tx # <<>>
  BY DEF WriteFails, WriteAborts, database
<1>2. /\ tab = [u \in Tabs |-> tab[u]] /\ s = [f \in Fields |-> s[f]]
      /\ s.tx = <<s.tx[1]>>
  BY <1>1 DEF WritesInv, TabOK
<1>e. s.lost = {}
  BY <1>1 DEF WritesInv, TabOK
<1>3. Becomes(t, y) \/ Becomes(t, z)
  <2>2. CASE WriteFails(t)
    BY <2>2 DEF WriteFails, Becomes
  <2>3. CASE WriteAborts(t)
    BY <1>2, <2>3 DEF WriteAborts, Becomes, Fields
  <2>. QED
    BY <2>2, <2>3
<1>4. ASSUME NEW x, Becomes(t, x), x = y \/ x = z PROVE TypesInv'
  <2>1. /\ x.phase = s.phase /\ x.store = s.store /\ x.cache = s.cache
        /\ x.tx = <<>> /\ x.chain = s.chain /\ x.foreign = s.foreign
        /\ \/ /\ x.lost = {Head(s.tx).key} /\ x.unsaved = s.unsaved
              /\ x.closing = s.closing
           \/ /\ x.lost = s.lost /\ x.unsaved = s.unsaved \cup {Head(s.tx).key}
              /\ x.closing = Waited(s.closing)
    BY <1>2, <1>4 DEF Fields, Report, Settled, Waited
  <2>2. TypesInv /\ t \in Tabs
    OBVIOUS
  <2>3. /\ TabTyped(s, writes) /\ writes \in Nat
        /\ s.chain \in Seq(WriteItem) /\ s.tx \in Seq(WriteItem)
        /\ s.closing \in -1..MaxWrites /\ s.unsaved \subseteq Keys /\ s.foreign \subseteq Keys
    BY TypedParts
  <2>4. Head(s.tx) \in WriteItem
    BY <1>1, <2>3, ItemsTail
  <2>5. Head(s.tx).key \in Keys
    BY <2>4 DEF WriteItem
  <2>6. PICK a \in Nat : a = Len(s.chain)
    BY <2>3
  <2>e. /\ Len(s.tx) = 1 /\ Len(x.tx) = 0 /\ Len(x.chain) = a
        /\ Cardinality(s.lost) = 0 /\ 0 \in Nat /\ 1 \in Nat
    <3>1. Len(<<s.tx[1]>>) = 1 /\ Len(<<>>) = 0 /\ Cardinality({}) = 0
      BY FS_EmptySet
    <3>. QED
      BY <1>2, <1>e, <2>1, <2>6, <3>1
  <2>7. a + 1 + 0 <= writes
    <3>1. PICK l \in 0..writes : l = Pending(s)
      BY <2>3, TypedLengths, Zenon
    <3>2. Pending(s) = a + 1 + 0
      BY <2>6, <2>e, Zenon DEF Pending
    <3>. QED
      BY <3>1, <3>2
  <2>8. a + 0 + 0 <= writes /\ a + 0 + 1 <= writes
    BY <2>3, <2>7
  <2>9. /\ x.chain \in Seq(WriteItem) /\ x.tx \in Seq(WriteItem) /\ Len(x.tx) <= 1
    BY <2>1, <2>3
  <2>b. /\ x.lost \subseteq Keys
        /\ Cardinality(x.lost) = 0 \/ Cardinality(x.lost) = 1
    <3>1. Cardinality({Head(s.tx).key}) = 1
      BY FS_Singleton
    <3>. QED
      BY <1>e, <2>1, <2>5, <2>e, <3>1
  <2>10. Pending(x) <= writes
    <3>1. Pending(x) = a + 0 + 0 \/ Pending(x) = a + 0 + 1
      BY <2>6, <2>e, <2>b, Zenon DEF Pending
    <3>. QED
      BY <2>8, <3>1, Zenon
  <2>11. x.closing \in -1..MaxWrites
    BY <2>1, <2>3, WaitedTyped
  <2>12. x.unsaved \subseteq Keys /\ x.foreign \subseteq Keys
    BY <2>1, <2>3, <2>5
  <2>c. Cardinality(x.lost) \in Nat
    BY <2>b
  <2> HIDE DEF s, y, z
  <2>13. /\ x.phase = tab[t].phase /\ x.store = tab[t].store /\ x.cache = tab[t].cache
    BY <2>1 DEF s
  <2>. QED
    BY <1>1, <1>4, <2>9, <2>10, <2>11, <2>12, <2>b, <2>c, <2>13, MovedTyped
<1> HIDE DEF s, y, z
<1>. QED
  BY <1>3, <1>4

\* The commit of t's write: the other tabs on its object store learn of the key.
LEMMA CommitTyped ==
    ASSUME WritesInv, TypesInv, NEW t \in Tabs, tab[t].tx # <<>>, writes' = writes,
           disk' = [disk EXCEPT ![tab[t].store][Head(tab[t].tx).key] = Head(tab[t].tx).rec],
           NEW x, TabTyped(x, writes),
           tab' = [u \in Tabs |->
                IF u = t THEN x
                ELSE IF Usable(u) /\ tab[u].store = tab[t].store
                THEN [tab[u] EXCEPT !.foreign = @ \cup {Head(tab[t].tx).key}]
                ELSE tab[u]]
    PROVE  TypesInv'
<1>1. Head(tab[t].tx) \in WriteItem
  <2>1. tab[t].tx \in Seq(WriteItem)
    BY TypedParts
  <2>. QED
    BY <2>1, ItemsTail
<1>2. PICK k \in Keys : k = Head(tab[t].tx).key
  BY <1>1 DEF WriteItem
<1>3. PICK r \in Records : r = Head(tab[t].tx).rec
  BY <1>1 DEF WriteItem
<1>4. disk' \in [Stores -> [Keys -> Records]]
  <2>1. disk' = [disk EXCEPT ![tab[t].store][k] = r]
    BY <1>2, <1>3
  <2>2. disk \in [Stores -> [Keys -> Records]]
    BY DEF TypesInv
  <2>3. tab[t].store \in Stores
    BY DEF WritesInv, TabOK, Stands
  <2>4. PICK st \in Stores : st = tab[t].store
    BY <2>3
  <2>5. PICK row : row = [disk[st] EXCEPT ![k] = r]
    OBVIOUS
  <2>6. disk' = [disk EXCEPT ![st] = row]
    BY <2>1, <2>4, <2>5
  <2>7. disk[st] \in [Keys -> Records]
    BY <2>2
  <2>8. row \in [Keys -> Records]
    BY <2>5, <2>7
  <2>. QED
    BY <2>2, <2>6, <2>8
<1>5. ASSUME NEW u \in Tabs PROVE TabTyped(tab'[u], writes)
  <2>1. TabTyped(tab[u], writes) /\ tab[u].foreign \subseteq Keys /\ writes \in Nat
    BY TypedParts
  <2>2. CASE u = t
    BY <2>2
  <2>3. CASE u # t /\ Usable(u) /\ tab[u].store = tab[t].store
    <3>1. PICK w : w = tab[u] /\ w = [f \in Fields |-> w[f]]
      BY DEF WritesInv, TabOK
    <3>2. PICK y : y = [w EXCEPT !.foreign = w.foreign \cup {k}]
      OBVIOUS
    <3>3. tab'[u] = y
      BY <1>2, <2>3, <3>1, <3>2
    <3>4. /\ y.phase = w.phase /\ y.store = w.store /\ y.cache = w.cache
          /\ y.chain = w.chain /\ y.tx = w.tx /\ y.closing = w.closing
          /\ y.lost = w.lost /\ y.unsaved = w.unsaved /\ y.foreign = w.foreign \cup {k}
      BY <3>1, <3>2 DEF Fields
    <3>5. y.foreign \subseteq Keys
      BY <2>1, <3>1, <3>4
    <3>6. TabTyped(w, writes)
      BY <2>1, <3>1
    <3>7. TabTyped(y, writes)
      BY <3>4, <3>5, <3>6, Zenon DEF TabTyped, Pending
    <3>. QED
      BY <3>3, <3>7
  <2>4. CASE u # t /\ ~(Usable(u) /\ tab[u].store = tab[t].store)
    <3>1. tab'[u] = tab[u]
      BY <2>4
    <3>. QED
      BY <2>1, <3>1
  <2>. QED
    BY <2>2, <2>3, <2>4
<1>6. writes' \in 0..MaxWrites
  BY DEF TypesInv
<1>. QED
  BY <1>4, <1>5, <1>6 DEF TypesInv

LEMMA WriteEndsTyped ==
    ASSUME WritesInv, TypesInv, NEW t \in Tabs, WriteEnds(t)
    PROVE  TypesInv'
<1> DEFINE s == tab[t]
           k == Head(s.tx).key
           x == [Settled(s) EXCEPT !.unsaved = s.unsaved \ {k}, !.foreign = s.foreign \ {k}]
<1>1. s.tx # <<>> /\ writes' = writes /\ s = [f \in Fields |-> s[f]]
  BY DEF WritesInv, TabOK, WriteEnds
<1>2. disk' = [disk EXCEPT ![tab[t].store][Head(tab[t].tx).key] = Head(tab[t].tx).rec]
  BY DEF WriteEnds, Committed
<1>3. tab' = [u \in Tabs |->
                IF u = t THEN x
                ELSE IF Usable(u) /\ tab[u].store = tab[t].store
                THEN [tab[u] EXCEPT !.foreign = @ \cup {Head(tab[t].tx).key}]
                ELSE tab[u]]
  <2>1. x = [Settled(tab[t]) EXCEPT !.unsaved = @ \ {k}, !.foreign = @ \ {k}]
    BY <1>1 DEF Settled, Fields
  <2> HIDE DEF x
  <2>. QED
    BY <2>1 DEF WriteEnds, Committed
<1>4. /\ x.phase = s.phase /\ x.store = s.store /\ x.cache = s.cache
      /\ x.chain = s.chain /\ x.tx = <<>> /\ x.lost = s.lost
      /\ x.closing = Waited(s.closing)
      /\ x.unsaved = s.unsaved \ {k} /\ x.foreign = s.foreign \ {k}
  BY <1>1 DEF Fields, Settled, Waited
<1>5. /\ TabTyped(s, writes) /\ writes \in Nat
      /\ s.chain \in Seq(WriteItem) /\ s.tx \in Seq(WriteItem)
      /\ s.closing \in -1..MaxWrites /\ s.unsaved \subseteq Keys /\ s.foreign \subseteq Keys
  BY TypedParts
<1>6. x.unsaved \subseteq Keys /\ x.foreign \subseteq Keys /\ x.closing \in -1..MaxWrites
  BY <1>4, <1>5, WaitedTyped
<1>7. <<>> \in Seq(WriteItem) /\ Len(<<>>) = 0
  OBVIOUS
<1>c. s.lost \subseteq Keys /\ Cardinality(s.lost) \in Nat
  BY TypedParts
<1>8. PICK a \in Nat, b \in Nat, c \in Nat :
        a = Len(s.chain) /\ b = Len(s.tx) /\ c = Cardinality(s.lost)
  BY <1>5, <1>c
<1>9. a + b + c \in 0..writes
  <2>1. Pending(s) \in 0..writes /\ Pending(s) = a + b + c
    BY <1>5, <1>8, TypedLengths, Zenon DEF Pending
  <2>. QED
    BY <2>1, Zenon
<1> HIDE DEF s, k, x
<1>10. Pending(x) <= writes /\ Len(x.tx) <= 1
  <2>1. a + 0 + c <= writes /\ 0 <= 1 /\ 0 \in Nat
    BY <1>5, <1>9
  <2>2. Len(x.chain) = a /\ Len(x.tx) = 0 /\ Cardinality(x.lost) = c
    BY <1>4, <1>7, <1>8, Zenon
  <2>3. Pending(x) = a + 0 + c
    BY <2>1, <2>2, Zenon DEF Pending
  <2>. QED
    BY <2>1, <2>2, <2>3, Zenon
<1>11. TabTyped(x, writes)
  <2>1. s.phase \in Phases /\ s.store \in Stores \cup {None} /\ s.cache \in [Keys -> Records]
    BY <1>5, Zenon DEF TabTyped
  <2>2. x.chain \in Seq(WriteItem) /\ x.tx \in Seq(WriteItem)
    BY <1>4, <1>5, <1>7, Zenon
  <2>. QED
    BY <1>4, <1>6, <1>c, <1>10, <2>1, <2>2, Zenon DEF TabTyped
<1>12. tab[t].tx # <<>>
  BY <1>1 DEF s
<1>. QED
  BY <1>1, <1>2, <1>3, <1>11, <1>12, CommitTyped

LEMMA ReloadTyped ==
    ASSUME WritesInv, TypesInv, NEW t \in Tabs, Reload(t)
    PROVE  TypesInv'
<1>0. writes' = writes /\ writes \in Nat
  BY DEF Reload, TypesInv
<1>1. CASE Failed(t) /\ UNCHANGED disk
  BY <1>0, <1>1, PhasesTyped DEF Failed, Becomes
<1>2. CASE ~(Failed(t) /\ UNCHANGED disk)
  <2>1. /\ tab[t].tx # <<>>
        /\ disk' = [disk EXCEPT ![tab[t].store][Head(tab[t].tx).key] = Head(tab[t].tx).rec]
        /\ tab' = [u \in Tabs |->
                IF u = t THEN NewTab
                ELSE IF Usable(u) /\ tab[u].store = tab[t].store
                THEN [tab[u] EXCEPT !.foreign = @ \cup {Head(tab[t].tx).key}]
                ELSE tab[u]]
    BY <1>2 DEF Reload
  <2>2. TabTyped(NewTab, writes)
    BY <1>0, NewTabTyped
  <2>. QED
    BY <1>0, <2>1, <2>2, CommitTyped
<1>. QED
  BY <1>1, <1>2

LEMMA LoadTyped ==
    ASSUME WritesInv, SchemaInv, TypesInv, NEW t \in Tabs, Load(t)
    PROVE  TypesInv'
<1> DEFINE s == tab[t]
           x == [s EXCEPT !.phase = "open", !.cache = disk[s.store]]
<1>1. /\ disk' = disk /\ writes' = writes /\ s.phase = "loading"
      /\ s = [f \in Fields |-> s[f]]
      /\ tab = [u \in Tabs |-> tab[u]]
      /\ s.store \in Stores
  BY DEF Load, database, WritesInv, TabOK
<1>2. tab'[t] = x /\ \A u \in Tabs \ {t} : tab'[u] = tab[u]
  BY <1>1 DEF Load
<1>3. /\ x.phase = "open" /\ x.cache = disk[s.store] /\ x.store = s.store
      /\ x.chain = s.chain /\ x.tx = s.tx /\ x.closing = s.closing
      /\ x.lost = s.lost /\ x.unsaved = s.unsaved /\ x.foreign = s.foreign
  BY <1>1 DEF Fields
<1>4. disk \in [Stores -> [Keys -> Records]] /\ writes \in Nat /\ writes <= MaxWrites
  BY IndexedDbAssumption DEF TypesInv
<1>5. x.cache \in [Keys -> Records] /\ x.phase \in Phases
  BY <1>1, <1>3, <1>4 DEF Phases
<1>6. TabTyped(s, writes)
  BY TypedParts
<1> HIDE DEF s, x
<1>7. TabTyped(x, writes)
  BY <1>3, <1>5, <1>6, Zenon DEF TabTyped, Pending
<1>. QED
  BY <1>1, <1>2, <1>4, <1>7, TypedStep

-----------------------------------------------------------------------------
(* The version of the database *)

\* One version per object store at most: an upgrade asks for the next one, for
\* an object store that is not there.
CountInv ==
    /\ schema \subseteq Stores /\ dbVersion <= 1 + Cardinality(schema)
    /\ upgrade # None => /\ upgrade.want = dbVersion + 1
                         /\ upgrade.store \in Stores \ schema
    /\ \A t \in Tabs :
        tab[t].phase = "upgrading" =>
            /\ tab[t].want <= dbVersion + 1
            /\ tab[t].want = dbVersion + 1 => tab[t].store \notin schema

GhostsInv ==
    /\ ghosts \subseteq Tabs
    /\ upgrade # None => upgrade.tell \subseteq Tabs /\ upgrade.blocked \in BOOLEAN

\* A tab that waits for an upgrade, waits for it as before.
Waiting(a, b) ==
    b.phase = "upgrading" =>
        a.phase = "upgrading" /\ b.want = a.want /\ b.store = a.store

LEMMA CountStep ==
    ASSUME CountInv, schema' = schema, dbVersion' = dbVersion,
           \/ upgrade' = None
           \/ upgrade # None /\ upgrade'.want = upgrade.want /\ upgrade'.store = upgrade.store,
           \A u \in Tabs : Waiting(tab[u], tab'[u])
    PROVE  CountInv'
BY DEF CountInv, Waiting

LEMMA SameUpgrade ==
    ASSUME upgrade' = upgrade
    PROVE  \/ upgrade' = None
           \/ upgrade # None /\ upgrade'.want = upgrade.want /\ upgrade'.store = upgrade.store
OBVIOUS

\* One tab becomes what does not wait for an upgrade.
LEMMA CountBecomes ==
    ASSUME WritesInv, CountInv, schema' = schema, dbVersion' = dbVersion,
           upgrade' = None \/ upgrade' = upgrade,
           NEW t \in Tabs, NEW x, Becomes(t, x), x.phase # "upgrading"
    PROVE  CountInv'
<1>1. \A u \in Tabs : Waiting(tab[u], tab'[u])
  BY DEF WritesInv, Becomes, Waiting
<1>. QED
  BY <1>1, CountStep, SameUpgrade

LEMMA TabsAreRecords ==
    ASSUME WritesInv
    PROVE  /\ tab = [u \in Tabs |-> tab[u]]
           /\ \A u \in Tabs : tab[u] = [f \in Fields |-> tab[u][f]]
BY DEF WritesInv, TabOK

LEMMA NewTabPhase == NewTab.phase = "none"
BY DEF NewTab

LEMMA WritesCount ==
    ASSUME WritesInv, SchemaInv, CountInv, NEW t \in Tabs,
           \/ \E k \in Keys : Delete(t, k) \/ \E val \in Values : Put(t, k, val)
           \/ StartWrite(t) \/ StartThrows(t)
           \/ WriteEnds(t) \/ WriteFails(t) \/ WriteAborts(t)
           \/ Close(t) \/ CloseReturns(t) \/ VersionChange(t)
           \/ Load(t) \/ LoadFails(t) \/ Reload(t)
    PROVE  CountInv'
<1>1. /\ tab = [u \in Tabs |-> tab[u]]
      /\ \A u \in Tabs : tab[u] = [f \in Fields |-> tab[u][f]]
  BY TabsAreRecords
<1>2. schema' = schema /\ dbVersion' = dbVersion
  BY DEF Delete, Put, StartWrite, StartThrows, WriteEnds, WriteFails, WriteAborts, Close,
         CloseReturns, VersionChange, Load, LoadFails, Reload, database
<1>3. \/ upgrade' = None
      \/ upgrade # None /\ upgrade'.want = upgrade.want /\ upgrade'.store = upgrade.store
  <2>1. \/ upgrade' = upgrade \/ upgrade' = None
        \/ upgrade # None /\ upgrade' = [upgrade EXCEPT !.tell = @ \ {t}]
    BY DEF Delete, Put, StartWrite, StartThrows, WriteEnds, WriteFails, WriteAborts, Close,
           CloseReturns, VersionChange, Load, LoadFails, Reload, database
  <2>2. upgrade # None =>
            upgrade = [f \in {"tab", "want", "store", "tell", "blocked"} |-> upgrade[f]]
    BY DEF SchemaInv, UpgradeOK
  <2>. QED
    BY <2>1, <2>2
<1>4. ASSUME NEW u \in Tabs PROVE Waiting(tab[u], tab'[u])
  <2>0. Still(tab[u], tab'[u]) => Waiting(tab[u], tab'[u])
    BY DEF Still, Waiting
  <2>1. CASE \E k \in Keys : Delete(t, k) \/ \E val \in Values : Put(t, k, val)
    <3>1. PICK k, rec, chain :
            tab' = [tab EXCEPT ![t].cache[k] = rec, ![t].chain = chain]
      BY <2>1 DEF Delete, Put
    <3>2. Still(tab[u], tab'[u])
      BY <1>1, <3>1 DEF Still, Fields
    <3>. QED
      BY <2>0, <3>2
  <2>2. CASE StartWrite(t) \/ WriteAborts(t) \/ Close(t)
    <3>1. CASE StartWrite(t)
      BY <1>1, <3>1 DEF StartWrite, Waiting, Fields
    <3>2. CASE WriteAborts(t)
      BY <1>1, <3>2 DEF WriteAborts, Waiting, Fields
    <3>3. CASE Close(t)
      BY <1>1, <3>3 DEF Close, Waiting, Fields
    <3>. QED
      BY <2>2, <3>1, <3>2, <3>3
  <2>3. CASE StartThrows(t) \/ WriteFails(t)
    <3>1. CASE StartThrows(t)
      BY <1>1, <3>1 DEF StartThrows, Report, Settled, Waiting, Fields
    <3>2. CASE WriteFails(t)
      BY <1>1, <3>2 DEF WriteFails, Report, Settled, Waiting, Fields
    <3>. QED
      BY <2>3, <3>1, <3>2
  <2>4. CASE WriteEnds(t)
    BY <1>1, <2>4 DEF WriteEnds, Committed, Settled, Waiting, Fields
  <2>5. CASE CloseReturns(t) \/ VersionChange(t) \/ Load(t)
    <3>1. CASE CloseReturns(t)
      BY <1>1, <3>1 DEF CloseReturns, Waiting, Fields
    <3>2. CASE VersionChange(t)
      BY <1>1, <3>2 DEF VersionChange, Waiting, Fields
    <3>3. CASE Load(t)
      BY <1>1, <3>3 DEF Load, Waiting, Fields
    <3>. QED
      BY <2>5, <3>1, <3>2, <3>3
  <2>6. CASE LoadFails(t)
    BY <1>1, <2>6, NewTabPhase DEF LoadFails, Failed, Waiting
  <2>7. CASE Reload(t)
    BY <1>1, <2>7, NewTabPhase DEF Reload, Failed, Waiting, Fields
  <2>. QED
    BY <2>1, <2>2, <2>3, <2>4, <2>5, <2>6, <2>7
<1>. QED
  BY <1>2, <1>3, <1>4, CountStep

LEMMA OpensCount ==
    ASSUME WritesInv, SchemaInv, CountInv, NEW t \in Tabs,
           \/ \E s \in Stores : Open(t, s)
           \/ OpenWithoutUpgrade(t) \/ OpenTooOld(t) \/ OpenFails(t)
    PROVE  CountInv'
<1>1. /\ tab = [u \in Tabs |-> tab[u]]
      /\ \A u \in Tabs : tab[u] = [f \in Fields |-> tab[u][f]]
  BY TabsAreRecords
<1>2. schema' = schema /\ dbVersion' = dbVersion /\ upgrade' = upgrade
  BY DEF Open, OpenWithoutUpgrade, OpenTooOld, OpenFails, database
<1>3. ASSUME NEW u \in Tabs PROVE Waiting(tab[u], tab'[u])
  BY <1>1, NewTabPhase DEF Open, OpenWithoutUpgrade, OpenTooOld, OpenFails, Failed,
         Waiting, Fields
<1>. QED
  BY <1>2, <1>3, CountStep, SameUpgrade

LEMMA ProbeCount ==
    ASSUME WritesInv, SchemaInv, CountInv, NEW t \in Tabs, Probe(t)
    PROVE  CountInv'
<1>1. /\ tab = [u \in Tabs |-> tab[u]]
      /\ \A u \in Tabs : tab[u] = [f \in Fields |-> tab[u][f]]
  BY TabsAreRecords
<1>2. /\ upgrade = None /\ upgrade' = None /\ tab[t].phase = "probing"
      /\ tab[t].store \in Stores
      /\ dbVersion \in Nat
      /\ \A u \in Tabs : tab[u].want \in Nat
  BY DEF Probe, WritesInv, TabOK, SchemaInv, Fits
<1>3. \/ dbVersion = 0 /\ dbVersion' = 1 /\ schema' = {tab[t].store}
      \/ dbVersion # 0 /\ dbVersion' = dbVersion /\ schema' = schema
  BY DEF Probe
<1>4. schema' \subseteq Stores /\ dbVersion' <= 1 + Cardinality(schema')
  <2>1. Cardinality({tab[t].store}) = 1
    BY FS_Singleton
  <2>2. schema \subseteq Stores /\ dbVersion <= 1 + Cardinality(schema)
    BY DEF CountInv
  <2>3. CASE dbVersion' = 1 /\ schema' = {tab[t].store}
    BY <1>2, <2>1, <2>3
  <2>. QED
    BY <1>3, <2>2, <2>3
<1>5. ASSUME NEW u \in Tabs, tab'[u].phase = "upgrading"
      PROVE  /\ tab'[u].want <= dbVersion' + 1
             /\ tab'[u].want = dbVersion' + 1 => tab'[u].store \notin schema'
  <2>1. CASE u = t
    <3>1. /\ tab[t].store \notin schema'
          /\ tab'[t] = [tab[t] EXCEPT !.phase = "upgrading", !.want = dbVersion + 1]
      <4>1. CASE tab[t].store \in schema'
        BY <1>1, <1>5, <2>1, <4>1 DEF Probe, Fields
      <4>2. CASE tab[t].store \notin schema'
        BY <1>1, <4>2 DEF Probe
      <4>. QED
        BY <4>1, <4>2
    <3>2. tab'[t].want = dbVersion + 1 /\ tab'[t].store = tab[t].store
      BY <1>1, <3>1 DEF Fields
    <3>. QED
      BY <1>2, <1>3, <2>1, <3>1, <3>2
  <2>2. CASE u # t
    <3>1. tab'[u] = tab[u]
      BY <1>1, <2>2 DEF Probe
    <3>2. /\ tab[u].want <= dbVersion + 1
          /\ tab[u].want = dbVersion + 1 => tab[u].store \notin schema
      BY <1>5, <3>1 DEF CountInv
    <3>. QED
      BY <1>2, <1>3, <3>1, <3>2
  <2>. QED
    BY <2>1, <2>2
<1>. QED
  BY <1>2, <1>4, <1>5 DEF CountInv

LEMMA StartUpgradeCount ==
    ASSUME WritesInv, SchemaInv, CountInv, NEW t \in Tabs, StartUpgrade(t)
    PROVE  CountInv'
<1>1. /\ tab' = tab /\ schema' = schema /\ dbVersion' = dbVersion /\ dbVersion \in Nat
      /\ tab[t].phase = "upgrading" /\ tab[t].want \in Nat /\ tab[t].want > dbVersion
      /\ tab[t].store \in Stores
  BY DEF StartUpgrade, SchemaInv, Fits, WritesInv, TabOK
<1>2. upgrade'.want = tab[t].want /\ upgrade'.store = tab[t].store
  BY DEF StartUpgrade
<1>3. tab[t].want <= dbVersion + 1 /\ (tab[t].want = dbVersion + 1 => tab[t].store \notin schema)
  BY <1>1 DEF CountInv
<1>4. tab[t].want = dbVersion + 1
  BY <1>1, <1>3
<1>. QED
  BY <1>1, <1>2, <1>3, <1>4 DEF CountInv

LEMMA BlockedCount ==
    ASSUME WritesInv, SchemaInv, CountInv, Blocked
    PROVE  CountInv'
<1>1. /\ upgrade = [f \in {"tab", "want", "store", "tell", "blocked"} |-> upgrade[f]]
      /\ upgrade.tab \in Tabs /\ upgrade # None
  BY DEF Blocked, SchemaInv, UpgradeOK
<1>2. /\ upgrade' = [upgrade EXCEPT !.blocked = TRUE]
      /\ schema' = schema /\ dbVersion' = dbVersion
      /\ tab' = [tab EXCEPT ![upgrade.tab] = NewTab]
  BY DEF Blocked, Failed
<1>3. upgrade'.want = upgrade.want /\ upgrade'.store = upgrade.store
  BY <1>1, <1>2
<1>4. \A u \in Tabs : Waiting(tab[u], tab'[u])
  BY <1>1, <1>2, NewTabPhase, TabsAreRecords DEF Waiting
<1>. QED
  BY <1>1, <1>2, <1>3, <1>4, CountStep

LEMMA UpgradeFailsCount ==
    ASSUME WritesInv, SchemaInv, CountInv, UpgradeFails
    PROVE  CountInv'
<1>1. /\ upgrade' = None /\ schema' = schema /\ dbVersion' = dbVersion
      /\ tab' = tab \/ tab' = [tab EXCEPT ![upgrade.tab] = NewTab]
  BY DEF UpgradeFails, Failed
<1>2. \A u \in Tabs : Waiting(tab[u], tab'[u])
  BY <1>1, NewTabPhase, TabsAreRecords DEF Waiting
<1>. QED
  BY <1>1, <1>2, CountStep

LEMMA UpgradeCount ==
    ASSUME IsFiniteSet(Stores), WritesInv, SchemaInv, CountInv, Upgrade
    PROVE  CountInv'
<1>1. /\ tab = [u \in Tabs |-> tab[u]]
      /\ \A u \in Tabs : tab[u] = [f \in Fields |-> tab[u][f]]
  BY TabsAreRecords
<1>2. /\ upgrade.want = dbVersion + 1 /\ upgrade.store \in Stores \ schema
      /\ dbVersion \in Nat /\ schema \subseteq Stores /\ dbVersion <= 1 + Cardinality(schema)
      /\ \A u \in Tabs : tab[u].want \in Nat
  BY DEF Upgrade, CountInv, SchemaInv, Fits
<1>3. /\ upgrade' = None /\ dbVersion' = dbVersion + 1
      /\ schema' = schema \cup {upgrade.store}
  BY <1>2 DEF Upgrade
<1>4. dbVersion' <= 1 + Cardinality(schema')
  <2>1. PICK S \in SUBSET Stores : S = schema
    BY <1>2
  <2>2. IsFiniteSet(S) /\ Cardinality(S) \in Nat
    BY FS_Subset, FS_CardinalityType
  <2>3. Cardinality(S \cup {upgrade.store}) = Cardinality(S) + 1
    BY <1>2, <2>1, <2>2, FS_AddElement
  <2>. QED
    BY <1>2, <1>3, <2>1, <2>2, <2>3
<1>5. ASSUME NEW u \in Tabs, tab'[u].phase = "upgrading"
      PROVE  tab'[u].want < dbVersion' + 1
  <2>1. tab'[u] = tab[u]
    BY <1>1, <1>5 DEF Upgrade, Fields
  <2>2. tab[u].want <= dbVersion + 1
    BY <1>5, <2>1 DEF CountInv
  <2>. QED
    BY <1>2, <1>3, <2>1, <2>2
<1>6. \A u \in Tabs : tab'[u].phase = "upgrading" =>
         tab'[u].want <= dbVersion' + 1 /\ tab'[u].want # dbVersion' + 1
  <2>1. ASSUME NEW u \in Tabs, tab'[u].phase = "upgrading"
        PROVE tab'[u].want <= dbVersion' + 1 /\ tab'[u].want # dbVersion' + 1
    <3>1. tab'[u].want < dbVersion' + 1 /\ dbVersion' \in Nat
      BY <1>2, <1>3, <1>5, <2>1
    <3>2. tab'[u].want \in Nat
      BY <1>1, <1>2, <2>1 DEF Upgrade, Fields
    <3>. QED
      BY <3>1, <3>2
  <2>. QED
    BY <2>1
<1>. QED
  BY <1>2, <1>3, <1>4, <1>6 DEF CountInv

\* The connections nobody closes, and the tabs an upgrade has to tell.
LEMMA GhostsKept ==
    ASSUME SchemaInv, GhostsInv, [Next]_vars
    PROVE  GhostsInv'
<1>0. UpgradeOK
  BY DEF SchemaInv
<1>1. CASE Blocked
  <2>1. ghosts' = ghosts /\ upgrade # None /\ upgrade' = [upgrade EXCEPT !.blocked = TRUE]
    BY <1>1 DEF Blocked
  <2>2. upgrade'.tell = upgrade.tell /\ upgrade'.blocked = TRUE
    BY <1>0, <2>1 DEF UpgradeOK
  <2>3. upgrade'.blocked \in BOOLEAN
    BY <2>2, Zenon
  <2>. QED
    BY <2>1, <2>2, <2>3 DEF GhostsInv
<1>2. CASE Upgrade \/ UpgradeFails
  <2>1. upgrade' = None /\ (ghosts' = ghosts \/ ghosts' = ghosts \cup {upgrade.tab})
    BY <1>2 DEF Upgrade, UpgradeFails
  <2>2. upgrade.tab \in Tabs
    BY <1>0, <1>2 DEF Upgrade, UpgradeFails, UpgradeOK
  <2>. QED
    BY <2>1, <2>2 DEF GhostsInv
<1>3. ASSUME NEW t \in Tabs, Step(t) PROVE GhostsInv'
  <2>1. CASE StartUpgrade(t)
    <3>1. ghosts' = ghosts /\ upgrade'.blocked = FALSE
          /\ upgrade'.tell = {u \in Tabs : Connected(u)}
      BY <2>1 DEF StartUpgrade
    <3>2. upgrade'.blocked \in BOOLEAN
      BY <3>1, Zenon
    <3>. QED
      BY <3>1, <3>2 DEF GhostsInv
  <2>2. CASE VersionChange(t)
    <3>1. ghosts' = ghosts /\ upgrade # None /\ upgrade' = [upgrade EXCEPT !.tell = @ \ {t}]
      BY <2>2 DEF VersionChange
    <3>2. upgrade'.tell = upgrade.tell \ {t} /\ upgrade'.blocked = upgrade.blocked
      BY <1>0, <3>1 DEF UpgradeOK
    <3>. QED
      BY <3>1, <3>2 DEF GhostsInv
  <2>3. CASE ~StartUpgrade(t) /\ ~VersionChange(t)
    <3>1. /\ ghosts' \subseteq ghosts \cup {t}
          /\ upgrade' = upgrade \/ upgrade' = None
      BY <1>3, <2>3 DEF Step, Browser, Open, Probe, OpenWithoutUpgrade, OpenTooOld,
         OpenFails, Load, LoadFails, Delete, Put, StartWrite, StartThrows, WriteEnds, WriteFails,
         WriteAborts, Close, CloseReturns, Reload, database
    <3>. QED
      BY <3>1 DEF GhostsInv
  <2>. QED
    BY <2>1, <2>2, <2>3
<1>4. CASE UNCHANGED vars
  BY <1>4 DEF vars, GhostsInv
<1>. QED
  BY <1>1, <1>2, <1>3, <1>4 DEF Next

-----------------------------------------------------------------------------
(* Every behaviour that starts from records of distinct versions *)

LeftDistinct == \A s \in DOMAIN Left, k \in Keys : Distinct(Left[s][k])

TypedInv == IInv /\ TypesInv /\ CountInv /\ GhostsInv

LEMMA InitTyped == ASSUME IsFiniteSet(Stores), LeftDistinct, Init PROVE TypedInv
<1>1. IInv
  BY InitIInv
<1>2. TypesInv
  <2>1. /\ disk = [s \in Stores |-> IF s \in schema THEN Left[s] ELSE NoRecords]
        /\ schema \subseteq DOMAIN Left /\ writes = 0
        /\ tab = [t \in Tabs |-> NewTab]
    BY DEF Init
  <2>2. NoRecords \in [Keys -> Records]
    BY EmptyRecord DEF NoRecords
  <2>3. ASSUME NEW s \in DOMAIN Left PROVE Left[s] \in [Keys -> Records]
    <3>1. Left[s] \in [Keys -> Seq(Entry)] /\ \A k \in Keys : Distinct(Left[s][k])
      BY IndexedDbAssumption DEF LeftDistinct
    <3>2. \A k \in Keys : Left[s][k] \in Records
      BY <3>1 DEF Records
    <3>. QED
      BY <3>1, <3>2
  <2>4. disk \in [Stores -> [Keys -> Records]]
    BY <2>1, <2>2, <2>3
  <2>5. \A t \in Tabs : TabTyped(tab[t], writes)
    BY <2>1, NewTabTyped
  <2>6. writes \in 0..MaxWrites
    BY <2>1, IndexedDbAssumption
  <2>. QED
    BY <2>4, <2>5, <2>6 DEF TypesInv
<1>3. CountInv
  <2>1. /\ dbVersion \in {0, 1} /\ schema \subseteq DOMAIN Left /\ upgrade = None
        /\ \A t \in Tabs : tab[t].phase = "none"
    BY NewTabPhase DEF Init
  <2>2. schema \subseteq Stores
    BY <2>1, IndexedDbAssumption
  <2>3. Cardinality(schema) \in Nat
    BY <2>2, FS_Subset, FS_CardinalityType
  <2>. QED
    BY <2>1, <2>2, <2>3 DEF CountInv
<1>4. GhostsInv
  BY DEF Init, GhostsInv
<1>. QED
  BY <1>1, <1>2, <1>3, <1>4 DEF TypedInv

LEMMA TypesKept ==
    ASSUME WritesInv, SchemaInv, TypesInv, [Next]_vars
    PROVE  TypesInv'
<1>1. CASE UNCHANGED vars
  BY <1>1, NoStepTyped DEF vars
<1>2. CASE Blocked \/ Upgrade \/ UpgradeFails
  BY <1>2, UpgradesTyped
<1>3. ASSUME NEW t \in Tabs, Step(t) PROVE TypesInv'
  <2>1. CASE \/ \E s \in Stores : Open(t, s)
             \/ Probe(t) \/ StartUpgrade(t) \/ OpenWithoutUpgrade(t) \/ OpenTooOld(t)
             \/ OpenFails(t) \/ LoadFails(t) \/ VersionChange(t) \/ Close(t) \/ CloseReturns(t)
    BY <2>1, QueueTyped
  <2>2. CASE Load(t) \/ Reload(t)
    BY <2>2, LoadTyped, ReloadTyped
  <2>3. CASE \E k \in Keys : Delete(t, k) \/ \E val \in Values : Put(t, k, val)
    BY <2>3, DeleteTyped, PutTyped
  <2>4. CASE StartWrite(t) \/ StartThrows(t)
    BY <2>4, StartTyped
  <2>5. CASE WriteEnds(t) \/ WriteFails(t) \/ WriteAborts(t)
    BY <2>5, WriteEndsTyped, WriteStopsTyped
  <2>. QED
    BY <1>3, <2>1, <2>2, <2>3, <2>4, <2>5 DEF Step, Browser
<1>. QED
  BY <1>1, <1>2, <1>3 DEF Next

LEMMA CountKept ==
    ASSUME IsFiniteSet(Stores), WritesInv, SchemaInv, CountInv, [Next]_vars
    PROVE  CountInv'
<1>1. CASE UNCHANGED vars
  BY <1>1 DEF vars, CountInv
<1>2. CASE Blocked \/ Upgrade \/ UpgradeFails
  BY <1>2, BlockedCount, UpgradeCount, UpgradeFailsCount
<1>3. ASSUME NEW t \in Tabs, Step(t) PROVE CountInv'
  <2>1. CASE \/ \E s \in Stores : Open(t, s)
             \/ OpenWithoutUpgrade(t) \/ OpenTooOld(t) \/ OpenFails(t)
    BY <2>1, OpensCount
  <2>2. CASE Probe(t) \/ StartUpgrade(t)
    BY <2>2, ProbeCount, StartUpgradeCount
  <2>3. CASE \/ \E k \in Keys : Delete(t, k) \/ \E val \in Values : Put(t, k, val)
             \/ StartWrite(t) \/ StartThrows(t)
             \/ WriteEnds(t) \/ WriteFails(t) \/ WriteAborts(t)
             \/ Close(t) \/ CloseReturns(t) \/ VersionChange(t)
             \/ Load(t) \/ LoadFails(t) \/ Reload(t)
    BY <2>3, WritesCount
  <2>. QED
    BY <1>3, <2>1, <2>2, <2>3 DEF Step, Browser
<1>. QED
  BY <1>1, <1>2, <1>3 DEF Next

LEMMA TypedIsTypeOK == ASSUME IsFiniteSet(Stores), TypedInv PROVE TypeOK
<1>1. dbVersion \in 0..(1 + Cardinality(Stores))
  <2>1. PICK S \in SUBSET Stores : S = schema /\ dbVersion <= 1 + Cardinality(S)
    BY DEF TypedInv, CountInv
  <2>2. /\ Cardinality(S) \in Nat /\ Cardinality(Stores) \in Nat
        /\ Cardinality(S) <= Cardinality(Stores)
    BY FS_Subset, FS_CardinalityType
  <2>3. dbVersion \in Nat
    BY DEF TypedInv, IInv, SchemaInv
  <2>. QED
    BY <2>1, <2>2, <2>3
<1>2. \A r \in Records : r \in Seq(Entry)
  BY DEF Records
<1>3. disk \in [Stores -> [Keys -> Seq(Entry)]]
  <2>1. disk \in [Stores -> [Keys -> Records]]
    BY DEF TypedInv, TypesInv
  <2>2. ASSUME NEW s \in Stores PROVE disk[s] \in [Keys -> Seq(Entry)]
    BY <1>2, <2>1
  <2>. QED
    BY <2>1, <2>2
<1>4. ASSUME NEW t \in Tabs
      PROVE  /\ tab[t].phase \in Phases
             /\ tab[t].store \in Stores \cup {None}
             /\ tab[t].cache \in [Keys -> Seq(Entry)]
             /\ tab[t].chain \in Seq(Item)
             /\ tab[t].tx \in Seq(Item) /\ Len(tab[t].tx) <= 1
             /\ tab[t].closing \in -1..MaxWrites
             /\ tab[t].lost \cup tab[t].unsaved \cup tab[t].foreign \subseteq Keys
  <2>1. TabTyped(tab[t], writes)
    BY DEF TypedInv, TypesInv
  <2>2. /\ tab[t].phase \in Phases /\ tab[t].store \in Stores \cup {None}
        /\ tab[t].cache \in [Keys -> Records]
        /\ tab[t].chain \in Seq(WriteItem) /\ tab[t].tx \in Seq(WriteItem)
        /\ Len(tab[t].tx) <= 1 /\ tab[t].closing \in -1..MaxWrites
        /\ tab[t].lost \subseteq Keys
        /\ tab[t].unsaved \subseteq Keys /\ tab[t].foreign \subseteq Keys
    BY <2>1, Zenon DEF TabTyped
  <2>3. tab[t].cache \in [Keys -> Seq(Entry)]
    BY <1>2, <2>2
  <2>4. \A w \in WriteItem : w \in Item
    BY <1>2 DEF WriteItem, Item
  <2>5. ASSUME NEW c \in Seq(WriteItem) PROVE c \in Seq(Item)
    <3>1. \A i \in 1..Len(c) : c[i] \in Item
      BY <2>4
    <3>. QED
      BY <3>1
  <2>6. tab[t].lost \cup tab[t].unsaved \cup tab[t].foreign \subseteq Keys
    BY <2>2
  <2>. QED
    BY <2>2, <2>3, <2>5, <2>6, Zenon
<1>5. ASSUME NEW t \in Tabs, NEW k \in Keys
      PROVE  IsInjective([i \in DOMAIN tab[t].cache[k] |-> tab[t].cache[k][i].version])
  <2>1. tab[t].cache \in [Keys -> Records]
    BY Zenon DEF TypedInv, TypesInv, TabTyped
  <2>2. PICK r \in Records : r = tab[t].cache[k]
    BY <2>1
  <2>3. DOMAIN r = 1..Len(r) /\ Distinct(r)
    BY DEF Records
  <2>4. IsInjective([i \in DOMAIN r |-> r[i].version])
    BY <2>3 DEF IsInjective, Distinct
  <2>. QED
    BY <2>2, <2>4
<1>6. schema \subseteq Stores /\ ghosts \subseteq Tabs
  BY DEF TypedInv, CountInv, GhostsInv
<1>7. upgrade # None => /\ upgrade.tab \in Tabs
                        /\ upgrade.tell \subseteq Tabs
                        /\ upgrade.blocked \in BOOLEAN
  BY Zenon DEF TypedInv, IInv, SchemaInv, UpgradeOK, GhostsInv
<1>. QED
  BY <1>1, <1>3, <1>4, <1>5, <1>6, <1>7, Zenon DEF TypeOK

\* Finitely many object stores, and records of earlier releases whose versions
\* are told apart: then no put numbers two versions of a record alike, whatever
\* the tabs read of one another's writes and whatever was written before
\* (nextVersion, put, loadCache); the version of the database never runs ahead
\* of its object stores (openDatabase asks for one version more only for an
\* object store that is not there); and close() never waits for more writes than
\* were made.
THEOREM VersionsOfARecordDiffer ==
    ASSUME IsFiniteSet(Stores), LeftDistinct
    PROVE  Spec => []TypeOK
<1>1. Init => TypedInv
  BY InitTyped
<1>2. TypedInv /\ [Next]_vars => TypedInv'
  <2> SUFFICES ASSUME TypedInv, [Next]_vars PROVE TypedInv'
    OBVIOUS
  <2>1. WritesInv /\ SchemaInv /\ TypesInv /\ CountInv /\ GhostsInv
    BY DEF TypedInv, IInv
  <2>2. IInv'
    BY <2>1, WritesKept, SchemaKept DEF IInv
  <2>3. TypesInv' /\ CountInv' /\ GhostsInv'
    BY <2>1, TypesKept, CountKept, GhostsKept
  <2>. QED
    BY <2>2, <2>3 DEF TypedInv
<1>3. TypedInv => TypeOK
  BY TypedIsTypeOK
<1>. QED
  BY <1>1, <1>2, <1>3, PTL DEF Spec
=============================================================================
