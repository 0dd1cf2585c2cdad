------------------------ MODULE MemoryRefStoreProofs ------------------------
(***************************************************************************)
(* What MemoryRefStore promises, for any set of keys and values and any    *)
(* number of versions: the entries of a key carry versions that go up and  *)
(* are behind next_version, and every put that returned is among them.     *)
(***************************************************************************)
EXTENDS MemoryRefStore, TLAPS

\* A version is minted once, so it tells the entries of a key apart.
VersionsGoUp ==
    \A k \in Keys : \A i, j \in DOMAIN history[k] :
        /\ history[k][i].version < next_version
        /\ i < j => history[k][i].version < history[k][j].version

\* What a put answered stays in the history.
AckedAreEntries ==
    \A a \in acked : \E i \in DOMAIN history[a.key] :
        history[a.key][i] = [version |-> a.version, val |-> a.val]

\* What was freed was minted before.
FreedIsOld == \A f \in freed : f.version < next_version

MemoryInv == TypeOK /\ VersionsGoUp /\ AckedAreEntries /\ FreedIsOld

\* What appending an entry to the history of a key leaves and adds.
LEMMA AppendEntry ==
    ASSUME NEW s \in Seq(Entry), NEW e \in Entry
    PROVE  /\ Append(s, e) \in Seq(Entry)
           /\ Append(s, e) # <<>>
           /\ DOMAIN s = 1..Len(s)
           /\ DOMAIN Append(s, e) = 1..(Len(s) + 1)
           /\ \A i \in 1..Len(s) : Append(s, e)[i] = s[i]
           /\ Append(s, e)[Len(s) + 1] = e
  OBVIOUS

\* Every entry of a history has a version and a value.
LEMMA EntriesTyped ==
    ASSUME NEW s \in Seq(Entry), NEW i \in DOMAIN s
    PROVE  s[i] \in Entry /\ s[i].version \in Nat \ {0}
<1>1. s[i] \in Entry
  OBVIOUS
<1>. QED
  BY <1>1 DEF Entry

LEMMA MemoryInit == Init => MemoryInv
<1> SUFFICES ASSUME Init PROVE MemoryInv
  OBVIOUS
<1>1. TypeOK
  <2>1. <<>> \in Seq(Entry)
    OBVIOUS
  <2>. QED
    BY <2>1, MemoryAssumption DEF Init, TypeOK
<1>2. VersionsGoUp /\ AckedAreEntries /\ FreedIsOld
  BY DEF Init, VersionsGoUp, AckedAreEntries, FreedIsOld
<1>. QED
  BY <1>1, <1>2 DEF MemoryInv

\* A put that stores its entry, whether it returns or fails at its answer.
LEMMA StoredKeepsInv ==
    ASSUME MemoryInv, NEW k \in Keys, NEW val \in Values, Stored(k, val),
           acked' \subseteq acked \cup {[version |-> next_version, key |-> k, val |-> val]},
           freed' \subseteq freed \cup {[version |-> next_version, key |-> k]}
    PROVE  MemoryInv'
<1> DEFINE e == [version |-> next_version, val |-> val]
           a == [version |-> next_version, key |-> k, val |-> val]
<1>1. /\ next_version \in Nat \ {0} /\ next_version <= MaxVersion
      /\ next_version' = next_version + 1
      /\ history \in [Keys -> Seq(Entry)] /\ MaxVersion \in Nat
  BY MemoryAssumption DEF MemoryInv, TypeOK, Stored, MintVersion
<1>2. /\ history' = [history EXCEPT ![k] = Append(@, e)]
      /\ keys' = keys \cup {k} /\ deleted' = deleted \ {k}
      /\ acked' \subseteq acked \cup {a}
  BY DEF Stored
<1>3. e \in Entry /\ history[k] \in Seq(Entry)
  BY <1>1 DEF Entry
<1>4. /\ history'[k] = Append(history[k], e)
      /\ \A j \in Keys \ {k} : history'[j] = history[j]
  BY <1>1, <1>2
<1>5. TypeOK'
  <2>1. history' \in [Keys -> Seq(Entry)]
    BY <1>1, <1>2, <1>3, AppendEntry
  <2>2. a \in [version : 1..MaxVersion, key : Keys, val : Values]
    BY <1>1
  <2>3. next_version' \in 1..(MaxVersion + 1)
    BY <1>1
  <2>4. deleted' \subseteq keys' /\ acked' \subseteq [version : 1..MaxVersion, key : Keys, val : Values]
    BY <1>2, <2>2 DEF MemoryInv, TypeOK
  <2>6. freed' \subseteq [version : 1..MaxVersion, key : Keys]
    <3>1. [version |-> next_version, key |-> k] \in [version : 1..MaxVersion, key : Keys]
      BY <1>1
    <3>. QED
      BY <3>1 DEF MemoryInv, TypeOK
  <2>5. keys' \subseteq Keys /\ \A j \in Keys \ keys' : history'[j] = <<>>
    BY <1>2, <1>4 DEF MemoryInv, TypeOK
  <2>. QED
    BY <2>1, <2>3, <2>4, <2>5, <2>6 DEF TypeOK
<1>6. VersionsGoUp'
  <2>1. ASSUME NEW j \in Keys, NEW p \in DOMAIN history'[j], NEW q \in DOMAIN history'[j]
        PROVE  /\ history'[j][p].version < next_version'
               /\ p < q => history'[j][p].version < history'[j][q].version
    <3>1. CASE j # k
      <4>1. history'[j] = history[j] /\ history[j] \in Seq(Entry)
        BY <1>1, <1>4, <3>1
      <4>2. history[j][p].version \in Nat
        BY <4>1, EntriesTyped
      <4>3. history[j][p].version < next_version
        BY <4>1 DEF MemoryInv, VersionsGoUp
      <4>4. history'[j][p].version < next_version'
        BY <1>1, <4>1, <4>2, <4>3
      <4>5. p < q => history'[j][p].version < history'[j][q].version
        BY <4>1 DEF MemoryInv, VersionsGoUp
      <4>. QED
        BY <4>4, <4>5
    <3>2. CASE j = k
      <4> DEFINE s == history[k]
      <4>1. /\ s \in Seq(Entry) /\ e.version = next_version
            /\ DOMAIN s = 1..Len(s) /\ Len(s) \in Nat
            /\ p \in 1..(Len(s) + 1) /\ q \in 1..(Len(s) + 1)
            /\ \A i \in 1..Len(s) : history'[k][i] = s[i]
            /\ history'[k][Len(s) + 1] = e
        BY <1>3, <1>4, <3>2, AppendEntry
      <4>2. \A i \in 1..Len(s) : s[i].version \in Nat /\ s[i].version < next_version
        BY <4>1, EntriesTyped DEF MemoryInv, VersionsGoUp
      <4>3. \A i, i2 \in 1..Len(s) : i < i2 => s[i].version < s[i2].version
        BY <4>1 DEF MemoryInv, VersionsGoUp
      <4> HIDE DEF s, e
      <4>. QED
        BY <1>1, <3>2, <4>1, <4>2, <4>3
    <3>. QED
      BY <3>1, <3>2
  <2>. QED
    BY <2>1 DEF VersionsGoUp
<1>7. AckedAreEntries'
  <2>1. ASSUME NEW b \in acked'
        PROVE  \E i \in DOMAIN history'[b.key] :
                    history'[b.key][i] = [version |-> b.version, val |-> b.val]
    <3>1. CASE b = a
      <4>1. Len(history[k]) + 1 \in DOMAIN history'[k]
        BY <1>3, <1>4, AppendEntry
      <4>2. history'[k][Len(history[k]) + 1] = e
        BY <1>3, <1>4, AppendEntry
      <4>. QED
        BY <3>1, <4>1, <4>2
    <3>2. CASE b \in acked
      <4>1. PICK i \in DOMAIN history[b.key] :
                    history[b.key][i] = [version |-> b.version, val |-> b.val]
        BY <3>2 DEF MemoryInv, AckedAreEntries
      <4>2. b.key \in Keys
        BY <3>2 DEF MemoryInv, TypeOK
      <4>3. CASE b.key # k
        BY <1>4, <4>1, <4>2, <4>3
      <4>4. CASE b.key = k
        <5>1. i \in 1..Len(history[k]) /\ i \in DOMAIN history'[k]
          BY <1>3, <1>4, <4>1, <4>4, AppendEntry
        <5>2. history'[k][i] = history[k][i]
          BY <1>3, <1>4, <5>1, AppendEntry
        <5>. QED
          BY <4>1, <4>4, <5>1, <5>2
      <4>. QED
        BY <4>3, <4>4
    <3>. QED
      BY <1>2, <3>1, <3>2
  <2>. QED
    BY <2>1 DEF AckedAreEntries
<1>8. FreedIsOld'
  <2>1. ASSUME NEW f \in freed' PROVE f.version < next_version'
    <3>1. CASE f \in freed
      <4>1. f.version \in 1..MaxVersion /\ f.version < next_version
        BY <3>1 DEF MemoryInv, TypeOK, FreedIsOld
      <4>. QED
        BY <1>1, <4>1
    <3>2. CASE f = [version |-> next_version, key |-> k]
      BY <1>1, <3>2
    <3>. QED
      BY <3>1, <3>2
  <2>. QED
    BY <2>1 DEF FreedIsOld
<1>. QED
  BY <1>5, <1>6, <1>7, <1>8 DEF MemoryInv

\* A step that leaves the entries and the answers alone and mints at most one
\* version.
LEMMA OtherStepsKeepInv ==
    ASSUME MemoryInv, history' = history, acked' = acked, freed' = freed,
           next_version' \in 1..(MaxVersion + 1), next_version <= next_version',
           keys \subseteq keys', keys' \subseteq Keys, deleted' \subseteq keys'
    PROVE  MemoryInv'
<1>1. TypeOK'
  BY DEF MemoryInv, TypeOK
<1>2. VersionsGoUp'
  <2>1. ASSUME NEW k \in Keys, NEW i \in DOMAIN history[k]
        PROVE  history[k][i].version < next_version'
    <3>1. history[k][i].version \in Nat /\ history[k][i].version < next_version
      BY EntriesTyped DEF MemoryInv, TypeOK, VersionsGoUp
    <3>. QED
      BY <3>1, MemoryAssumption DEF MemoryInv, TypeOK
  <2>. QED
    BY <2>1 DEF MemoryInv, VersionsGoUp
<1>3. AckedAreEntries'
  BY DEF MemoryInv, AckedAreEntries
<1>4. FreedIsOld'
  <2>1. \A f \in freed : f.version \in Nat /\ f.version < next_version
    BY DEF MemoryInv, TypeOK, FreedIsOld
  <2>2. next_version \in Nat /\ next_version' \in Nat
    BY MemoryAssumption DEF MemoryInv, TypeOK
  <2>. QED
    BY <2>1, <2>2 DEF FreedIsOld
<1>. QED
  BY <1>1, <1>2, <1>3, <1>4 DEF MemoryInv

LEMMA MemoryStep == MemoryInv /\ [Next]_vars => MemoryInv'
<1> SUFFICES ASSUME MemoryInv, [Next]_vars PROVE MemoryInv'
  OBVIOUS
<1>0. /\ next_version \in 1..(MaxVersion + 1) /\ MaxVersion \in Nat
      /\ keys \subseteq Keys /\ deleted \subseteq keys
  BY MemoryAssumption DEF MemoryInv, TypeOK
<1>1. CASE PutFailsEarly
  <2>1. /\ next_version' \in 1..(MaxVersion + 1) /\ next_version <= next_version'
        /\ history' = history /\ acked' = acked /\ freed' = freed /\ keys' = keys /\ deleted' = deleted
    BY <1>0, <1>1 DEF PutFailsEarly, MintVersion
  <2>. QED
    BY <1>0, <2>1, OtherStepsKeepInv
<1>2. ASSUME NEW k \in Keys, NEW val \in Values, Put(k, val) PROVE MemoryInv'
  BY <1>2, StoredKeepsInv DEF Put
<1>6. ASSUME NEW k \in Keys, NEW val \in Values, PutFailsAtAnswer(k, val)
      PROVE  MemoryInv'
  BY <1>6, StoredKeepsInv DEF PutFailsAtAnswer
<1>3. ASSUME NEW k \in Keys, PutFailsAtAppend(k) PROVE MemoryInv'
  <2>1. /\ next_version' \in 1..(MaxVersion + 1) /\ next_version <= next_version'
        /\ history' = history /\ acked' = acked /\ freed' = freed /\ keys' = keys \cup {k}
        /\ deleted' = deleted
    BY <1>0, <1>3 DEF PutFailsAtAppend, MintVersion
  <2>. QED
    BY <1>0, <2>1, OtherStepsKeepInv
<1>4. ASSUME NEW k \in Keys, Delete(k) PROVE MemoryInv'
  <2>1. /\ next_version' = next_version /\ next_version <= next_version'
        /\ history' = history /\ acked' = acked /\ freed' = freed /\ keys' = keys
        /\ deleted' \subseteq keys'
    BY <1>0, <1>4 DEF Delete
  <2>. QED
    BY <1>0, <2>1, OtherStepsKeepInv
<1>5. CASE UNCHANGED vars
  <2>1. /\ next_version' = next_version /\ next_version <= next_version'
        /\ history' = history /\ acked' = acked /\ freed' = freed /\ keys' = keys /\ deleted' = deleted
    BY <1>0, <1>5 DEF vars
  <2>. QED
    BY <1>0, <2>1, OtherStepsKeepInv
<1>. QED
  BY <1>1, <1>2, <1>3, <1>4, <1>5, <1>6 DEF Next

\* The store stays well typed.
THEOREM MemoryTypeCorrect == Spec => []TypeOK
<1>1. MemoryInv => TypeOK
  BY DEF MemoryInv
<1>. QED
  BY MemoryInit, MemoryStep, <1>1, PTL DEF Spec

\* The scan for the version of an entry that was not freed, with no freed entry
\* before it, ends there.
LEMMA GetsAtFinds ==
    ASSUME MemoryInv, NEW k \in Keys, NEW i \in DOMAIN history[k],
           \A f \in freed : f.key = k => f.version > history[k][i].version
    PROVE  GetsAt(k, history[k][i].version) = {history[k][i].val}
<1> DEFINE v == history[k][i].version
           found == {p \in DOMAIN history[k] :
                        /\ Matches(k, p, v) \/ Freed(k, p)
                        /\ \A j \in 1..(p - 1) : ~Matches(k, j, v)}
<1>1. history[k] \in Seq(Entry) /\ DOMAIN history[k] = 1..Len(history[k])
  BY DEF MemoryInv, TypeOK
<1>2. /\ \A p \in DOMAIN history[k] : history[k][p].version \in Nat
      /\ \A p, q \in DOMAIN history[k] : p < q => history[k][p].version < history[k][q].version
  BY <1>1, EntriesTyped DEF MemoryInv, VersionsGoUp
<1>3. ASSUME NEW p \in DOMAIN history[k], Freed(k, p) PROVE history[k][p].version > v
  <2> DEFINE f == [version |-> history[k][p].version, key |-> k]
  <2>1. f \in freed /\ f.key = k /\ f.version = history[k][p].version
    BY <1>3 DEF Freed
  <2>. QED
    BY <2>1
<1>4. ~Freed(k, i)
  BY <1>2, <1>3
<1>5. Matches(k, i, v)
  BY <1>4 DEF Matches
<1>6. ASSUME NEW p \in DOMAIN history[k], Matches(k, p, v) PROVE p = i
  <2>1. history[k][p].version = v /\ p \in Int /\ i \in Int
    BY <1>1, <1>6 DEF Matches
  <2>. QED
    BY <1>2, <2>1
<1>7. i \in found
  <2>1. ASSUME NEW j \in 1..(i - 1) PROVE ~Matches(k, j, v)
    <3>1. j \in DOMAIN history[k] /\ j # i
      BY <1>1
    <3>. QED
      BY <1>6, <3>1
  <2>. QED
    BY <1>5, <2>1
<1>8. ASSUME NEW p \in found PROVE p = i
  <2>1. CASE Matches(k, p, v)
    BY <1>6, <2>1
  <2>2. CASE Freed(k, p)
    <3>1. history[k][p].version > v /\ p \in DOMAIN history[k]
      BY <1>3, <2>2
    <3>2. p \in Int /\ i \in Int /\ i >= 1
      BY <1>1
    <3>3. ~(p < i)
      BY <1>2, <3>1
    <3>4. ~(i < p)
      <4>1. i < p => i \in 1..(p - 1)
        BY <3>2
      <4>. QED
        BY <1>5, <4>1
    <3>. QED
      BY <3>2, <3>3, <3>4
  <2>. QED
    BY <2>1, <2>2
<1>9. found = {i}
  BY <1>7, <1>8
<1>10. ValueOf(k, i) = {history[k][i].val}
  BY <1>4 DEF ValueOf
<1>11. GetsAt(k, v) = UNION {ValueOf(k, p) : p \in found}
  <2>1. ~(\A p \in DOMAIN history[k] : ~Matches(k, p, v))
    BY <1>5
  <2>. QED
    BY <2>1, Zenon DEF GetsAt
<1> HIDE DEF found
<1>. QED
  BY <1>9, <1>10, <1>11

\* A version a put returned reads back the value put, for as long as the store
\* lives and whatever later puts free.
THEOREM PinnedReadsAreStable == Spec => []PinnedReadsSurvive
<1>1. ASSUME MemoryInv PROVE PinnedReadsSurvive
  <2>1. ASSUME NEW a \in acked,
               \A f \in freed : f.key = a.key => f.version > a.version
        PROVE  GetsAt(a.key, a.version) = {a.val}
    <3>1. PICK i \in DOMAIN history[a.key] :
                history[a.key][i] = [version |-> a.version, val |-> a.val]
      BY <1>1 DEF MemoryInv, AckedAreEntries
    <3>2. a.key \in Keys
      BY <1>1 DEF MemoryInv, TypeOK
    <3>3. history[a.key][i].version = a.version /\ history[a.key][i].val = a.val
      BY <3>1
    <3>4. GetsAt(a.key, history[a.key][i].version) = {history[a.key][i].val}
      BY <1>1, <2>1, <3>2, <3>3, GetsAtFinds
    <3>. QED
      BY <3>3, <3>4
  <2>. QED
    BY <2>1 DEF PinnedReadsSurvive
<1>. QED
  BY MemoryInit, MemoryStep, <1>1, PTL DEF Spec

\* A value is read where the history is not empty.
LEMMA LastEntry ==
    ASSUME MemoryInv, NEW k \in Keys, history[k] # <<>>
    PROVE  /\ Len(history[k]) \in DOMAIN history[k]
           /\ Last(history[k]) = history[k][Len(history[k])]
           /\ Last(history[k]) \in Entry
<1>1. history[k] \in Seq(Entry)
  BY DEF MemoryInv, TypeOK
<1>. QED
  BY <1>1 DEF Last

\* An entry is never absent, whatever its memory holds.
LEMMA ValuesArePresent ==
    ASSUME MemoryInv, NEW k \in Keys, history[k] # <<>>
    PROVE  /\ Absent \notin ValueOf(k, Len(history[k]))
           /\ Last(history[k]) = history[k][Len(history[k])]
<1>1. history[k][Len(history[k])].val \in Values
  BY LastEntry DEF Entry
<1>. QED
  BY <1>1, LastEntry, MemoryAssumption DEF ValueOf

\* A key is listed exactly if an unpinned get finds it.
THEOREM ListShowsWhatGetFinds == Spec => []ListAgreesWithGet
<1>1. ASSUME MemoryInv PROVE ListAgreesWithGet
  <2>1. ASSUME NEW k \in Keys PROVE k \in List <=> Absent \notin Gets(k)
    <3>1. CASE history[k] = <<>>
      BY <3>1 DEF List, Gets
    <3>2. CASE history[k] # <<>>
      <4>1. k \in keys
        BY <1>1, <3>2 DEF MemoryInv, TypeOK
      <4>2. Absent \notin ValueOf(k, Len(history[k]))
        BY <1>1, <3>2, ValuesArePresent
      <4>. QED
        BY <3>2, <4>1, <4>2 DEF List, Gets
    <3>. QED
      BY <3>1, <3>2
  <2>2. List \subseteq Keys
    BY <1>1 DEF List, MemoryInv, TypeOK
  <2>. QED
    BY <2>1, <2>2 DEF ListAgreesWithGet
<1>. QED
  BY MemoryInit, MemoryStep, <1>1, PTL DEF Spec

\* The history of a key goes down, from the version a get reads where no put
\* freed an entry.
THEOREM HistoryGoesDown == Spec => []HistoryNewestFirst
<1>1. ASSUME MemoryInv PROVE HistoryNewestFirst
  <2>1. ASSUME NEW k \in Keys
        PROVE  /\ \A i, j \in DOMAIN History(k) :
                    i < j /\ History(k)[j] # 0
                        => History(k)[i] = 0 \/ History(k)[i] > History(k)[j]
               /\ Absent \notin Gets(k) /\ (\A f \in freed : f.key # k)
                    => GetsAt(k, History(k)[1]) = Gets(k)
    <3> DEFINE n == Len(history[k])
               vs == [i \in DOMAIN history[k] |->
                        IF Freed(k, i) THEN 0 ELSE history[k][i].version]
    <3>1. /\ history[k] \in Seq(Entry) /\ n \in Nat
          /\ DOMAIN history[k] = 1..n
      BY <1>1 DEF MemoryInv, TypeOK
    <3>2. /\ DOMAIN History(k) = 1..n
          /\ \A i \in 1..n : n - i + 1 \in 1..n /\ History(k)[i] = vs[n - i + 1]
      <4>1. vs \in Seq(Nat) /\ Len(vs) = n
        <5>1. \A i \in 1..n : vs[i] \in Nat
          BY <3>1, EntriesTyped
        <5>2. vs = [i \in 1..n |-> vs[i]]
          BY <3>1
        <5> HIDE DEF vs
        <5>3. vs \in [1..n -> Nat]
          BY <5>1, <5>2
        <5>. QED
          BY <3>1, <5>3
      <4>2. History(k) = [i \in 1..n |-> vs[(n - i) + 1]]
        BY <4>1 DEF History, Reverse
      <4>. QED
        BY <4>2, <3>1
    <3>3. ASSUME NEW i \in 1..n, NEW j \in 1..n, i < j, History(k)[j] # 0
          PROVE  History(k)[i] = 0 \/ History(k)[i] > History(k)[j]
      <4>1. n - i + 1 \in 1..n /\ n - j + 1 \in 1..n /\ n - j + 1 < n - i + 1
        BY <3>1, <3>3
      <4>2. history[k][n - j + 1].version < history[k][n - i + 1].version
        BY <1>1, <3>1, <4>1 DEF MemoryInv, VersionsGoUp
      <4>3. history[k][n - j + 1].version \in Nat /\ history[k][n - i + 1].version \in Nat
        BY <3>1, <4>1, EntriesTyped
      <4>4. /\ History(k)[j] = history[k][n - j + 1].version
            /\ History(k)[i] = 0 \/ History(k)[i] = history[k][n - i + 1].version
        BY <3>1, <3>2, <3>3, <4>1
      <4>. QED
        BY <4>2, <4>3, <4>4
    <3>4. ASSUME Absent \notin Gets(k), \A f \in freed : f.key # k
          PROVE  GetsAt(k, History(k)[1]) = Gets(k)
      <4>1. history[k] # <<>> /\ Gets(k) = ValueOf(k, n)
        BY <3>4 DEF Gets
      <4>2. n \in 1..n
        BY <1>1, <3>1, <4>1, LastEntry
      <4>3. 1 \in 1..n /\ n - 1 + 1 = n
        BY <3>1, <4>2
      <4>4. ~Freed(k, n)
        BY <3>4 DEF Freed
      <4>5. History(k)[1] = history[k][n].version
        BY <3>1, <3>2, <4>2, <4>3, <4>4
      <4>6. GetsAt(k, history[k][n].version) = {history[k][n].val}
        BY <1>1, <3>1, <3>4, <4>2, GetsAtFinds
      <4>. QED
        BY <4>1, <4>4, <4>5, <4>6 DEF ValueOf
    <3>. QED
      BY <3>2, <3>3, <3>4
  <2>. QED
    BY <2>1 DEF HistoryNewestFirst
<1>. QED
  BY MemoryInit, MemoryStep, <1>1, PTL DEF Spec

\* What a step that leaves the entries alone makes of an unpinned get.
LEMMA SameEntries ==
    ASSUME NEW k \in Keys, history' = history, freed' = freed, deleted \subseteq deleted'
    PROVE  Gets(k)' \in {Gets(k), {Absent}}
  BY DEF Gets, ValueOf, Freed

\* A key reads as something else only because of a put of it that returned or
\* that failed at its answer, and then as what the one brought or the other
\* freed: no other failing put shows or undeletes.
THEOREM FailedPutsDoNotShow == Spec => OnlyAckedPutsShow
<1> DEFINE Allowed(k) ==
        \/ Gets(k)' \in {Gets(k), {Absent}}
        \/ \E a \in acked' \ acked : a.key = k /\ Gets(k)' = {a.val}
        \/ \E f \in freed' \ freed : f.key = k
<1>1. ASSUME MemoryInv, [Next]_vars PROVE [\A k \in Keys : Allowed(k)]_vars
  <2>0. next_version \in Nat \ {0} /\ history \in [Keys -> Seq(Entry)]
    BY <1>1, MemoryAssumption DEF MemoryInv, TypeOK
  <2>1. ASSUME NEW j \in Keys, NEW val \in Values, Stored(j, val), NEW k \in Keys,
               k # j, freed' \subseteq freed \cup {[version |-> next_version, key |-> j]}, freed \subseteq freed'
        PROVE  Allowed(k)
    <3>1. history'[k] = history[k] /\ (k \in deleted' <=> k \in deleted)
      BY <2>0, <2>1 DEF Stored
    <3>2. ASSUME NEW i PROVE Freed(k, i)' <=> Freed(k, i)
      BY <2>1, <3>1 DEF Freed
    <3>. QED
      BY <3>1, <3>2 DEF Gets, ValueOf
  <2>2. ASSUME NEW j \in Keys, NEW val \in Values, Put(j, val) PROVE Allowed(j)
    <3> DEFINE a == [version |-> next_version, key |-> j, val |-> val]
               e == [version |-> next_version, val |-> val]
               n == Len(history[j])
    <3>1. a \in acked' /\ a.key = j /\ a.val = val /\ freed' = freed /\ Stored(j, val)
      BY <2>2 DEF Put
    <3>2. a \notin acked
      <4> SUFFICES ASSUME a \in acked PROVE FALSE
        OBVIOUS
      <4>1. PICK i \in DOMAIN history[j] :
                    history[j][i] = [version |-> next_version, val |-> val]
        BY <1>1 DEF MemoryInv, AckedAreEntries
      <4>2. history[j][i].version < next_version
        BY <1>1, <4>1 DEF MemoryInv, VersionsGoUp
      <4>. QED
        BY <2>0, <4>1, <4>2
    <3>3. e \in Entry /\ history[j] \in Seq(Entry) /\ n \in Nat
      <4>1. history[j] \in Seq(Entry)
        BY <2>0
      <4>. QED
        BY <2>0, <4>1 DEF Entry
    <3>4. history'[j] = Append(history[j], e) /\ j \notin deleted'
      BY <2>0, <3>1 DEF Stored
    <3>5. /\ Len(history'[j]) = n + 1 /\ history'[j] # <<>>
          /\ history'[j][Len(history'[j])] = e
      BY <3>3, <3>4
    <3>6. [version |-> history'[j][Len(history'[j])].version, key |-> j] \notin freed'
      <4> SUFFICES ASSUME [version |-> next_version, key |-> j] \in freed PROVE FALSE
        BY <3>1, <3>5
      <4>1. next_version < next_version
        BY <1>1 DEF MemoryInv, FreedIsOld
      <4>. QED
        BY <2>0, <4>1
    <3>7. Gets(j)' = {val}
      BY <3>4, <3>5, <3>6 DEF Gets, ValueOf, Freed
    <3>. QED
      BY <3>1, <3>2, <3>7
  <2>3. ASSUME NEW j \in Keys, NEW val \in Values, PutFailsAtAnswer(j, val)
        PROVE  Allowed(j)
    <3> DEFINE f == [version |-> next_version, key |-> j]
    <3>1. f \in freed' /\ f.key = j
      BY <2>3 DEF PutFailsAtAnswer
    <3>2. f \notin freed
      <4> SUFFICES ASSUME f \in freed PROVE FALSE
        OBVIOUS
      <4>1. next_version < next_version
        BY <1>1 DEF MemoryInv, FreedIsOld
      <4>. QED
        BY <2>0, <4>1
    <3>. QED
      BY <3>1, <3>2
  <2>4. ASSUME history' = history, freed' = freed, deleted \subseteq deleted'
        PROVE  \A k \in Keys : Allowed(k)
    BY <2>4, SameEntries
  <2> HIDE DEF Allowed
  <2>5. CASE PutFailsEarly
    BY <2>4, <2>5 DEF PutFailsEarly
  <2>6. ASSUME NEW j \in Keys, PutFailsAtAppend(j) PROVE \A k \in Keys : Allowed(k)
    BY <2>4, <2>6 DEF PutFailsAtAppend
  <2>7. ASSUME NEW j \in Keys, Delete(j) PROVE \A k \in Keys : Allowed(k)
    <3>1. history' = history /\ freed' = freed /\ deleted \subseteq deleted'
      BY <2>7 DEF Delete
    <3>. QED
      BY <2>4, <3>1
  <2>8. ASSUME NEW j \in Keys, NEW val \in Values, Put(j, val)
        PROVE  \A k \in Keys : Allowed(k)
    <3>1. Stored(j, val) /\ freed' = freed
      BY <2>8 DEF Put
    <3>2. \A k \in Keys : k # j => Allowed(k)
      BY <2>1, <3>1
    <3>. QED
      BY <2>2, <2>8, <3>2
  <2>9. ASSUME NEW j \in Keys, NEW val \in Values, PutFailsAtAnswer(j, val)
        PROVE  \A k \in Keys : Allowed(k)
    <3>1. /\ Stored(j, val) /\ freed \subseteq freed'
          /\ freed' \subseteq freed \cup {[version |-> next_version, key |-> j]}
      BY <2>9 DEF PutFailsAtAnswer
    <3>2. \A k \in Keys : k # j => Allowed(k)
      BY <2>1, <3>1
    <3>. QED
      BY <2>3, <2>9, <3>2
  <2>. QED
    BY <1>1, <2>5, <2>6, <2>7, <2>8, <2>9 DEF Next
<1>. QED
  BY MemoryInit, MemoryStep, <1>1, PTL DEF Spec, OnlyAckedPutsShow
=============================================================================
