-------------------------- MODULE WasmClientProofs --------------------------
(***************************************************************************)
(* The client for any documents, filters, page sizes and number of puts,   *)
(* over every backend: errors name their cause, a pinned version never     *)
(* reads as another put's, and a walk through the pages of a list or of a  *)
(* history is complete.                                                    *)
(***************************************************************************)
EXTENDS WasmClient, FiniteSetTheorems, TLAPS

\* Before the client is there, its only answer is that it could not be loaded.
AnswerInv ==
    /\ phase # "ready" => answer \in {Success, Failure("runtime-load", "load")}
    /\ ErrorsNameTheirCause

LEMMA AnswerStep == AnswerInv /\ [Next]_vars => AnswerInv'
<1> SUFFICES ASSUME AnswerInv, [Next]_vars PROVE AnswerInv'
  OBVIOUS
<1>. USE DEF AnswerInv, ErrorsNameTheirCause, Success, Failure, IntoEffect
<1>1. CASE UNCHANGED vars
  BY <1>1 DEF vars, loading
<1>2. ASSUME NEW o \in Options, Load(o) PROVE AnswerInv'
  BY <1>2 DEF Load
<1>3. CASE LoadFails
  BY <1>3 DEF LoadFails
<1>4. CASE OpenDefaultStore
  BY <1>3, <1>4 DEF OpenDefaultStore
<1>5. CASE Fetch
  BY <1>3, <1>5 DEF Fetch
<1>6. CASE Instantiate
  BY <1>3, <1>6 DEF Instantiate
<1>7. CASE Operation
  <2>1. Ready /\ UNCHANGED loading
    BY <1>7 DEF Operation, Put, Delete, WriteFailsButHappens, Get, RefusedRequest,
                UnwrittenRequest, PutThrows, CallFails, FirstPage, NextPage
  <2>2. \/ answer' = Success
        \/ Fails("request", FALSE)
        \/ HostFails \/ GitHubFails \/ NoCredential \/ ResolverThrows
        \/ answer' = Failure("decode", "unencodable")
        \/ answer' = Failure("thrown", "unencodable")
    BY <1>7 DEF Operation, Put, Delete, WriteFailsButHappens, Get, RefusedRequest,
                UnwrittenRequest, PutThrows, CallFails, FirstPage, NextPage, Succeeds,
                ClearedFailure
  <2>. QED
    BY <2>1, <2>2 DEF Ready, loading, Fails, HostFails, GitHubFails, NoCredential,
                      ResolverThrows
<1>. QED
  BY <1>1, <1>2, <1>4, <1>5, <1>6, <1>7 DEF Next

-----------------------------------------------------------------------------
(* The largest version of a record *)

LEMMA BoundedMax ==
    ASSUME NEW n \in Nat, NEW S \in SUBSET (0..n), S # {}
    PROVE  Max(S) \in S /\ \A y \in S : Max(S) >= y
<1> DEFINE T == {n - y : y \in S}
<1>0. \A y \in S : y \in Nat /\ n - y \in Nat
  OBVIOUS
<1>1. T \subseteq Nat /\ T # {}
  BY <1>0, Zenon
<1>2. PICK m \in T : \A t \in T : ~(<<t, m>> \in OpToRel(<, Nat))
  BY <1>1, NatLessThanWellFounded, WFMin, Zenon
<1>3. PICK x \in S : m = n - x
  OBVIOUS
<1>4. ASSUME NEW y \in S PROVE x >= y
  <2>1. n - y \in T /\ n - y \in Nat /\ m \in Nat
    BY <1>1
  <2>2. ~(n - y < m)
    BY <1>2, <2>1 DEF OpToRel
  <2>. QED
    BY <1>0, <1>3, <2>2
<1>. QED
  BY <1>4 DEF Max

-----------------------------------------------------------------------------
(* What the backends keep *)

Version(d, i) == records[d][i].version

\* Versions go up, wherever they are counted, and none outruns the puts.
RecordsOK ==
    \A d \in Docs :
        /\ \A i \in 1..Len(records[d]) : Version(d, i) \in 1..puts
        /\ \A i, j \in 1..Len(records[d]) : i < j => Version(d, i) < Version(d, j)

\* Where versions are counted per document, an answered one is still there.
AckedOK ==
    \A a \in acked :
        /\ a.doc \in Docs /\ a.version \in 1..puts
        /\ \A i \in 1..Len(records[a.doc]) :
             Version(a.doc, i) = a.version => records[a.doc][i].val = a.val
        /\ PerDocument => a.version \in Versions(a.doc)

DataInv ==
    /\ puts \in 0..MaxPuts
    /\ records \in [Docs -> Seq(Entry)]
    /\ RecordsOK
    /\ AckedOK
    /\ phase # "ready" => acked = {}

LEMMA AppendEntry ==
    ASSUME NEW s \in Seq(Entry), NEW e \in Entry
    PROVE  /\ Append(s, e) \in Seq(Entry)
           /\ Len(Append(s, e)) = Len(s) + 1 /\ Len(s) \in Nat
           /\ \A i \in 1..Len(s) : Append(s, e)[i] = s[i]
           /\ Append(s, e)[Len(s) + 1] = e
OBVIOUS

LEMMA RecordsFacts ==
    ASSUME DataInv, NEW d \in Docs
    PROVE  /\ records[d] \in Seq(Entry) /\ Len(records[d]) \in Nat
           /\ \A i \in 1..Len(records[d]) :
                records[d][i].version \in Nat \ {0} /\ records[d][i].version \in 1..puts
           /\ \A i, j \in 1..Len(records[d]) :
                i < j => records[d][i].version < records[d][j].version
<1>1. records[d] \in Seq(Entry) /\ puts \in Nat
  BY DEF DataInv
<1>2. \A i \in 1..Len(records[d]) : records[d][i].version \in 1..puts
  BY DEF DataInv, RecordsOK, Version
<1>3. \A i, j \in 1..Len(records[d]) :
        i < j => records[d][i].version < records[d][j].version
  BY DEF DataInv, RecordsOK, Version
<1>4. \A i \in 1..Len(records[d]) : records[d][i].version \in Nat \ {0}
  BY <1>1, <1>2
<1>. QED
  BY <1>1, <1>2, <1>3, <1>4

\* A new version is larger than every other of its document, the answered ones
\* included (nextVersion, and the counters of the other stores).
LEMMA FreshIsNew ==
    ASSUME DataInv, NEW d \in Docs
    PROVE  /\ FreshVersion(d) \in 1..(puts + 1)
           /\ \A i \in 1..Len(records[d]) : Version(d, i) < FreshVersion(d)
           /\ \A a \in acked : a.doc = d => a.version < FreshVersion(d)
<1>1. /\ puts \in Nat /\ records[d] \in Seq(Entry)
      /\ \A i \in 1..Len(records[d]) : Version(d, i) \in 1..puts
      /\ \A a \in acked : a.version \in 1..puts
      /\ PerDocument => \A a \in acked : a.doc = d => a.version \in Versions(d)
  BY ClientAssumption DEF DataInv, RecordsOK, AckedOK
<1>2. CASE ~PerDocument
  BY <1>1, <1>2 DEF FreshVersion
<1>3. CASE PerDocument
  <2> DEFINE numbers == {e.version : e \in Range(records[d])} \ {Malformed}
  <2>1. numbers = Versions(d)
    BY <1>1 DEF Versions, Version, Range, Malformed
  <2>2. Versions(d) \subseteq 1..puts
    BY <1>1 DEF Versions, Version
  <2>3. FreshVersion(d) = IF Versions(d) = {} THEN Len(records[d]) + 1
                          ELSE Max(Versions(d)) + 1
    BY <1>3, <2>1 DEF FreshVersion, NextVersion
  <2>4. CASE Versions(d) = {}
    <3>0. \A i \in 1..Len(records[d]) : Version(d, i) \in Versions(d)
      BY DEF Versions, Version
    <3>1. Len(records[d]) = 0
      BY <1>1, <2>4, <3>0
    <3>. QED
      BY <1>1, <1>3, <2>3, <2>4, <3>1
  <2>5. CASE Versions(d) # {}
    <3>1. /\ Max(Versions(d)) \in Versions(d)
          /\ \A y \in Versions(d) : Max(Versions(d)) >= y
      <4>1. Versions(d) \in SUBSET (0..puts)
        BY <1>1, <2>2
      <4>. QED
        BY <1>1, <2>5, <4>1, BoundedMax
    <3>2. \A i \in 1..Len(records[d]) : Version(d, i) \in Versions(d)
      BY DEF Versions, Version
    <3>3. \A y \in Versions(d) : y \in 1..puts
      BY <2>2
    <3> HIDE DEF numbers
    <3>. QED
      BY <1>1, <1>3, <2>3, <2>5, <3>1, <3>2, <3>3
  <2>. QED
    BY <2>4, <2>5
<1>. QED
  BY <1>2, <1>3

LEMMA StoreFacts ==
    ASSUME DataInv, NEW d \in Docs, Store(d)
    PROVE  /\ puts' = puts + 1 /\ puts' \in 0..MaxPuts /\ puts \in Nat
           /\ records' \in [Docs -> Seq(Entry)]
           /\ records[d] \in Seq(Entry) /\ Len(records[d]) \in Nat
           /\ \A c \in Docs \ {d} : records'[c] = records[c]
           /\ Len(records'[d]) = Len(records[d]) + 1
           /\ \A i \in 1..Len(records[d]) : records'[d][i] = records[d][i]
           /\ records'[d][Len(records[d]) + 1]
                = [version |-> FreshVersion(d), val |-> puts']
<1>1. PICK v \in Nat : v = FreshVersion(d)
  BY FreshIsNew
<1>2. /\ puts' = puts + 1 /\ puts' \in 0..MaxPuts /\ puts \in Nat
      /\ records[d] \in Seq(Entry)
  BY ClientAssumption DEF DataInv, Store
<1>3. [version |-> v, val |-> puts'] \in Entry
  BY <1>2, ClientAssumption DEF Entry
<1>4. PICK e \in Entry : e = [version |-> v, val |-> puts']
  BY <1>3
<1>5. /\ records' = [records EXCEPT ![d] = Append(records[d], e)]
      /\ records \in [Docs -> Seq(Entry)]
  BY <1>1, <1>4 DEF Store, DataInv
<1>6. Append(records[d], e) \in Seq(Entry)
  BY <1>2, AppendEntry
<1>7. records'[d] = Append(records[d], e) /\ \A c \in Docs \ {d} : records'[c] = records[c]
  BY <1>5
<1>8. records' \in [Docs -> Seq(Entry)]
  BY <1>5, <1>6
<1>. QED
  BY <1>1, <1>2, <1>4, <1>7, <1>8, AppendEntry

LEMMA StoreStep ==
    ASSUME DataInv, NEW d \in Docs, Store(d), UNCHANGED loading, Ready,
           \/ acked' = acked \cup {Answered(d)}
           \/ acked' = acked
    PROVE  DataInv'
<1> DEFINE n == Len(records[d])
<1>1. PICK v : v = FreshVersion(d)
  OBVIOUS
<1>2. /\ v \in 1..puts'
      /\ \A i \in 1..n : Version(d, i) < v
      /\ \A a \in acked : a.doc = d => a.version < v
  BY <1>1, FreshIsNew, StoreFacts
<1>3. /\ n \in Nat /\ Len(records'[d]) = n + 1
      /\ \A i \in 1..n : records'[d][i] = records[d][i]
      /\ records'[d][n + 1] = [version |-> v, val |-> puts']
      /\ \A c \in Docs \ {d} : records'[c] = records[c]
      /\ puts \in Nat /\ puts' = puts + 1
  BY <1>1, StoreFacts
<1>4. RecordsOK'
  <2> SUFFICES ASSUME NEW c \in Docs
               PROVE  /\ \A i \in 1..Len(records'[c]) : records'[c][i].version \in 1..puts'
                      /\ \A i, j \in 1..Len(records'[c]) :
                           i < j => records'[c][i].version < records'[c][j].version
    BY DEF RecordsOK, Version
  <2>1. /\ \A i \in 1..Len(records[c]) : records[c][i].version \in 1..puts
        /\ \A i, j \in 1..Len(records[c]) :
             i < j => records[c][i].version < records[c][j].version
    BY DEF DataInv, RecordsOK, Version
  <2>2. CASE c # d
    BY <1>3, <2>1, <2>2
  <2>3. CASE c = d
    <3>1. \A i \in 1..(n + 1) : i \in 1..n \/ i = n + 1
      BY <1>3
    <3>2. \A i \in 1..n : /\ records'[d][i].version = Version(d, i)
                          /\ Version(d, i) \in 1..puts
      BY <1>3, <2>1, <2>3 DEF Version
    <3>3. records'[d][n + 1].version = v
      BY <1>3
    <3>4. \A i, j \in 1..n : i < j => Version(d, i) < Version(d, j)
      BY <2>1, <2>3 DEF Version
    <3> HIDE DEF n
    <3>. QED
      BY <1>2, <1>3, <2>3, <3>1, <3>2, <3>3, <3>4
  <2>. QED
    BY <2>2, <2>3
<1>5. ASSUME NEW a \in acked'
      PROVE  /\ a.doc \in Docs /\ a.version \in 1..puts'
             /\ \A i \in 1..Len(records'[a.doc]) :
                  records'[a.doc][i].version = a.version => records'[a.doc][i].val = a.val
             /\ PerDocument =>
                  \E i \in 1..Len(records'[a.doc]) : records'[a.doc][i].version = a.version
  <2>1. CASE a \in acked
    <3>1. /\ a.doc \in Docs /\ a.version \in 1..puts
          /\ \A i \in 1..Len(records[a.doc]) :
               records[a.doc][i].version = a.version => records[a.doc][i].val = a.val
          /\ PerDocument =>
               \E i \in 1..Len(records[a.doc]) : records[a.doc][i].version = a.version
      BY <2>1 DEF DataInv, AckedOK, Version, Versions
    <3>2. CASE a.doc # d
      BY <1>3, <3>1, <3>2
    <3>3. CASE a.doc = d
      <4>1. \A i \in 1..(n + 1) : i \in 1..n \/ i = n + 1
        BY <1>3
      <4>2. a.version < v /\ records'[d][n + 1].version = v
        BY <1>2, <1>3, <2>1, <3>3
      <4>3. v \in Nat /\ a.version \in Nat /\ a.version # v
        BY <1>2, <1>3, <3>1, <4>2
      <4>4. a.doc \in Docs /\ a.version \in 1..puts'
        BY <1>3, <3>1
      <4>5. ASSUME NEW i \in 1..(n + 1), records'[d][i].version = a.version
            PROVE  records'[d][i].val = a.val
        <5>1. i \in 1..n /\ records'[d][i] = records[d][i]
          BY <1>3, <4>1, <4>2, <4>3, <4>5
        <5>. QED
          BY <3>1, <3>3, <4>5, <5>1
      <4>6. ASSUME PerDocument
            PROVE  \E i \in 1..(n + 1) : records'[d][i].version = a.version
        <5>1. PICK i \in 1..n : records[d][i].version = a.version
          BY <3>1, <3>3, <4>6
        <5>2. i \in 1..(n + 1) /\ records'[d][i] = records[d][i]
          BY <1>3
        <5>. QED
          BY <5>1, <5>2
      <4>. QED
        BY <1>3, <3>3, <4>4, <4>5, <4>6
    <3>. QED
      BY <3>2, <3>3
  <2>2. CASE a = [doc |-> d, version |-> v, val |-> puts']
    <3>1. \A i \in 1..(n + 1) : i \in 1..n \/ i = n + 1
      BY <1>3
    <3>2. \A i \in 1..n : records'[d][i].version # v
      <4>1. \A i \in 1..n : Version(d, i) \in Nat /\ v \in Nat
        BY <1>2, <1>3 DEF DataInv, RecordsOK
      <4>. QED
        BY <1>2, <1>3, <4>1 DEF Version
    <3>3. n + 1 \in 1..(n + 1)
      BY <1>3
    <3>. QED
      BY <1>2, <1>3, <2>2, <3>1, <3>2, <3>3
  <2>. QED
    BY <1>1, <2>1, <2>2 DEF Answered
<1>6. AckedOK'
  <2>1. PerDocument' = PerDocument
    BY DEF PerDocument, Imported, loading
  <2>. QED
    BY <1>5, <2>1 DEF AckedOK, Version, Versions
<1>. QED
  BY <1>4, <1>6, StoreFacts DEF DataInv, Ready, loading

LEMMA DropStep ==
    ASSUME DataInv, NEW d \in Docs, Drop(d), UNCHANGED loading, Ready,
           \/ ~PerDocument /\ acked' = acked
           \/ acked' = {a \in acked : a.doc # d}
    PROVE  DataInv'
<1>1. /\ puts' = puts
      /\ records' \in [Docs -> Seq(Entry)]
      /\ \A c \in Docs : records'[c] = records[c] \/ (c = d /\ records'[c] = <<>>)
  BY DEF DataInv, Drop
<1>2. RecordsOK'
  <2> SUFFICES ASSUME NEW c \in Docs
               PROVE  /\ \A i \in 1..Len(records'[c]) : records'[c][i].version \in 1..puts'
                      /\ \A i, j \in 1..Len(records'[c]) :
                           i < j => records'[c][i].version < records'[c][j].version
    BY DEF RecordsOK, Version
  <2>. QED
    BY <1>1 DEF DataInv, RecordsOK, Version
<1>3. ASSUME NEW a \in acked'
      PROVE  /\ a.doc \in Docs /\ a.version \in 1..puts'
             /\ \A i \in 1..Len(records'[a.doc]) :
                  records'[a.doc][i].version = a.version => records'[a.doc][i].val = a.val
             /\ PerDocument =>
                  \E i \in 1..Len(records'[a.doc]) : records'[a.doc][i].version = a.version
  <2>1. a \in acked /\ (PerDocument => a.doc # d)
    OBVIOUS
  <2>2. /\ a.doc \in Docs /\ a.version \in 1..puts
        /\ \A i \in 1..Len(records[a.doc]) :
             records[a.doc][i].version = a.version => records[a.doc][i].val = a.val
        /\ PerDocument =>
             \E i \in 1..Len(records[a.doc]) : records[a.doc][i].version = a.version
    BY <2>1 DEF DataInv, AckedOK, Version, Versions
  <2>. QED
    BY <1>1, <2>1, <2>2
<1>4. AckedOK'
  <2>1. PerDocument' = PerDocument
    BY DEF PerDocument, Imported, loading
  <2>. QED
    BY <1>3, <2>1 DEF AckedOK, Version, Versions
<1>. QED
  BY <1>1, <1>2, <1>4 DEF DataInv, Ready, loading

Kept ==
    UNCHANGED <<records, live, puts>>

LEMMA DataInit == Init => DataInv
<1> SUFFICES ASSUME Init PROVE DataInv
  OBVIOUS
<1>1. \A d \in Docs : records[d] = <<>>
  BY DEF Init
<1>. QED
  BY <1>1, ClientAssumption DEF Init, DataInv, RecordsOK, AckedOK

LEMMA DataNext ==
    ASSUME DataInv, [Next]_vars
    PROVE  DataInv'
<1>1. ASSUME Kept, acked' = acked, phase' = "ready" => phase = "ready" \/ acked = {},
             phase = "ready" => UNCHANGED loading
      PROVE  DataInv'
  <2>1. RecordsOK'
    BY <1>1 DEF DataInv, RecordsOK, Version, Kept
  <2>2. phase = "ready" => PerDocument' = PerDocument
    BY <1>1 DEF PerDocument, Imported, loading
  <2>3. AckedOK'
    BY <1>1, <2>2 DEF DataInv, AckedOK, Version, Versions, Kept
  <2>. QED
    BY <1>1, <2>1, <2>3 DEF DataInv, Kept, loading
<1>2. CASE UNCHANGED vars
  BY <1>1, <1>2 DEF vars, data, loading, Kept
<1>3. CASE \/ \E o \in Options : Load(o)
           \/ OpenDefaultStore \/ Fetch \/ Instantiate
  <2>1. phase # "ready" /\ Kept /\ acked' = acked
    BY <1>3 DEF Load, OpenDefaultStore, Fetch, Instantiate, LoadFails, Kept, data
  <2>. QED
    BY <1>1, <2>1 DEF DataInv
<1>4. ASSUME NEW d \in Docs, Put(d) PROVE DataInv'
  BY <1>4, StoreStep DEF Put
<1>5. ASSUME NEW d \in Docs, Delete(d) PROVE DataInv'
  <2>1. CASE d \in live
    BY <1>5, <2>1, DropStep DEF Delete
  <2>2. CASE d \notin live
    BY <1>1, <1>5, <2>2 DEF Delete, Kept, data, loading
  <2>. QED
    BY <2>1, <2>2
<1>6. ASSUME NEW d \in Docs, WriteFailsButHappens(d) PROVE DataInv'
  <2>1. ~PerDocument
    BY <1>6 DEF WriteFailsButHappens, PerDocument, Imported, HostFails, GitHubFails
  <2>. QED
    BY <1>6, <2>1, StoreStep, DropStep DEF WriteFailsButHappens
<1>7. CASE \/ Get \/ RefusedRequest \/ UnwrittenRequest \/ PutThrows
           \/ CallFails \/ FirstPage \/ NextPage
  <2>1. Ready /\ UNCHANGED loading /\ Kept /\ acked' = acked
    BY <1>7 DEF Get, RefusedRequest, UnwrittenRequest, PutThrows, CallFails, FirstPage,
                NextPage, data, Kept
  <2>. QED
    BY <1>1, <2>1 DEF Ready, loading
<1>. QED
  BY <1>2, <1>3, <1>4, <1>5, <1>6, <1>7 DEF Next, Operation

LEMMA MinOfOne ==
    ASSUME NEW k \in Nat
    PROVE  Min({k}) = k
BY DEF Min

LEMMA DataPinned == DataInv => PinnedReadsNeverLie
<1> SUFFICES ASSUME DataInv, NEW a \in acked,
                    NEW found, found = {i \in DOMAIN records[a.doc] :
                                          records[a.doc][i].version = a.version},
                    found # {}
             PROVE  records[a.doc][Min(found)].val = a.val
  BY DEF PinnedReadsNeverLie, At
<1>1. /\ a.doc \in Docs /\ records[a.doc] \in Seq(Entry)
      /\ \A i \in 1..Len(records[a.doc]) :
           records[a.doc][i].version = a.version => records[a.doc][i].val = a.val
      /\ \A i \in 1..Len(records[a.doc]) : records[a.doc][i].version \in Nat
      /\ \A i, j \in 1..Len(records[a.doc]) :
           i < j => records[a.doc][i].version < records[a.doc][j].version
  <2>1. /\ a.doc \in Docs
        /\ \A i \in 1..Len(records[a.doc]) :
             records[a.doc][i].version = a.version => records[a.doc][i].val = a.val
    BY DEF DataInv, AckedOK, Version
  <2>. QED
    BY <2>1, RecordsFacts
<1>2. PICK i \in 1..Len(records[a.doc]) : i \in found
  BY <1>1
<1>3. \A j \in found : j \in 1..Len(records[a.doc]) /\ ~(i < j) /\ ~(j < i)
  BY <1>1, <1>2
<1>4. i \in Nat /\ found = {i}
  BY <1>1, <1>2, <1>3
<1>. QED
  BY <1>1, <1>2, <1>4, MinOfOne

-----------------------------------------------------------------------------
(* The pages of a list and of a history *)

Fields == {"kind", "of", "cursor", "items", "stable", "done", "cut"}

Decreasing(items) ==
    \A i, j \in 1..Len(items) : i < j => items[i] > items[j]

Increasing(items) ==
    \A i, j \in 1..Len(items) : i < j => items[i] < items[j]

\* A walk through a list that goes on has turned at its cursor, and what is
\* still to come of the documents that were there all along is behind it.
ListOK(w) ==
    /\ Increasing(w.items)
    /\ w.done => w.stable \subseteq ToSet(w.items)
    /\ ~w.done =>
        /\ \A x \in ToSet(w.items) : x <= w.cursor
        /\ \A d \in w.stable : d \in ToSet(w.items) \/ d > w.cursor
        /\ w.stable \subseteq live \cap w.of

\* What a walk through a history has not seen of the versions that were there
\* all along is older than all it has seen, and at the end cut off.  The version
\* at the cursor must not be gone before the others.
HistoryOK(w) ==
    /\ \A v \in w.stable :
         v \in ToSet(w.items) \/ ((w.done => w.cut) /\ \A x \in ToSet(w.items) : v < x)
    /\ backend # "github" =>
        /\ Decreasing(w.items) /\ ~w.cut
        /\ ~w.done => \A x \in ToSet(w.items) : x >= w.cursor
    /\ ~w.done =>
        /\ w.cursor # 0 /\ w.cursor \in ToSet(w.items)
        /\ w.stable \subseteq Versions(w.of)
        /\ w.stable # {} => w.cursor \in Versions(w.of)

WalkOK(w) ==
    w # None =>
        /\ w \in Walk
        /\ w.kind = "list" => ListOK(w)
        /\ w.kind = "history" => HistoryOK(w)

LEMMA WalkFields ==
    ASSUME NEW w \in Walk
    PROVE  /\ DOMAIN w = Fields
           /\ \/ w.kind = "list" /\ w.of \in SUBSET Docs
              \/ w.kind = "history" /\ w.of \in Docs
           /\ w.cursor \in Nat /\ w.items \in Seq(Nat)
           /\ w.stable \in SUBSET Nat /\ w.done \in BOOLEAN /\ w.cut \in BOOLEAN
BY DEF Walk, Fields

Turned(w, items, done, cut, c) ==
    [w EXCEPT !.items = items, !.done = done, !.cut = cut, !.cursor = c]

Still(w, S) == [w EXCEPT !.stable = S]

LEMMA StillTyped ==
    ASSUME NEW w \in Walk, NEW S \in SUBSET Nat, NEW t, t = Still(w, S)
    PROVE  /\ t \in Walk
           /\ t.kind = w.kind /\ t.of = w.of /\ t.stable = S
           /\ t.items = w.items /\ t.done = w.done /\ t.cut = w.cut
           /\ t.cursor = w.cursor
<1>1. /\ t.kind = w.kind /\ t.of = w.of /\ t.stable = S
      /\ t.items = w.items /\ t.done = w.done /\ t.cut = w.cut /\ t.cursor = w.cursor
  BY WalkFields DEF Fields, Still
<1>2. t \in Walk
  BY DEF Walk, Still
<1>. QED
  BY <1>1, <1>2

LEMMA VersionsOfFacts ==
    ASSUME NEW r \in Seq(Entry)
    PROVE  /\ VersionsOf(r) \in Seq(Nat)
           /\ Len(VersionsOf(r)) = Len(r) /\ Len(r) \in Nat
           /\ \A i \in 1..Len(r) : VersionsOf(r)[i] = r[Len(r) - i + 1].version
           /\ ToSet(VersionsOf(r)) = {r[i].version : i \in 1..Len(r)}
<1> DEFINE n == Len(r)
           s == [i \in DOMAIN r |-> r[i].version]
<1>1. n \in Nat /\ DOMAIN r = 1..n /\ \A i \in 1..n : r[i] \in Entry
  OBVIOUS
<1>2. s \in Seq(Nat) /\ Len(s) = n
  BY <1>1 DEF Entry
<1>3. VersionsOf(r) = [i \in 1..n |-> s[(n - i) + 1]]
  BY <1>2 DEF VersionsOf, Reverse
<1>4. \A i \in 1..n : (n - i) + 1 \in 1..n /\ s[(n - i) + 1] = r[n - i + 1].version
  BY <1>1
<1>5. \A i \in 1..n : r[i].version \in Nat
  BY <1>1 DEF Entry
<1>6. VersionsOf(r) = [i \in 1..n |-> r[n - i + 1].version]
  BY <1>3, <1>4
<1>7. VersionsOf(r) \in [1..n -> Nat]
  BY <1>4, <1>5, <1>6
<1>8. VersionsOf(r) \in Seq(Nat) /\ Len(VersionsOf(r)) = n /\ DOMAIN VersionsOf(r) = 1..n
  BY <1>1, <1>7
<1>9. ToSet(VersionsOf(r)) = {r[i].version : i \in 1..n}
  <2>1. ASSUME NEW i \in 1..n PROVE \E j \in 1..n : VersionsOf(r)[j] = r[i].version
    <3>1. n - i + 1 \in 1..n /\ n - (n - i + 1) + 1 = i
      BY <1>1
    <3>. QED
      BY <1>6, <3>1
  <2>2. ASSUME NEW i \in 1..n PROVE \E j \in 1..n : VersionsOf(r)[i] = r[j].version
    BY <1>4, <1>6
  <2>3. PICK t : t = VersionsOf(r) /\ DOMAIN t = 1..n
    BY <1>8
  <2>4. ToSet(t) = {t[i] : i \in 1..n}
    BY <2>3 DEF ToSet
  <2>5. ASSUME NEW v \in ToSet(t) PROVE \E j \in 1..n : v = r[j].version
    BY <2>2, <2>3, <2>4
  <2>6. ASSUME NEW i \in 1..n PROVE r[i].version \in ToSet(t)
    BY <2>1, <2>3, <2>4
  <2>. QED
    BY <2>3, <2>5, <2>6
<1>. QED
  BY <1>1, <1>6, <1>8, <1>9

LEMMA VersionsGoDown ==
    ASSUME DataInv, NEW d \in Docs
    PROVE  /\ VersionsOf(records[d]) \in Seq(Nat \ {0})
           /\ Decreasing(VersionsOf(records[d]))
           /\ ToSet(VersionsOf(records[d])) = Versions(d)
<1>1. PICK r \in Seq(Entry) : r = records[d]
  BY DEF DataInv
<1>2. PICK n \in Nat : n = Len(r)
  BY <1>1
<1>3. PICK s \in Seq(Nat) : s = VersionsOf(r)
  BY VersionsOfFacts
<1>4. /\ Len(s) = n
      /\ \A i \in 1..n : s[i] = r[n - i + 1].version /\ n - i + 1 \in 1..n
      /\ ToSet(s) = {r[i].version : i \in 1..n}
  BY <1>2, <1>3, VersionsOfFacts
<1>5. /\ \A i \in 1..n : r[i].version \in Nat \ {0}
      /\ \A i, j \in 1..n : i < j => r[i].version < r[j].version
  BY <1>1, <1>2, RecordsFacts
<1>6. \A i \in 1..n : s[i] \in Nat \ {0}
  BY <1>4, <1>5
<1>7. ASSUME NEW i \in 1..n, NEW j \in 1..n, i < j PROVE s[i] > s[j]
  <2>1. n - j + 1 < n - i + 1
    BY <1>2, <1>7
  <2>2. r[n - j + 1].version < r[n - i + 1].version
    BY <1>4, <1>5, <2>1
  <2>. QED
    BY <1>4, <1>6, <2>2
<1>8. s \in Seq(Nat \ {0}) /\ Decreasing(s)
  BY <1>4, <1>6, <1>7 DEF Decreasing
<1>9. ToSet(s) = Versions(d)
  BY <1>1, <1>2, <1>4 DEF Versions, Version
<1>. QED
  BY <1>1, <1>3, <1>8, <1>9

LEMMA ToSetOf ==
    ASSUME NEW T, NEW s \in Seq(T)
    PROVE  ToSet(s) = {s[i] : i \in 1..Len(s)}
BY DEF ToSet

LEMMA ElementsOf ==
    ASSUME NEW T, NEW u \in Seq(T)
    PROVE  /\ \A i \in 1..Len(u) : u[i] \in T /\ u[i] \in ToSet(u)
           /\ \A x \in ToSet(u) : \E i \in 1..Len(u) : x = u[i]
BY DEF ToSet

LEMMA MembersOf ==
    ASSUME NEW T, NEW u \in Seq(T)
    PROVE  \A x \in ToSet(u) : x \in T
BY DEF ToSet

\* What follows an item of a sequence that goes down is all that is smaller.
LEMMA BehindItem ==
    ASSUME NEW s \in Seq(Nat \ {0}), Decreasing(s), NEW k \in 1..Len(s),
           NEW t, t = SubSeq(s, k + 1, Len(s))
    PROVE  /\ t \in Seq(Nat \ {0}) /\ Decreasing(t)
           /\ ToSet(t) = {v \in ToSet(s) : v < s[k]}
<1>1. PICK n \in Nat : n = Len(s)
  OBVIOUS
<1>2. /\ \A i \in 1..n : s[i] \in Nat \ {0}
      /\ \A i, j \in 1..n : i < j => s[i] > s[j]
      /\ k \in 1..n /\ n - k \in Nat
  BY <1>1 DEF Decreasing
<1>3. /\ t \in Seq(Nat \ {0}) /\ Len(t) = n - k
      /\ \A i \in 1..(n - k) : t[i] = s[k + i] /\ k + i \in 1..n
  BY <1>1, <1>2
<1>4. Decreasing(t)
  BY <1>2, <1>3 DEF Decreasing
<1>5. ASSUME NEW i \in 1..(n - k) PROVE \E j \in 1..n : t[i] = s[j] /\ s[j] < s[k]
  <2>1. k < k + i /\ k + i \in 1..n
    BY <1>2, <1>3
  <2>2. s[k] > s[k + i] /\ s[k] \in Nat /\ s[k + i] \in Nat
    BY <1>2, <2>1
  <2>. QED
    BY <1>3, <2>1, <2>2
<1>6. ASSUME NEW j \in 1..n, s[j] < s[k] PROVE \E i \in 1..(n - k) : t[i] = s[j]
  <2>1. k < j
    BY <1>2, <1>6
  <2>2. j - k \in 1..(n - k) /\ k + (j - k) = j
    BY <1>1, <2>1
  <2>3. t[j - k] = s[k + (j - k)]
    BY <1>3, <2>2
  <2>. QED
    BY <2>2, <2>3
<1>7. ToSet(t) = {t[i] : i \in 1..Len(t)} /\ ToSet(s) = {s[i] : i \in 1..Len(s)}
  <2>1. \A u \in Seq(Nat \ {0}) : ToSet(u) = {u[i] : i \in 1..Len(u)}
    BY ToSetOf, Zenon
  <2>2. t \in Seq(Nat \ {0}) /\ s \in Seq(Nat \ {0})
    BY <1>3
  <2>. QED
    BY <2>1, <2>2, Zenon
<1>8. ASSUME NEW v \in ToSet(t) PROVE v \in ToSet(s) /\ v < s[k]
  <2>1. PICK i \in 1..(n - k) : v = t[i]
    BY <1>3, <1>7
  <2>2. PICK j \in 1..n : t[i] = s[j] /\ s[j] < s[k]
    BY <1>5
  <2>. QED
    BY <1>1, <1>7, <2>1, <2>2
<1>9. ASSUME NEW v \in ToSet(s), v < s[k] PROVE v \in ToSet(t)
  <2>1. PICK j \in 1..n : v = s[j]
    BY <1>1, <1>7
  <2>2. PICK i \in 1..(n - k) : t[i] = s[j]
    BY <1>6, <1>9, <2>1
  <2>. QED
    BY <1>3, <1>7, <2>1, <2>2
<1>. QED
  BY <1>3, <1>4, <1>8, <1>9

LEMMA MinOfNats ==
    ASSUME NEW S \in SUBSET Nat, S # {}
    PROVE  Min(S) \in S /\ \A y \in S : Min(S) <= y
<1>1. PICK m \in S : \A y \in S : ~(<<y, m>> \in OpToRel(<, Nat))
  BY NatLessThanWellFounded, WFMin, Zenon
<1>2. ASSUME NEW y \in S PROVE m <= y
  <2>1. y \in Nat /\ m \in Nat /\ ~(y < m)
    BY <1>1 DEF OpToRel
  <2>. QED
    BY <2>1
<1>. QED
  BY <1>2 DEF Min

\* What is left of a history: what is behind the first time the cursor is listed.
Behind(c, h, rest) ==
    \/ c # 0 /\ rest = <<>> /\ \A i \in 1..Len(h) : h[i] # c
    \/ \E k \in 0..Len(h) :
         /\ rest = SubSeq(h, k + 1, Len(h))
         /\ k = 0 => c = 0
         /\ k # 0 => c = h[k]
         /\ \A i \in 1..Len(h) : i < k => h[i] # c

LEMMA RestBehind ==
    ASSUME NEW h \in Seq(Nat \ {0}), NEW w, w.cursor \in Nat,
           NEW rest, rest = HistoryRest(w, h)
    PROVE  Behind(w.cursor, h, rest)
<1>1. PICK c \in Nat : c = w.cursor
  OBVIOUS
<1>2. PICK after : after = {i \in DOMAIN h : h[i] = c}
  OBVIOUS
<1>3. rest = IF c = 0 THEN h
             ELSE IF after = {} THEN <<>>
             ELSE SubSeq(h, Min(after) + 1, Len(h))
  BY <1>1, <1>2 DEF HistoryRest
<1>4. CASE c = 0
  <2>1. h = SubSeq(h, 0 + 1, Len(h)) /\ 0 \in 0..Len(h)
    OBVIOUS
  <2>. QED
    BY <1>1, <1>3, <1>4, <2>1 DEF Behind
<1>5. CASE c # 0 /\ after = {}
  BY <1>1, <1>2, <1>3, <1>5 DEF Behind
<1>6. CASE c # 0 /\ after # {}
  <2>1. after \in SUBSET Nat /\ \A i \in after : i \in 1..Len(h)
    BY <1>2
  <2>2. PICK k \in after : k = Min(after) /\ \A i \in after : k <= i
    BY <1>6, <2>1, MinOfNats
  <2>3. k \in 0..Len(h) /\ k # 0 /\ h[k] = c
    BY <1>2, <2>1
  <2>4. \A i \in 1..Len(h) : i < k => h[i] # c
    <3>1. \A i \in 1..Len(h) : h[i] = c => i \in after
      BY <1>2
    <3>. QED
      BY <2>1, <2>2, <3>1
  <2>5. rest = SubSeq(h, k + 1, Len(h))
    BY <1>3, <1>6, <2>2
  <2>. QED
    BY <1>1, <2>3, <2>4, <2>5 DEF Behind
<1>. QED
  BY <1>4, <1>5, <1>6

LEMMA RestGoesDown ==
    ASSUME NEW h \in Seq(Nat \ {0}), Decreasing(h), NEW w, w.cursor \in Nat,
           NEW rest, rest = HistoryRest(w, h)
    PROVE  /\ Decreasing(rest)
           /\ w.cursor # 0 => \A y \in ToSet(rest) : y < w.cursor
<1>1. CASE rest = <<>>
  BY <1>1 DEF Decreasing, ToSet
<1>2. ASSUME NEW k \in 1..Len(h), rest = SubSeq(h, k + 1, Len(h)), w.cursor = h[k]
      PROVE  Decreasing(rest) /\ \A y \in ToSet(rest) : y < w.cursor
  <2>1. Decreasing(rest) /\ ToSet(rest) = {v \in ToSet(h) : v < h[k]}
    BY <1>2, BehindItem
  <2>. QED
    BY <1>2, <2>1
<1>3. CASE rest = SubSeq(h, 0 + 1, Len(h)) /\ w.cursor = 0
  <2>1. h = SubSeq(h, 0 + 1, Len(h))
    OBVIOUS
  <2>. QED
    BY <1>3, <2>1
<1>. QED
  BY <1>1, <1>2, <1>3, RestBehind DEF Behind

\* What history lists for a walk are versions of its document, and none newer
\* than those the walk is to see or has seen is missing before them.
LEMMA HistoryFacts ==
    ASSUME DataInv, NEW w, w.of \in Docs, w.stable \subseteq Versions(w.of),
           NEW h \in Histories(w)
    PROVE  /\ h \in Seq(Nat \ {0}) /\ Unbroken(h, Versions(w.of))
           /\ \A i \in 1..Len(h) : h[i] \in Versions(w.of)
           /\ \A v \in Versions(w.of) : v \in w.stable \cup ToSet(w.items) =>
                Len(h) # 0 /\ v <= h[1]
           /\ Versions(w.of) \subseteq Nat \ {0}
           /\ backend # "github" => Decreasing(h) /\ ~Cut(w, h)
<1>1. PICK d \in Docs : d = w.of
  OBVIOUS
<1>2. PICK V : V = Versions(d)
  OBVIOUS
<1>3. V \subseteq Nat \ {0}
  BY <1>2, RecordsFacts DEF Versions
<1>4. CASE h = VersionsOf(records[d])
  <2>1. h \in Seq(Nat \ {0}) /\ Decreasing(h) /\ ToSet(h) = V
    BY <1>2, <1>4, VersionsGoDown
  <2>2. PICK n \in Nat : n = Len(h)
    BY <2>1
  <2>3. /\ \A i \in 1..n : h[i] \in V /\ h[i] \in Nat
        /\ \A v \in V : \E i \in 1..n : v = h[i]
        /\ \A i, j \in 1..n : i < j => h[i] > h[j]
    BY <2>1, <2>2, ElementsOf DEF Decreasing
  <2>4. Unbroken(h, V)
    <3> SUFFICES ASSUME NEW i \in 1..(n - 1), NEW v \in V, h[i + 1] < v, v < h[i]
                 PROVE  FALSE
      BY <2>2 DEF Unbroken
    <3>1. i \in 1..n /\ i + 1 \in 1..n
      BY <2>2
    <3>2. PICK j \in 1..n : v = h[j]
      BY <2>3
    <3>3. j < i \/ j = i \/ j = i + 1 \/ i + 1 < j
      BY <3>1
    <3>. QED
      BY <2>3, <3>1, <3>2, <3>3
  <2>5. ASSUME NEW v \in V PROVE n # 0 /\ v <= h[1]
    <3>1. PICK j \in 1..n : v = h[j]
      BY <2>3
    <3>2. 1 \in 1..n /\ (j = 1 \/ 1 < j)
      BY <3>1
    <3>. QED
      BY <2>3, <3>1, <3>2
  <2>6. ~Cut(w, h)
    <3>1. \A v \in V : ~\A i \in 1..n : v < h[i]
      BY <2>3
    <3>. QED
      BY <1>1, <1>2, <2>2, <3>1, Zenon DEF Cut
  <2>. QED
    BY <1>1, <1>2, <1>3, <2>1, <2>2, <2>3, <2>4, <2>5, <2>6
<1>5. CASE backend = "github" /\ records[d] # <<>>
  <2>1. /\ h \in UNION {[1..m -> V] : m \in 1..HistoryLimit}
        /\ \A v \in w.stable \cup ToSet(w.items) : v <= h[1]
        /\ Unbroken(h, V)
    BY <1>1, <1>2, <1>5 DEF Histories
  <2>2. PICK m \in 1..HistoryLimit : h \in [1..m -> V]
    BY <2>1
  <2>3. m \in Nat /\ m # 0
    BY <2>2, ClientAssumption
  <2>4. h \in Seq(Nat \ {0}) /\ Len(h) = m
    <3>1. h \in [1..m -> Nat \ {0}]
      BY <1>3, <2>2
    <3>. QED
      BY <2>3, <3>1
  <2>. QED
    BY <1>1, <1>2, <1>3, <1>5, <2>1, <2>2, <2>3, <2>4
<1>. QED
  BY <1>1, <1>4, <1>5 DEF Histories

\* A list that goes from above a version to it or below lists it.
LEMMA Covered ==
    ASSUME NEW V \in SUBSET Nat, NEW h \in Seq(Nat), Unbroken(h, V), NEW v \in V,
           NEW k \in 0..Len(h), NEW l \in 1..Len(h), k < l, h[l] <= v,
           k = 0 => v <= h[1],
           k # 0 => v < h[k]
    PROVE  \E j \in 1..Len(h) : k < j /\ j <= l /\ h[j] = v
<1> DEFINE T == {j \in 1..Len(h) : k < j /\ j <= l /\ h[j] <= v}
<1>1. T \in SUBSET Nat /\ T # {}
  BY DEF T
<1>2. PICK j \in T : \A i \in T : j <= i
  BY <1>1, MinOfNats
<1>3. j \in 1..Len(h) /\ k < j /\ j <= l /\ h[j] <= v /\ h[j] \in Nat /\ v \in Nat
  BY <1>2
<1>4. CASE j = 1
  BY <1>3, <1>4
<1>5. CASE j # 1
  <2>1. j - 1 \in 1..Len(h) /\ j - 1 \in 1..(Len(h) - 1) /\ (j - 1) + 1 = j
    BY <1>3, <1>5
  <2>2. h[j - 1] \in Nat
    BY <2>1
  <2>3. v < h[j - 1]
    <3>1. CASE j - 1 = k
      BY <1>5, <3>1
    <3>2. CASE j - 1 # k
      <4>1. j - 1 \notin T
        BY <1>2, <1>3
      <4>2. k < j - 1 /\ j - 1 <= l
        BY <1>3, <3>2
      <4>. QED
        BY <1>3, <2>1, <2>2, <4>1, <4>2
    <3>. QED
      BY <3>1, <3>2
  <2>4. ~(h[j] < v /\ v < h[j - 1])
    BY <2>1 DEF Unbroken
  <2>. QED
    BY <1>3, <2>2, <2>3, <2>4
<1>. QED
  BY <1>4, <1>5

-----------------------------------------------------------------------------
(* The documents of a list, sorted *)

Rank(d, S) == Cardinality({e \in S : e <= d})

\* The ranks of the members of a set are 1, 2, ... up to their number, ...
LEMMA RankTyped ==
    ASSUME NEW S \in SUBSET Nat, IsFiniteSet(S), NEW d \in S
    PROVE  Rank(d, S) \in 1..Cardinality(S)
<1> DEFINE P == {e \in S : e <= d}
<1>1. IsFiniteSet(P) /\ Cardinality(P) <= Cardinality(S) /\ Cardinality(S) \in Nat
  BY FS_Subset, FS_CardinalityType
<1>2. Cardinality(P) \in Nat
  BY <1>1, FS_CardinalityType
<1>3. Cardinality(P) # 0
  <2>1. d \in P
    OBVIOUS
  <2>2. Cardinality(P) = 0 <=> P = {}
    BY <1>1, FS_EmptySet
  <2>. QED
    BY <2>1, <2>2
<1>. QED
  BY <1>1, <1>2, <1>3 DEF Rank

\* ... a smaller one's before a larger one's, ...
LEMMA RankOrders ==
    ASSUME NEW S \in SUBSET Nat, IsFiniteSet(S), NEW c \in S, NEW d \in S, c < d
    PROVE  Rank(c, S) < Rank(d, S)
<1> DEFINE P == {e \in S : e <= c}
           Q == {e \in S : e <= d}
<1>1. IsFiniteSet(Q) /\ P \in SUBSET Q /\ d \in Q /\ d \notin P
  <2>1. Q \in SUBSET S
    OBVIOUS
  <2>2. IsFiniteSet(Q)
    BY <2>1, FS_Subset
  <2>3. \A e \in P : e \in Q
    OBVIOUS
  <2>4. d \in Q /\ d \notin P
    OBVIOUS
  <2> HIDE DEF P, Q
  <2>. QED
    BY <2>2, <2>3, <2>4
<1> HIDE DEF P, Q
<1>2. /\ IsFiniteSet(P) /\ Cardinality(P) <= Cardinality(Q)
      /\ Cardinality(Q) = Cardinality(P) => Q = P
  BY <1>1, FS_Subset
<1>3. Cardinality(P) \in Nat /\ Cardinality(Q) \in Nat /\ Cardinality(P) # Cardinality(Q)
  BY <1>1, <1>2, FS_CardinalityType
<1>4. Cardinality(P) < Cardinality(Q)
  BY <1>2, <1>3
<1>. QED
  BY <1>4 DEF Rank, P, Q

\* ... so that every rank is some member's.
LEMMA RanksAreTaken ==
    ASSUME NEW S \in SUBSET Nat, IsFiniteSet(S), NEW i \in 1..Cardinality(S)
    PROVE  \E d \in S : Rank(d, S) = i
<1> DEFINE f == [d \in S |-> Rank(d, S)]
           n == Cardinality(S)
<1>1. n \in Nat
  BY FS_CardinalityType
<1>2. IsFiniteSet(1..n) /\ Cardinality(1..n) = n
  BY <1>1, FS_Interval
<1>3. f \in [S -> 1..n]
  BY RankTyped
<1>4. ASSUME NEW c \in S, NEW d \in S, f[c] = f[d] PROVE c = d
  <2>1. Rank(c, S) = Rank(d, S) /\ Rank(c, S) \in Int /\ c \in Int /\ d \in Int
    BY <1>1, <1>4, RankTyped
  <2>2. c < d => Rank(c, S) < Rank(d, S)
    BY RankOrders
  <2>3. d < c => Rank(d, S) < Rank(c, S)
    BY RankOrders
  <2>. QED
    BY <2>1, <2>2, <2>3
<1> HIDE DEF f
<1>5. f \in Injection(S, 1..n)
  BY <1>3, <1>4 DEF Injection, IsInjective
<1>6. f \in Surjection(S, 1..n)
  BY <1>2, <1>5, FS_Injection
<1>7. \E d \in S : f[d] = i
  BY <1>6 DEF Surjection
<1>. QED
  BY <1>7 DEF f

LEMMA SortedFacts ==
    ASSUME NEW S \in SUBSET Nat, IsFiniteSet(S)
    PROVE  Sorted(S) \in Seq(Nat) /\ Increasing(Sorted(S)) /\ ToSet(Sorted(S)) = S
<1> DEFINE n == Cardinality(S)
           s == Sorted(S)
<1>1. n \in Nat /\ DOMAIN s = 1..n
  BY FS_CardinalityType DEF Sorted
<1>3. ASSUME NEW i \in 1..n PROVE s[i] \in S /\ Rank(s[i], S) = i
  <2>1. \E d \in S : Rank(d, S) = i
    BY RanksAreTaken
  <2>. QED
    BY <2>1 DEF Sorted, Rank
<1>4. s \in Seq(Nat) /\ Len(s) = n
  <2>1. s \in [1..n -> Nat]
    BY <1>3 DEF Sorted
  <2>. QED
    BY <1>1, <2>1
<1>2. n \in Nat /\ DOMAIN s = 1..n
  BY <1>1
<1> HIDE DEF s
<1>5. ASSUME NEW i \in 1..n, NEW j \in 1..n, i < j PROVE s[i] < s[j]
  <2>1. PICK c \in S, d \in S : c = s[i] /\ d = s[j]
    BY <1>3
  <2>2. Rank(c, S) = i /\ Rank(d, S) = j /\ i \in Int /\ j \in Int
    BY <1>3, <2>1
  <2>3. c \in Int /\ d \in Int
    OBVIOUS
  <2>4. d < c => Rank(d, S) < Rank(c, S)
    BY RankOrders
  <2>. QED
    BY <1>5, <2>1, <2>2, <2>3, <2>4
<1>6. Increasing(s)
  BY <1>4, <1>5 DEF Increasing
<1>7. ASSUME NEW d \in S PROVE \E i \in 1..n : s[i] = d
  <2>1. PICK i \in 1..n : i = Rank(d, S)
    BY RankTyped
  <2>2. PICK c \in S : c = s[i]
    BY <1>3
  <2>3. Rank(c, S) = Rank(d, S) /\ Rank(d, S) \in Int /\ c \in Int /\ d \in Int
    <3>1. \A e \in S : e \in Int
      OBVIOUS
    <3>2. i \in Int
      OBVIOUS
    <3>. QED
      BY <1>3, <2>1, <2>2, <3>1, <3>2
  <2>4. c < d => Rank(c, S) < Rank(d, S)
    BY RankOrders
  <2>5. d < c => Rank(d, S) < Rank(c, S)
    BY RankOrders
  <2>. QED
    BY <2>2, <2>3, <2>4, <2>5
<1>8. ToSet(s) = S
  <2>1. ToSet(s) = {s[i] : i \in 1..n}
    BY <1>2 DEF ToSet
  <2>2. \A x \in ToSet(s) : x \in S
    BY <1>3, <2>1
  <2>3. \A x \in S : x \in ToSet(s)
    BY <1>7, <2>1
  <2>. QED
    BY <2>2, <2>3
<1>. QED
  BY <1>4, <1>6, <1>8 DEF s

-----------------------------------------------------------------------------
(* The walk, page by page *)

LEMMA MinOfTwo ==
    ASSUME NEW a \in Nat, NEW b \in Nat
    PROVE  Min({a, b}) = IF a <= b THEN a ELSE b
<1>1. CASE a <= b
  <2>1. \A x \in {a, b} : (\A y \in {a, b} : x =< y) <=> x = a
    BY <1>1
  <2>. QED
    BY <1>1, <2>1 DEF Min
<1>2. CASE ~(a <= b)
  <2>1. \A x \in {a, b} : (\A y \in {a, b} : x =< y) <=> x = b
    BY <1>2
  <2>. QED
    BY <1>2, <2>1 DEF Min
<1>. QED
  BY <1>1, <1>2

\* Items in an order R, which is that of a list or of a history.
Ordered(R, items) ==
    \A i, j \in 1..Len(items) : i < j => <<items[i], items[j]>> \in R

Down == {x \in Nat \X Nat : x[1] > x[2]}

Up == {x \in Nat \X Nat : x[1] < x[2]}

\* One page more: the first m of what is left.
PageOK(R, items, rest, m) ==
    LET page == SubSeq(rest, 1, m)
        out  == items \o page
    IN  /\ out \in Seq(Nat) /\ Ordered(R, out)
        /\ ToSet(items) \subseteq ToSet(out)
        /\ m = Len(rest) => ToSet(rest) \subseteq ToSet(out)
        /\ m # 0 => /\ Last(page) = rest[m] /\ rest[m] \in ToSet(rest)
                    /\ \A x \in ToSet(out) : x = rest[m] \/ <<x, rest[m]>> \in R
                    /\ \A y \in ToSet(rest) : y \in ToSet(out) \/ <<rest[m], y>> \in R

LEMMA PageShown ==
    ASSUME NEW R, NEW items \in Seq(Nat), Ordered(R, items),
           NEW rest \in Seq(Nat), Ordered(R, rest),
           \A x \in ToSet(items), y \in ToSet(rest) : <<x, y>> \in R,
           NEW m \in 0..Len(rest)
    PROVE  PageOK(R, items, rest, m)
<1>1. PICK n \in Nat : n = Len(items)
  OBVIOUS
<1>2. PICK l \in Nat : l = Len(rest)
  OBVIOUS
<1>13. PICK page, out : page = SubSeq(rest, 1, m) /\ out = items \o page
  OBVIOUS
<1>3. /\ page \in Seq(Nat) /\ Len(page) = m /\ m \in Nat /\ m <= l
      /\ \A i \in 1..m : page[i] = rest[i] /\ i \in 1..l
  BY <1>2, <1>13
<1>4. /\ out \in Seq(Nat) /\ Len(out) = n + m
      /\ \A i \in 1..n : out[i] = items[i] /\ i \in 1..(n + m)
      /\ \A i \in 1..m : out[n + i] = rest[i] /\ n + i \in 1..(n + m)
  BY <1>1, <1>3, <1>13
<1>5. \A i \in 1..(n + m) : i \in 1..n \/ (i - n \in 1..m /\ n + (i - n) = i)
  BY <1>1, <1>3
<1>6. /\ \A i \in 1..n : items[i] \in Nat /\ items[i] \in ToSet(items)
      /\ \A i \in 1..l : rest[i] \in Nat /\ rest[i] \in ToSet(rest)
      /\ \A x \in ToSet(items) : \E i \in 1..n : x = items[i]
      /\ \A y \in ToSet(rest) : \E i \in 1..l : y = rest[i]
      /\ \A i \in 1..(n + m) : out[i] \in ToSet(out)
      /\ \A x \in ToSet(out) : \E i \in 1..(n + m) : x = out[i]
  <2>1. \A u \in Seq(Nat) :
          /\ \A i \in 1..Len(u) : u[i] \in Nat /\ u[i] \in ToSet(u)
          /\ \A x \in ToSet(u) : \E i \in 1..Len(u) : x = u[i]
    BY ElementsOf, Zenon
  <2>2. rest \in Seq(Nat)
    OBVIOUS
  <2>. QED
    BY <1>1, <1>2, <1>4, <2>1, <2>2, Zenon
<1>7. /\ \A i, j \in 1..n : i < j => <<items[i], items[j]>> \in R
      /\ \A i, j \in 1..l : i < j => <<rest[i], rest[j]>> \in R
      /\ \A i \in 1..n, j \in 1..l : <<items[i], rest[j]>> \in R
  BY <1>1, <1>2, <1>6 DEF Ordered
<1>8. Ordered(R, out)
  <2> SUFFICES ASSUME NEW i \in 1..(n + m), NEW j \in 1..(n + m), i < j
               PROVE  <<out[i], out[j]>> \in R
    BY <1>4 DEF Ordered
  <2>1. CASE i \in 1..n /\ j \in 1..n
    BY <1>4, <1>7, <2>1
  <2>2. CASE i \in 1..n /\ j - n \in 1..m /\ n + (j - n) = j
    <3>1. out[i] = items[i] /\ out[j] = rest[j - n] /\ j - n \in 1..l
      BY <1>3, <1>4, <2>2
    <3>. QED
      BY <1>7, <2>2, <3>1
  <2>3. CASE i - n \in 1..m /\ n + (i - n) = i /\ j - n \in 1..m /\ n + (j - n) = j
    <3>1. PICK a \in 1..m, b \in 1..m : a = i - n /\ b = j - n
      BY <2>3
    <3>2. n + a = i /\ n + b = j /\ a < b
      BY <1>1, <1>3, <3>1
    <3>3. out[i] = rest[a] /\ out[j] = rest[b] /\ a \in 1..l /\ b \in 1..l
      BY <1>3, <1>4, <3>2
    <3>. QED
      BY <1>7, <3>2, <3>3
  <2>4. ~(i - n \in 1..m /\ j \in 1..n)
    BY <1>1, <1>3
  <2>. QED
    BY <1>5, <2>1, <2>2, <2>3, <2>4
<1>9. ToSet(items) \subseteq ToSet(out)
  <2> SUFFICES ASSUME NEW x \in ToSet(items) PROVE x \in ToSet(out)
    OBVIOUS
  <2>1. PICK i \in 1..n : x = items[i]
    BY <1>6
  <2>. QED
    BY <1>4, <1>6, <2>1
<1>10. ASSUME NEW i \in 1..m PROVE rest[i] \in ToSet(out)
  <2>1. n + i \in 1..(n + m) /\ out[n + i] = rest[i]
    BY <1>4
  <2>. QED
    BY <1>6, <2>1
<1>11. ASSUME m # 0
       PROVE  /\ Last(page) = rest[m] /\ rest[m] \in ToSet(rest)
              /\ \A x \in ToSet(out) : x = rest[m] \/ <<x, rest[m]>> \in R
              /\ \A y \in ToSet(rest) : y \in ToSet(out) \/ <<rest[m], y>> \in R
  <2>1. /\ m \in 1..m /\ m \in 1..l /\ Last(page) = rest[m]
        /\ rest[m] \in Nat /\ rest[m] \in ToSet(rest)
    BY <1>3, <1>6, <1>11 DEF Last
  <2>2. ASSUME NEW x \in ToSet(out) PROVE x = rest[m] \/ <<x, rest[m]>> \in R
    <3>0. PICK i \in 1..(n + m) : x = out[i]
      BY <1>6
    <3>1. CASE i \in 1..n
      <4>1. x = items[i] /\ items[i] \in Nat /\ <<items[i], rest[m]>> \in R
        BY <1>4, <1>6, <1>7, <2>1, <3>0, <3>1
      <4>. QED
        BY <2>1, <4>1
    <3>2. CASE i - n \in 1..m /\ n + (i - n) = i
      <4>1. PICK k \in 1..m : k = i - n /\ n + k = i
        BY <3>2
      <4>2. x = rest[k] /\ k \in 1..l /\ rest[k] \in Nat
        BY <1>3, <1>4, <1>6, <3>0, <4>1
      <4>3. k < m \/ k = m
        BY <1>3
      <4>. QED
        BY <1>7, <2>1, <4>2, <4>3
    <3>. QED
      BY <1>5, <3>1, <3>2
  <2>3. ASSUME NEW y \in ToSet(rest) PROVE y \in ToSet(out) \/ <<rest[m], y>> \in R
    <3>0. PICK i \in 1..l : y = rest[i]
      BY <1>6
    <3>1. i \in 1..m \/ m < i
      BY <1>3
    <3>2. CASE i \in 1..m
      BY <1>10, <3>0, <3>2
    <3>3. CASE m < i
      BY <1>6, <1>7, <2>1, <3>0, <3>3
    <3>. QED
      BY <3>1, <3>2, <3>3
  <2>. QED
    BY <2>1, <2>2, <2>3
<1>12. ASSUME m = l, NEW y \in ToSet(rest) PROVE y \in ToSet(out)
  BY <1>6, <1>10, <1>12
<1>. QED
  BY <1>2, <1>3, <1>4, <1>13, <1>8, <1>9, <1>11, <1>12 DEF PageOK

LEMMA OrderMeans ==
    ASSUME NEW s \in Seq(Nat)
    PROVE  /\ Ordered(Down, s) <=> Decreasing(s)
           /\ Ordered(Up, s) <=> Increasing(s)
<1>1. \A i \in 1..Len(s) : s[i] \in Nat
  OBVIOUS
<1>2. \A x, y \in Nat : <<x, y>> \in Down <=> x > y
  BY DEF Down
<1>3. \A x, y \in Nat : <<x, y>> \in Up <=> x < y
  BY DEF Up
<1>. QED
  BY <1>1, <1>2, <1>3 DEF Ordered, Decreasing, Increasing

\* What a page more makes of a walk: the first m of what is left.
PageTurned(w, rest, t) ==
    \E m \in 0..Len(rest) :
        /\ t.items = w.items \o SubSeq(rest, 1, m)
        /\ t.done => m = Len(rest)
        /\ ~t.done => m # 0 /\ t.cursor = rest[m]

LEMMA TurnShape ==
    ASSUME NEW w \in Walk, NEW h, NEW rest \in Seq(Nat), rest = Rest(w, h),
           NEW limit \in Limits, NEW t, t = Turn(w, limit, h)
    PROVE  /\ t \in Walk /\ t.kind = w.kind /\ t.of = w.of /\ t.stable = w.stable
           /\ PageTurned(w, rest, t)
<1>1. PICK items \in Seq(Nat) : items = w.items
  BY WalkFields
<1>2. PICK l \in Nat : l = Len(rest)
  OBVIOUS
<1>3. limit \in Nat /\ limit # 0
  BY ClientAssumption
<1>4. PICK m \in 0..l : m = Min({limit, Len(rest)}) /\ m = IF limit <= l THEN limit ELSE l
  BY <1>2, <1>3, MinOfTwo
<1>5. PICK page, out : page = SubSeq(rest, 1, m) /\ out = items \o page
  OBVIOUS
<1>6. page \in Seq(Nat) /\ out \in Seq(Nat) /\ Len(page) = m
  <2>1. page \in Seq(Nat) /\ Len(page) = m
    BY <1>2, <1>5
  <2>. QED
    BY <1>5, <2>1
<1>7. m # 0 => Last(page) = rest[m] /\ rest[m] \in Nat
  <2> SUFFICES ASSUME m # 0 PROVE Last(page) = rest[m] /\ rest[m] \in Nat
    OBVIOUS
  <2>1. m \in 1..l /\ m \in 1..m
    BY <1>2
  <2>2. page[m] = rest[m] /\ rest[m] \in Nat
    BY <1>2, <1>5, <2>1
  <2>. QED
    BY <1>6, <2>2 DEF Last
<1>8. PICK done \in BOOLEAN : done = ~(l > limit)
  OBVIOUS
<1>9. PICK c \in Nat : c = IF l > limit THEN Last(page) ELSE w.cursor
  <2>1. CASE l > limit
    <3>1. m # 0
      BY <1>3, <1>4, <2>1
    <3>. QED
      BY <1>7, <2>1, <3>1
  <2>2. CASE ~(l > limit)
    <3>1. w.cursor \in Nat
      BY WalkFields
    <3>. QED
      BY <2>2, <3>1
  <2>. QED
    BY <2>1, <2>2
<1>12. PICK cut \in BOOLEAN : cut = Cut(w, h)
  BY Zenon DEF Cut
<1>10. t = Turned(w, out, done, cut, c)
  <2>1. t = [w EXCEPT !.items = w.items \o SubSeq(rest, 1, Min({limit, Len(rest)})),
                      !.done = ~(Len(rest) > limit), !.cut = Cut(w, h),
                      !.cursor = IF Len(rest) > limit
                                 THEN Last(SubSeq(rest, 1, Min({limit, Len(rest)})))
                                 ELSE w.cursor]
    BY Zenon DEF Turn
  <2>. QED
    BY <1>1, <1>2, <1>4, <1>5, <1>8, <1>9, <1>12, <2>1, Zenon DEF Turned
<1>11. /\ t \in Walk /\ t.kind = w.kind /\ t.of = w.of /\ t.stable = w.stable
       /\ t.items = out /\ t.done = done /\ t.cut = cut /\ t.cursor = c
  <2>1. /\ t.kind = w.kind /\ t.of = w.of /\ t.stable = w.stable
        /\ t.items = out /\ t.done = done /\ t.cut = cut /\ t.cursor = c
    BY <1>10, WalkFields DEF Fields, Turned
  <2>2. out \in Seq(Nat) /\ done \in BOOLEAN /\ cut \in BOOLEAN /\ c \in Nat
    BY <1>6
  <2>3. CASE w \in [kind : {"list"}, of : SUBSET Docs, cursor : Nat, items : Seq(Nat),
                    stable : SUBSET Nat, done : BOOLEAN, cut : BOOLEAN]
    <3>1. t \in [kind : {"list"}, of : SUBSET Docs, cursor : Nat, items : Seq(Nat),
                  stable : SUBSET Nat, done : BOOLEAN, cut : BOOLEAN]
      BY <1>10, <2>2, <2>3 DEF Turned
    <3>. QED
      BY <2>1, <3>1 DEF Walk
  <2>4. CASE w \in [kind : {"history"}, of : Docs, cursor : Nat, items : Seq(Nat),
                    stable : SUBSET Nat, done : BOOLEAN, cut : BOOLEAN]
    <3>1. t \in [kind : {"history"}, of : Docs, cursor : Nat, items : Seq(Nat),
                  stable : SUBSET Nat, done : BOOLEAN, cut : BOOLEAN]
      BY <1>10, <2>2, <2>4 DEF Turned
    <3>. QED
      BY <2>1, <3>1 DEF Walk
  <2>. QED
    BY <2>3, <2>4 DEF Walk
<1>13. /\ t.items = w.items \o SubSeq(rest, 1, m)
       /\ t.done => m = Len(rest)
       /\ ~t.done => m # 0 /\ t.cursor = rest[m]
  <2>1. t.items = w.items \o SubSeq(rest, 1, m)
    BY <1>1, <1>5, <1>11
  <2>2. t.done <=> ~(l > limit)
    BY <1>8, <1>11, Zenon
  <2>3. ~(l > limit) => m = Len(rest)
    BY <1>2, <1>3, <1>4
  <2>4. l > limit => m # 0
    BY <1>3, <1>4
  <2>5. l > limit => t.cursor = rest[m]
    BY <1>7, <1>9, <1>11, <2>4
  <2>. QED
    BY <2>1, <2>2, <2>3, <2>4, <2>5, Zenon
<1>14. m \in 0..Len(rest)
  BY <1>2
<1>. QED
  BY <1>11, <1>13, <1>14, Zenon DEF PageTurned

LEMMA TurnCut ==
    ASSUME NEW w \in Walk, NEW h, NEW limit, NEW t, t = Turn(w, limit, h)
    PROVE  t.cut <=> Cut(w, h)
<1>1. DOMAIN w = Fields
  BY WalkFields
<1>. QED
  BY <1>1, Zenon DEF Turn, Fields

\* What one page more leaves of a walk in either order.
LEMMA TurnShown ==
    ASSUME NEW w \in Walk, NEW R, NEW h, NEW rest \in Seq(Nat), rest = Rest(w, h),
           Ordered(R, w.items), Ordered(R, rest),
           \A x \in ToSet(w.items), y \in ToSet(rest) : <<x, y>> \in R,
           NEW limit \in Limits, NEW t, t = Turn(w, limit, h)
    PROVE  /\ t \in Walk /\ t.kind = w.kind /\ t.of = w.of /\ t.stable = w.stable
           /\ Ordered(R, t.items) /\ ToSet(w.items) \subseteq ToSet(t.items)
           /\ t.done => ToSet(rest) \subseteq ToSet(t.items)
           /\ ~t.done =>
                /\ t.cursor \in ToSet(rest)
                /\ \A x \in ToSet(t.items) : x = t.cursor \/ <<x, t.cursor>> \in R
                /\ \A y \in ToSet(rest) : y \in ToSet(t.items) \/ <<t.cursor, y>> \in R
<1>1. PICK items \in Seq(Nat) : items = w.items
  BY WalkFields
<1>2. PICK m \in 0..Len(rest) :
        /\ t.items = items \o SubSeq(rest, 1, m)
        /\ t.done => m = Len(rest)
        /\ ~t.done => m # 0 /\ t.cursor = rest[m]
  <2>1. PageTurned(w, rest, t)
    BY TurnShape
  <2>. QED
    BY <1>1, <2>1, Zenon DEF PageTurned
<1>3. t \in Walk /\ t.kind = w.kind /\ t.of = w.of /\ t.stable = w.stable
  BY TurnShape
<1>4. PageOK(R, items, rest, m)
  BY <1>1, PageShown
<1>5. /\ Ordered(R, t.items)
      /\ ToSet(items) \subseteq ToSet(t.items)
      /\ m = Len(rest) => ToSet(rest) \subseteq ToSet(t.items)
      /\ m # 0 => /\ rest[m] \in ToSet(rest)
                  /\ \A x \in ToSet(t.items) : x = rest[m] \/ <<x, rest[m]>> \in R
                  /\ \A y \in ToSet(rest) : y \in ToSet(t.items) \/ <<rest[m], y>> \in R
  BY <1>2, <1>4, Zenon DEF PageOK
<1>6. ASSUME ~t.done
      PROVE  /\ t.cursor \in ToSet(rest)
             /\ \A x \in ToSet(t.items) : x = t.cursor \/ <<x, t.cursor>> \in R
             /\ \A y \in ToSet(rest) : y \in ToSet(t.items) \/ <<t.cursor, y>> \in R
  BY <1>2, <1>5, <1>6, Zenon
<1>. QED
  BY <1>1, <1>2, <1>3, <1>5, <1>6, Zenon

PageShows(items, rest, m, out) ==
    /\ out \in Seq(Nat)
    /\ \A x \in ToSet(items) : x \in ToSet(out)
    /\ \A i \in 1..m : rest[i] \in ToSet(out)
    /\ \A x \in ToSet(out) : x \in ToSet(items) \/ \E i \in 1..m : x = rest[i]

LEMMA PageItems ==
    ASSUME NEW items \in Seq(Nat), NEW rest \in Seq(Nat), NEW m \in 0..Len(rest),
           NEW out, out = items \o SubSeq(rest, 1, m)
    PROVE  PageShows(items, rest, m, out)
<1>1. PICK n \in Nat : n = Len(items)
  OBVIOUS
<1>2. PICK page : page = SubSeq(rest, 1, m)
  OBVIOUS
<1>3. /\ page \in Seq(Nat) /\ Len(page) = m /\ m \in Nat
      /\ \A i \in 1..m : page[i] = rest[i]
  BY <1>2
<1>10. out = items \o page
  BY <1>2
<1>4. /\ out \in Seq(Nat) /\ Len(out) = n + m
      /\ \A i \in 1..n : out[i] = items[i] /\ i \in 1..(n + m)
      /\ \A i \in 1..m : out[n + i] = rest[i] /\ n + i \in 1..(n + m)
  BY <1>1, <1>3, <1>10
<1>5. \A i \in 1..(n + m) : i \in 1..n \/ (i - n \in 1..m /\ n + (i - n) = i)
  BY <1>1, <1>3
<1>6. /\ \A i \in 1..n : items[i] \in ToSet(items)
      /\ \A x \in ToSet(items) : \E i \in 1..n : x = items[i]
      /\ \A i \in 1..(n + m) : out[i] \in ToSet(out)
      /\ \A x \in ToSet(out) : \E i \in 1..(n + m) : x = out[i]
  <2>1. \A u \in Seq(Nat) :
          /\ \A i \in 1..Len(u) : u[i] \in Nat /\ u[i] \in ToSet(u)
          /\ \A x \in ToSet(u) : \E i \in 1..Len(u) : x = u[i]
    BY ElementsOf, Zenon
  <2>2. items \in Seq(Nat) /\ out \in Seq(Nat)
    BY <1>4
  <2>. QED
    <3>1. /\ \A i \in 1..Len(items) : items[i] \in ToSet(items)
          /\ \A x \in ToSet(items) : \E i \in 1..Len(items) : x = items[i]
      BY <2>1, <2>2, Zenon
    <3>2. /\ \A i \in 1..Len(out) : out[i] \in ToSet(out)
          /\ \A x \in ToSet(out) : \E i \in 1..Len(out) : x = out[i]
      BY <2>1, <2>2, Zenon
    <3>3. Len(out) = n + m /\ Len(items) = n
      BY <1>1, <1>4
    <3>. QED
      BY <3>1, <3>2, <3>3, Zenon
<1>7. ASSUME NEW x \in ToSet(items) PROVE x \in ToSet(out)
  <2>1. PICK i \in 1..n : x = items[i]
    BY <1>6
  <2>. QED
    BY <1>4, <1>6, <2>1
<1>8. ASSUME NEW i \in 1..m PROVE rest[i] \in ToSet(out)
  BY <1>4, <1>6
<1>9. ASSUME NEW x \in ToSet(out) PROVE x \in ToSet(items) \/ \E i \in 1..m : x = rest[i]
  <2>1. PICK i \in 1..(n + m) : x = out[i]
    BY <1>6
  <2>2. CASE i \in 1..n
    BY <1>4, <1>6, <2>1, <2>2
  <2>3. CASE i - n \in 1..m /\ n + (i - n) = i
    <3>1. PICK a \in 1..m : a = i - n /\ n + a = i
      BY <2>3
    <3>. QED
      BY <1>4, <2>1, <3>1
  <2>. QED
    BY <1>5, <2>2, <2>3
<1>. QED
  BY <1>4, <1>7, <1>8, <1>9 DEF PageShows

\* Where a version that was there all along is not on the pages so far, it is
\* older than all that is; and the last page only leaves it out if history did.
LEMMA NothingSkipped ==
    ASSUME NEW V \in SUBSET Nat, NEW h \in Seq(Nat \ {0}), Unbroken(h, V),
           NEW w, NEW c \in Nat, c = w.cursor, NEW rest, rest = HistoryRest(w, h),
           NEW v \in V, Len(h) # 0, v <= h[1],
           c # 0 => v < c /\ c \in V /\ c <= h[1],
           NEW m \in 0..Len(rest), \A i \in 1..m : rest[i] # v
    PROVE  /\ rest \in Seq(Nat \ {0})
           /\ \A i \in 1..m : v < rest[i]
           /\ m = Len(rest) => \A i \in 1..Len(h) : v < h[i]
<1>1. PICK n \in Nat : n = Len(h) /\ n # 0
  OBVIOUS
<1>2. /\ \A i \in 1..n : h[i] \in Nat
      /\ v \in Nat /\ h \in Seq(Nat) /\ 0 \in 0..n
  BY <1>1
<1>3. CASE c # 0 /\ rest = <<>> /\ \A i \in 1..n : h[i] # c
  <2>1. Len(rest) = 0 /\ rest \in Seq(Nat \ {0}) /\ m = 0
    BY <1>3
  <2>2. ASSUME NEW i \in 1..n, ~(v < h[i]) PROVE FALSE
    <3>1. h[i] <= c /\ i \in 1..Len(h) /\ 0 < i /\ 0 \in 0..Len(h)
      BY <1>1, <1>2, <1>3, <2>2
    <3>2. \E j \in 1..Len(h) : 0 < j /\ j <= i /\ h[j] = c
      BY <1>2, <1>3, <3>1, Covered
    <3>. QED
      BY <1>1, <1>3, <3>2
  <2>. QED
    BY <1>1, <2>1, <2>2
<1>4. ASSUME NEW k \in 0..n, rest = SubSeq(h, k + 1, n),
             k = 0 => c = 0, k # 0 => c = h[k],
             \A i \in 1..n : i < k => h[i] # c
      PROVE  /\ rest \in Seq(Nat \ {0})
             /\ \A i \in 1..m : v < rest[i]
             /\ m = Len(rest) => \A i \in 1..n : v < h[i]
  <2>1. /\ rest \in Seq(Nat \ {0}) /\ Len(rest) = n - k
        /\ \A i \in 1..(n - k) : rest[i] = h[k + i] /\ k + i \in 1..n
    BY <1>1, <1>4
  <2>2. /\ m \in Nat /\ m <= n - k /\ k \in Nat
        /\ k # 0 => v < h[k]
    BY <1>1, <1>2, <1>4, <2>1
  <2>3. ASSUME NEW i \in 1..m, ~(v < rest[i]) PROVE FALSE
    <3>1. PICK l \in 1..Len(h) : l = k + i /\ k < l
      BY <1>1, <2>1, <2>2
    <3>2. i \in 1..(n - k) /\ rest[i] = h[l]
      BY <2>1, <2>2, <3>1
    <3>3. h[l] <= v
      BY <1>1, <1>2, <2>3, <3>2
    <3>4. k \in 0..Len(h)
      BY <1>1
    <3>5. PICK j \in 1..Len(h) : k < j /\ j <= l /\ h[j] = v
      BY <1>2, <2>2, <3>1, <3>3, <3>4, Covered
    <3>6. PICK a \in 1..m : a = j - k /\ k + a = j
      BY <2>2, <3>1, <3>5
    <3>7. a \in 1..(n - k) /\ rest[a] = v
      BY <1>1, <2>1, <2>2, <3>5, <3>6
    <3>. QED
      BY <3>6, <3>7
  <2>4. ASSUME m = n - k, NEW i \in 1..n, ~(v < h[i]) PROVE FALSE
    <3>1. h[i] <= v
      BY <1>2, <2>4
    <3>2. CASE k < i
      <4>1. PICK a \in 1..m : a = i - k /\ k + a = i
        BY <2>2, <2>4, <3>2
      <4>2. rest[a] = h[i]
        BY <2>1, <2>4, <4>1
      <4>. QED
        BY <2>3, <2>4, <4>1, <4>2
    <3>3. CASE ~(k < i)
      <4>1. k # 0 /\ c = h[k] /\ v < c /\ i # k
        BY <1>1, <1>2, <1>4, <2>2, <3>1, <3>3
      <4>2. c # 0 /\ c \in V /\ c <= h[1] /\ h[i] <= c
        BY <1>1, <1>2, <3>1, <4>1
      <4>3. i \in 1..Len(h) /\ 0 < i /\ 0 \in 0..Len(h)
        BY <1>1
      <4>4. PICK j \in 1..Len(h) : 0 < j /\ j <= i /\ h[j] = c
        BY <1>2, <4>2, <4>3, Covered
      <4>5. j < k
        BY <2>2, <3>3, <4>1, <4>4
      <4>. QED
        BY <1>1, <1>4, <4>4, <4>5
    <3>. QED
      BY <3>2, <3>3
  <2>. QED
    BY <2>1, <2>3, <2>4
<1>5. Behind(c, h, rest)
  BY RestBehind
<1>. QED
  BY <1>1, <1>3, <1>4, <1>5 DEF Behind

LEMMA TurnHistory ==
    ASSUME DataInv, NEW w \in Walk, w.kind = "history", w.of \in Docs,
           w.stable \subseteq Versions(w.of), NEW h \in Histories(w),
           \A v \in w.stable : v \in ToSet(w.items) \/ \A x \in ToSet(w.items) : v < x,
           w.cursor = 0 => ToSet(w.items) = {},
           w.cursor # 0 => w.cursor \in ToSet(w.items),
           w.cursor # 0 /\ w.stable # {} => w.cursor \in Versions(w.of),
           backend # "github" => Decreasing(w.items),
           backend # "github" => \A x \in ToSet(w.items) : x >= w.cursor,
           NEW limit \in Limits
    PROVE  WalkOK(Turn(w, limit, h))
<1>1. PICK rest : rest = HistoryRest(w, h)
  OBVIOUS
<1>2. PICK t : t = Turn(w, limit, h)
  OBVIOUS
<1>3. /\ w.cursor \in Nat /\ w.items \in Seq(Nat) /\ w.stable \in SUBSET Nat
      /\ \A x \in ToSet(w.items) : x \in Nat
  BY WalkFields, MembersOf
<1>4. PICK V : V = Versions(w.of)
  OBVIOUS
<1>5. /\ h \in Seq(Nat \ {0}) /\ Unbroken(h, V) /\ V \in SUBSET Nat /\ V \subseteq Nat \ {0}
      /\ \A i \in 1..Len(h) : h[i] \in V
      /\ \A v \in V : v \in w.stable \cup ToSet(w.items) => Len(h) # 0 /\ v <= h[1]
      /\ backend # "github" => Decreasing(h) /\ ~Cut(w, h)
  BY <1>4, HistoryFacts
<1>6. rest \in Seq(Nat \ {0}) /\ \A i \in 1..Len(rest) : rest[i] \in V
  <2>1. CASE rest = <<>>
    BY <2>1
  <2>2. ASSUME NEW k \in 0..Len(h), rest = SubSeq(h, k + 1, Len(h))
        PROVE  rest \in Seq(Nat \ {0}) /\ \A i \in 1..Len(rest) : rest[i] \in V
    <3>1. PICK n \in Nat : n = Len(h)
      BY <1>5
    <3>2. /\ rest \in Seq(Nat \ {0}) /\ Len(rest) = n - k
          /\ \A i \in 1..(n - k) : rest[i] = h[k + i] /\ k + i \in 1..n
      BY <1>5, <2>2, <3>1
    <3>. QED
      BY <1>5, <3>1, <3>2
  <2>. QED
    BY <1>1, <1>3, <1>5, <2>1, <2>2, RestBehind DEF Behind
<1>7. rest \in Seq(Nat) /\ rest = Rest(w, h)
  BY <1>1, <1>6 DEF Rest
<1>8. /\ t \in Walk /\ t.kind = w.kind /\ t.of = w.of /\ t.stable = w.stable
      /\ t.cut <=> Cut(w, h)
  BY <1>2, <1>7, TurnShape, TurnCut
<1>9. PICK m \in 0..Len(rest) :
        /\ t.items = w.items \o SubSeq(rest, 1, m)
        /\ t.done => m = Len(rest)
        /\ ~t.done => m # 0 /\ t.cursor = rest[m]
  <2>1. PageTurned(w, rest, t)
    BY <1>2, <1>7, TurnShape
  <2>. QED
    BY <2>1, Zenon DEF PageTurned
<1>10. /\ t.items \in Seq(Nat)
       /\ \A x \in ToSet(w.items) : x \in ToSet(t.items)
       /\ \A i \in 1..m : rest[i] \in ToSet(t.items)
       /\ \A x \in ToSet(t.items) : x \in ToSet(w.items) \/ \E i \in 1..m : x = rest[i]
  <2>1. w.items \in Seq(Nat) /\ t.items = w.items \o SubSeq(rest, 1, m)
    BY <1>3, <1>9
  <2>2. PageShows(w.items, rest, m, t.items)
    BY <1>7, <2>1, PageItems
  <2>. QED
    BY <2>2, Zenon DEF PageShows
<1>11. ASSUME NEW v \in t.stable, v \notin ToSet(t.items)
       PROVE  (t.done => t.cut) /\ \A x \in ToSet(t.items) : v < x
  <2>1. /\ v \in w.stable /\ v \in V /\ v \notin ToSet(w.items)
        /\ \A x \in ToSet(w.items) : v < x
    BY <1>4, <1>8, <1>10, <1>11
  <2>2. Len(h) # 0 /\ v <= h[1]
    BY <1>5, <2>1
  <2>3. PICK c \in Nat : c = w.cursor
    BY <1>3
  <2>4. c # 0 => v < c /\ c \in V /\ c <= h[1]
    <3> SUFFICES ASSUME c # 0 PROVE v < c /\ c \in V /\ c <= h[1]
      OBVIOUS
    <3>1. c \in ToSet(w.items) /\ c \in V
      BY <1>4, <2>1, <2>3
    <3>. QED
      BY <1>5, <2>1, <3>1
  <2>5. \A i \in 1..m : rest[i] # v
    BY <1>10, <1>11
  <2>6. /\ \A i \in 1..m : v < rest[i]
        /\ m = Len(rest) => \A i \in 1..Len(h) : v < h[i]
    BY <1>1, <1>5, <2>1, <2>2, <2>3, <2>4, <2>5, NothingSkipped
  <2>7. \A x \in ToSet(t.items) : v < x
    BY <1>10, <2>1, <2>6
  <2>8. t.done => Cut(w, h)
    BY <1>4, <1>9, <2>1, <2>6 DEF Cut
  <2>. QED
    BY <1>8, <2>7, <2>8, Zenon
<1>12. ASSUME ~t.done
       PROVE  /\ t.cursor # 0 /\ t.cursor \in ToSet(t.items)
              /\ t.cursor \in Versions(w.of)
  <2>1. m \in 1..m /\ m \in 1..Len(rest) /\ t.cursor = rest[m]
    BY <1>9, <1>12
  <2>. QED
    BY <1>4, <1>5, <1>6, <1>10, <2>1
<1>13. ASSUME backend # "github"
       PROVE  /\ Decreasing(t.items) /\ ~t.cut
              /\ ~t.done => \A x \in ToSet(t.items) : x >= t.cursor
  <2>1. Decreasing(h) /\ ~Cut(w, h) /\ Decreasing(w.items)
    BY <1>5, <1>13
  <2>2. Decreasing(rest) /\ (w.cursor # 0 => \A y \in ToSet(rest) : y < w.cursor)
    BY <1>1, <1>3, <1>5, <2>1, RestGoesDown
  <2>3. Ordered(Down, rest) /\ Ordered(Down, w.items)
    BY <1>3, <1>7, <2>1, <2>2, OrderMeans
  <2>4. \A x, y \in Nat : <<x, y>> \in Down <=> x > y
    BY DEF Down
  <2>5. ASSUME NEW x \in ToSet(w.items), NEW y \in ToSet(rest) PROVE <<x, y>> \in Down
    <3>1. x \in Nat /\ y \in Nat /\ w.cursor # 0
      BY <1>3, <1>7, MembersOf
    <3>2. x >= w.cursor /\ y < w.cursor
      BY <1>13, <2>2, <3>1
    <3>. QED
      BY <1>3, <2>4, <3>1, <3>2
  <2>6. /\ Ordered(Down, t.items)
        /\ ~t.done => \A x \in ToSet(t.items) : x = t.cursor \/ <<x, t.cursor>> \in Down
    BY <1>2, <1>7, <2>3, <2>5, TurnShown
  <2>7. Decreasing(t.items)
    BY <1>10, <2>6, OrderMeans
  <2>8. ASSUME ~t.done, NEW x \in ToSet(t.items) PROVE x >= t.cursor
    <3>1. t.cursor \in Nat /\ x \in Nat
      BY <1>8, <1>10, WalkFields, MembersOf
    <3>2. x = t.cursor \/ <<x, t.cursor>> \in Down
      BY <2>6, <2>8
    <3>. QED
      BY <2>4, <3>1, <3>2
  <2>9. ~t.cut
    BY <1>8, <2>1, Zenon
  <2>. QED
    BY <2>7, <2>8, <2>9, Zenon
<1>14. HistoryOK(t)
  <2>1. ~t.done => t.stable \subseteq Versions(t.of)
    BY <1>8
  <2>2. t.of = w.of
    BY <1>8
  <2>. QED
    BY <1>11, <1>12, <1>13, <2>1, <2>2, Zenon DEF HistoryOK
<1>15. t.kind # "list"
  BY <1>8
<1>. QED
  BY <1>2, <1>8, <1>14, <1>15, Zenon DEF WalkOK

LEMMA TurnList ==
    ASSUME IsFiniteSet(live), NEW w \in Walk, w.kind = "list", w.of \in SUBSET Docs,
           Increasing(w.items),
           \A x \in ToSet(w.items) : x <= w.cursor,
           w.stable \subseteq live \cap w.of,
           \A d \in w.stable : d \in ToSet(w.items) \/ d > w.cursor,
           NEW limit \in Limits, NEW h
    PROVE  WalkOK(Turn(w, limit, h))
<1>1. PICK rest : rest = Rest(w, h)
  OBVIOUS
<1>2. /\ rest \in Seq(Nat) /\ Increasing(rest)
      /\ ToSet(rest) = {d \in live \cap w.of : d > w.cursor}
  <2>1. PICK S : S = ListRest(w)
    OBVIOUS
  <2>2. S \in SUBSET live /\ S \in SUBSET Nat
    BY <2>1, ClientAssumption DEF ListRest
  <2>3. IsFiniteSet(S)
    BY <2>2, FS_Subset
  <2>4. rest = Sorted(S)
    BY <1>1, <2>1 DEF Rest
  <2>. QED
    BY <2>1, <2>2, <2>3, <2>4, SortedFacts DEF ListRest
<1>3. /\ w.items \in Seq(Nat) /\ w.cursor \in Nat
      /\ \A y \in ToSet(rest) : y \in Nat
      /\ \A x \in ToSet(w.items) : x \in Nat
  BY <1>2, WalkFields, MembersOf
<1>4. Ordered(Up, rest) /\ Ordered(Up, w.items)
  BY <1>2, <1>3, OrderMeans
<1>5. \A x, y \in Nat : <<x, y>> \in Up <=> x < y
  BY DEF Up
<1>6. ASSUME NEW x \in ToSet(w.items), NEW y \in ToSet(rest) PROVE <<x, y>> \in Up
  <2>1. x \in Nat /\ y \in Nat /\ x <= w.cursor /\ y > w.cursor
    BY <1>2, <1>3
  <2>. QED
    BY <1>3, <1>5, <2>1
<1>7. PICK t : t = Turn(w, limit, h)
  OBVIOUS
<1>8. /\ t \in Walk /\ t.kind = w.kind /\ t.of = w.of /\ t.stable = w.stable
      /\ Ordered(Up, t.items) /\ ToSet(w.items) \subseteq ToSet(t.items)
      /\ t.done => ToSet(rest) \subseteq ToSet(t.items)
      /\ ~t.done =>
           /\ t.cursor \in ToSet(rest)
           /\ \A x \in ToSet(t.items) : x = t.cursor \/ <<x, t.cursor>> \in Up
           /\ \A y \in ToSet(rest) : y \in ToSet(t.items) \/ <<t.cursor, y>> \in Up
  BY <1>1, <1>2, <1>4, <1>6, <1>7, TurnShown
<1>9. t.items \in Seq(Nat) /\ Increasing(t.items) /\ \A x \in ToSet(t.items) : x \in Nat
  <2>1. t.items \in Seq(Nat)
    BY <1>8, WalkFields
  <2>. QED
    BY <1>8, <2>1, OrderMeans, MembersOf
<1>10. ASSUME NEW d \in w.stable PROVE d \in ToSet(w.items) \/ d \in ToSet(rest)
  BY <1>2
<1>11. CASE t.done
  <2>1. t.stable \subseteq ToSet(t.items)
    BY <1>8, <1>10, <1>11
  <2>. QED
    BY <1>7, <1>8, <1>9, <1>11, <2>1 DEF WalkOK, ListOK
<1>12. CASE ~t.done
  <2>1. t.cursor \in ToSet(rest) /\ t.cursor \in Nat
    BY <1>3, <1>8, <1>12
  <2>2. ASSUME NEW x \in ToSet(t.items) PROVE x <= t.cursor
    <3>1. x \in Nat /\ (x = t.cursor \/ <<x, t.cursor>> \in Up)
      BY <1>8, <1>9, <1>12
    <3>2. <<x, t.cursor>> \in Up => x < t.cursor
      BY <1>5, <2>1, <3>1
    <3>. QED
      BY <2>1, <3>1, <3>2
  <2>3. ASSUME NEW d \in t.stable PROVE d \in ToSet(t.items) \/ d > t.cursor
    <3>1. d \in ToSet(w.items) \/ d \in ToSet(rest)
      BY <1>8, <1>10
    <3>2. CASE d \in ToSet(rest)
      <4>1. d \in Nat /\ (d \in ToSet(t.items) \/ <<t.cursor, d>> \in Up)
        BY <1>3, <1>8, <1>12, <3>2
      <4>2. <<t.cursor, d>> \in Up => t.cursor < d
        BY <1>5, <2>1, <4>1
      <4>. QED
        BY <2>1, <4>1, <4>2
    <3>. QED
      BY <1>8, <3>1, <3>2
  <2>. QED
    BY <1>7, <1>8, <1>9, <1>12, <2>2, <2>3 DEF WalkOK, ListOK
<1>. QED
  BY <1>11, <1>12

LEMMA FirstPageStep ==
    ASSUME DataInv, IsFiniteSet(live), NEW w \in NewWalks, NEW limit \in Limits,
           NEW h \in Readings(w)
    PROVE  WalkOK(Turn(w, limit, h))
<1>1. ASSUME NEW f \in Filters,
             w = [kind |-> "list", of |-> f, cursor |-> 0, items |-> <<>>,
                  stable |-> live \cap f, done |-> FALSE, cut |-> FALSE]
      PROVE  WalkOK(Turn(w, limit, h))
  <2>1. f \in SUBSET Docs /\ \A d \in f : d \in Nat /\ d > 0
    <3>1. f \in SUBSET Docs /\ \A d \in Docs : d \in Nat \ {0}
      BY ClientAssumption
    <3>. QED
      BY <3>1
  <2>2. /\ w.kind = "list" /\ w.of = f /\ w.cursor = 0
        /\ w.items = <<>> /\ w.stable = live \cap f
    BY <1>1
  <2>3. w \in Walk
    <3>1. PICK S : S = live \cap f
      OBVIOUS
    <3>2. <<>> \in Seq(Nat) /\ S \in SUBSET Nat
      <4>1. \A d \in S : d \in Nat
        BY <2>1, <3>1
      <4>. QED
        BY <4>1
    <3>. QED
      BY <1>1, <2>1, <3>1, <3>2 DEF Walk
  <2>4. Increasing(w.items) /\ ToSet(w.items) = {}
    BY <2>2 DEF Increasing, ToSet
  <2>5. \A d \in w.stable : d > w.cursor
    BY <2>1, <2>2
  <2>. QED
    BY <2>1, <2>2, <2>3, <2>4, <2>5, TurnList
<1>2. ASSUME NEW d \in Docs, NEW newest,
             w = [kind |-> "history", of |-> d, cursor |-> 0, items |-> <<>>,
                  stable |-> {v \in Versions(d) : v <= newest}, done |-> FALSE,
                  cut |-> FALSE]
      PROVE  WalkOK(Turn(w, limit, h))
  <2>1. /\ w.kind = "history" /\ w.of = d /\ w.cursor = 0 /\ w.items = <<>>
        /\ w.stable \subseteq Versions(d)
    BY <1>2
  <2>2. Decreasing(w.items) /\ ToSet(w.items) = {}
    BY <2>1 DEF Decreasing, ToSet
  <2>3. w \in Walk
    <3>1. PICK S : S = {v \in Versions(d) : v <= newest}
      OBVIOUS
    <3>2. <<>> \in Seq(Nat) /\ S \in SUBSET Nat
      <4>1. \A v \in Versions(d) : v \in Nat
        BY RecordsFacts DEF Versions
      <4>2. \A v \in S : v \in Nat
        BY <3>1, <4>1
      <4>. QED
        BY <4>2
    <3>. QED
      BY <1>2, <3>1, <3>2 DEF Walk
  <2>4. h \in Histories(w)
    BY <2>1 DEF Readings
  <2>5. /\ \A v \in w.stable : v \in ToSet(w.items) \/ \A x \in ToSet(w.items) : v < x
        /\ \A x \in ToSet(w.items) : x >= w.cursor
        /\ w.of \in Docs /\ w.stable \subseteq Versions(w.of)
        /\ w.cursor # 0 => w.cursor \in ToSet(w.items)
        /\ w.cursor # 0 /\ w.stable # {} => w.cursor \in Versions(w.of)
    BY <2>1, <2>2
  <2>. QED
    BY <2>1, <2>2, <2>3, <2>4, <2>5, TurnHistory
<1>3. \/ \E f \in Filters :
           w = [kind |-> "list", of |-> f, cursor |-> 0, items |-> <<>>,
                stable |-> live \cap f, done |-> FALSE, cut |-> FALSE]
      \/ \E d \in Docs : \E newest :
           w = [kind |-> "history", of |-> d, cursor |-> 0, items |-> <<>>,
                stable |-> {v \in Versions(d) : v <= newest}, done |-> FALSE,
                cut |-> FALSE]
  BY DEF NewWalks
<1>. QED
  BY <1>1, <1>2, <1>3, Zenon

LEMMA NextPageStep ==
    ASSUME DataInv, IsFiniteSet(live), walk # None, WalkOK(walk), ~walk.done,
           NEW limit \in Limits, NEW h \in Readings(walk)
    PROVE  WalkOK(Turn(walk, limit, h))
<1>1. PICK w \in Walk : w = walk
  BY DEF WalkOK
<1>2. CASE w.kind = "list"
  <2>1. w.of \in SUBSET Docs
    BY <1>2, WalkFields
  <2>2. ListOK(w) /\ ~w.done
    BY <1>1, <1>2 DEF WalkOK
  <2>. QED
    BY <1>1, <1>2, <2>1, <2>2, TurnList DEF ListOK
<1>3. CASE w.kind = "history"
  <2>1. HistoryOK(w) /\ ~w.done /\ w.of \in Docs
    BY <1>1, <1>3, WalkFields DEF WalkOK
  <2>2. /\ w.stable \subseteq Versions(w.of)
        /\ \A v \in w.stable : v \in ToSet(w.items) \/ \A x \in ToSet(w.items) : v < x
        /\ w.cursor # 0 /\ w.cursor \in ToSet(w.items)
        /\ w.stable # {} => w.cursor \in Versions(w.of)
        /\ backend # "github" => Decreasing(w.items)
        /\ backend # "github" => \A x \in ToSet(w.items) : x >= w.cursor
    BY <2>1, Zenon DEF HistoryOK
  <2>3. h \in Histories(w)
    BY <1>1, <1>3 DEF Readings
  <2>. QED
    BY <1>1, <1>3, <2>1, <2>2, <2>3, TurnHistory
<1>. QED
  BY <1>2, <1>3, WalkFields

\* Between the pages versions are only added, or all gone at once; whichever
\* documents come and go, those that were there all along stay.
LEMMA OthersStep ==
    ASSUME DataInv', WalkOK(walk), Others, backend' = backend,
           \A d \in Docs : Versions(d) \subseteq Versions(d)' \/ records'[d] = <<>>
    PROVE  WalkOK(walk)'
<1>1. CASE walk = None \/ walk.done
  BY <1>1 DEF Others, WalkOK
<1>2. CASE walk # None /\ ~walk.done
  <2>1. PICK w \in Walk : w = walk
    BY <1>2 DEF WalkOK
  <2>2. PICK P, S : P = Present(walk, records', live') /\ S = w.stable \cap P
    OBVIOUS
  <2>3. PICK t : t = walk'
    OBVIOUS
  <2>4. /\ t \in Walk
        /\ t.kind = w.kind /\ t.of = w.of /\ t.stable = S
        /\ t.items = w.items /\ t.done = w.done /\ t.cut = w.cut /\ t.cursor = w.cursor
    <3>1. t = Still(w, S)
      BY <1>2, <2>1, <2>2, <2>3 DEF Others, Still
    <3>2. S \in SUBSET Nat
      <4>1. w.stable \in SUBSET Nat
        BY WalkFields
      <4>2. \A x \in w.stable : x \in Nat
        BY <4>1
      <4>3. \A x \in S : x \in w.stable
        BY <2>2
      <4>. QED
        BY <4>2, <4>3
    <3>. QED
      BY <3>1, <3>2, StillTyped
  <2>5. CASE w.kind = "list"
    <3>1. ListOK(w) /\ ~w.done
      BY <1>2, <2>1, <2>5 DEF WalkOK
    <3>2. P = live' \cap w.of
      BY <2>1, <2>2, <2>5 DEF Present
    <3>. QED
      BY <2>2, <2>3, <2>4, <2>5, <3>1, <3>2 DEF WalkOK, ListOK
  <2>6. CASE w.kind = "history"
    <3>1. HistoryOK(w) /\ ~w.done
      BY <1>2, <2>1, <2>6 DEF WalkOK
    <3>2. PICK d \in Docs : d = w.of
      BY <2>6, WalkFields
    <3>3. P = Versions(d)'
      <4>1. PICK r \in Seq(Entry) : r = records'[d]
        BY DEF DataInv
      <4>2. P = ToSet(VersionsOf(r))
        BY <2>1, <2>2, <2>6, <3>2, <4>1 DEF Present
      <4>3. P = {r[i].version : i \in 1..Len(r)}
        BY <4>2, VersionsOfFacts
      <4>. QED
        BY <4>1, <4>3 DEF Versions, Version
    <3>4. CASE Versions(d) \subseteq Versions(d)'
      BY <2>2, <2>3, <2>4, <2>6, <3>1, <3>2, <3>3, <3>4 DEF WalkOK, HistoryOK
    <3>5. CASE records'[d] = <<>>
      <4>1. Versions(d)' = {}
        BY <3>5 DEF Versions
      <4>. QED
        BY <2>2, <2>3, <2>4, <2>6, <3>1, <3>2, <3>3, <4>1 DEF WalkOK, HistoryOK
    <3>. QED
      BY <3>2, <3>4, <3>5
  <2>. QED
    BY <2>5, <2>6, WalkFields
<1>. QED
  BY <1>1, <1>2

LEMMA StoreKeeps ==
    ASSUME DataInv, NEW d \in Docs, Store(d) \/ Drop(d)
    PROVE  \A c \in Docs : Versions(c) \subseteq Versions(c)' \/ records'[c] = <<>>
<1>1. CASE Store(d)
  <2>1. /\ \A c \in Docs \ {d} : records'[c] = records[c]
        /\ \A i \in 1..Len(records[d]) : records'[d][i] = records[d][i]
        /\ Len(records'[d]) = Len(records[d]) + 1 /\ Len(records[d]) \in Nat
    BY <1>1, StoreFacts
  <2>. QED
    BY <2>1 DEF Versions, Version
<1>2. CASE Drop(d)
  BY <1>2 DEF DataInv, Drop, Versions, Version
<1>. QED
  BY <1>1, <1>2

\* What an unpinned get finds has versions; there is no end of documents, but
\* only so many are ever there.
LiveInv ==
    /\ IsFiniteSet(live)
    /\ live \subseteq {d \in Docs : records[d] # <<>>}

LEMMA LiveNext ==
    ASSUME DataInv, LiveInv, [Next]_vars
    PROVE  LiveInv'
<1>1. CASE UNCHANGED <<records, live>>
  BY <1>1 DEF LiveInv
<1>2. ASSUME NEW d \in Docs, Store(d) PROVE LiveInv'
  <2>1. live' = live \cup {d}
    BY <1>2 DEF Store
  <2>2. IsFiniteSet(live')
    BY <2>1, FS_AddElement DEF LiveInv
  <2>3. /\ \A c \in Docs \ {d} : records'[c] = records[c]
        /\ Len(records'[d]) = Len(records[d]) + 1 /\ Len(records[d]) \in Nat
    BY <1>2, StoreFacts
  <2>4. records'[d] # <<>>
    <3>1. Len(<<>>) = 0 /\ Len(records'[d]) # 0
      BY <2>3
    <3>. QED
      BY <3>1
  <2>5. ASSUME NEW c \in live' PROVE c \in Docs /\ records'[c] # <<>>
    BY <2>1, <2>3, <2>4 DEF LiveInv
  <2>. QED
    BY <2>2, <2>5 DEF LiveInv
<1>3. ASSUME NEW d \in Docs, Drop(d) PROVE LiveInv'
  <2>1. live' = live \ {d} /\ \A c \in Docs \ {d} : records'[c] = records[c]
    BY <1>3 DEF Drop, DataInv
  <2>2. IsFiniteSet(live')
    <3>1. live' \in SUBSET live
      BY <2>1
    <3>. QED
      BY <3>1, FS_Subset DEF LiveInv
  <2>. QED
    BY <2>1, <2>2 DEF LiveInv
<1>4. ASSUME NEW d \in Docs, Put(d) \/ Delete(d) \/ WriteFailsButHappens(d)
      PROVE  LiveInv'
  BY <1>1, <1>2, <1>3, <1>4 DEF Put, Delete, WriteFailsButHappens, data
<1>5. CASE \/ UNCHANGED vars \/ \E o \in Options : Load(o)
           \/ OpenDefaultStore \/ Fetch \/ Instantiate \/ FirstPage \/ NextPage
           \/ Get \/ RefusedRequest \/ UnwrittenRequest \/ PutThrows \/ CallFails
  <2>1. UNCHANGED <<records, live>>
    BY <1>5 DEF vars, data, Load, OpenDefaultStore, Fetch, Instantiate, LoadFails, Get,
                RefusedRequest, UnwrittenRequest, PutThrows, CallFails, FirstPage, NextPage
  <2>. QED
    BY <1>1, <2>1
<1>. QED
  BY <1>4, <1>5 DEF Next, Operation

\* No walk starts before the backend is chosen.
WalkReady == walk # None => Ready

LEMMA WalkReadyNext == WalkReady /\ [Next]_vars => WalkReady'
<1> SUFFICES ASSUME WalkReady, [Next]_vars PROVE WalkReady'
  OBVIOUS
<1>1. CASE \/ UNCHANGED vars \/ \E o \in Options : Load(o)
           \/ OpenDefaultStore \/ Fetch \/ Instantiate
  BY <1>1 DEF vars, loading, Load, OpenDefaultStore, Fetch, Instantiate, LoadFails,
              WalkReady, Ready
<1>2. CASE Operation
  <2>1. Ready /\ UNCHANGED loading
    BY <1>2 DEF Operation, Put, Delete, WriteFailsButHappens, Get, RefusedRequest,
                UnwrittenRequest, PutThrows, CallFails, FirstPage, NextPage
  <2>. QED
    BY <2>1 DEF WalkReady, Ready, loading
<1>. QED
  BY <1>1, <1>2 DEF Next

LEMMA WalkNext ==
    ASSUME DataInv, DataInv', LiveInv, WalkReady, WalkOK(walk), [Next]_vars
    PROVE  WalkOK(walk)'
<1>0. IsFiniteSet(live)
  BY DEF LiveInv
<1>1. ASSUME UNCHANGED <<records, live, backend>>, WalkOK(walk') PROVE WalkOK(walk)'
  <2>1. \A d : Versions(d)' = Versions(d)
    BY <1>1 DEF Versions
  <2>. QED
    BY <1>1, <2>1 DEF WalkOK, ListOK, HistoryOK
<1>2. CASE UNCHANGED <<records, live, walk>> /\ (walk # None => backend' = backend)
  <2>1. CASE walk = None
    BY <1>2, <2>1 DEF WalkOK
  <2>2. CASE walk # None
    BY <1>1, <1>2, <2>2
  <2>. QED
    BY <2>1, <2>2
<1>3. ASSUME NEW d \in Docs, Store(d) \/ Drop(d), Others, backend' = backend
      PROVE  WalkOK(walk)'
  BY <1>3, StoreKeeps, OthersStep
<1>4. ASSUME NEW d \in Docs, Put(d) \/ Delete(d) \/ WriteFailsButHappens(d)
      PROVE  WalkOK(walk)'
  BY <1>2, <1>3, <1>4 DEF Put, Delete, WriteFailsButHappens, data, loading
<1>5. CASE FirstPage
  BY <1>0, <1>1, <1>5, FirstPageStep DEF FirstPage, data, loading
<1>6. CASE NextPage
  BY <1>0, <1>1, <1>6, NextPageStep DEF NextPage, data, loading
<1>7. CASE \/ UNCHANGED vars \/ \E o \in Options : Load(o)
           \/ OpenDefaultStore \/ Fetch \/ Instantiate
           \/ Get \/ RefusedRequest \/ UnwrittenRequest \/ PutThrows \/ CallFails
  <2>1. UNCHANGED <<records, live, walk>>
    BY <1>7 DEF vars, data, Load, OpenDefaultStore, Fetch, Instantiate, LoadFails, Get,
                RefusedRequest, UnwrittenRequest, PutThrows, CallFails
  <2>2. phase = "ready" => backend' = backend
    BY <1>7 DEF vars, loading, Load, OpenDefaultStore, Fetch, Instantiate, LoadFails, Get,
                RefusedRequest, UnwrittenRequest, PutThrows, CallFails
  <2>. QED
    BY <1>2, <2>1, <2>2 DEF WalkReady, Ready
<1>. QED
  BY <1>4, <1>5, <1>6, <1>7 DEF Next, Operation

LEMMA WalkShown == WalkOK(walk) => ListWalkComplete /\ HistoryWalkComplete
<1>1. ASSUME WalkOK(walk), walk # None, walk.kind = "list", walk.done
      PROVE  /\ walk.stable \subseteq ToSet(walk.items)
             /\ \A i, j \in DOMAIN walk.items : i < j => walk.items[i] < walk.items[j]
  <2>1. PICK items \in Seq(Nat) : items = walk.items
    BY <1>1, WalkFields DEF WalkOK
  <2>2. Increasing(items) /\ DOMAIN items = 1..Len(items)
    BY <1>1, <2>1 DEF WalkOK, ListOK
  <2>. QED
    BY <1>1, <2>1, <2>2 DEF WalkOK, ListOK, Increasing
<1>2. ASSUME WalkOK(walk), walk # None, walk.kind = "history", walk.done
      PROVE  /\ \A v \in walk.stable \ ToSet(walk.items) :
                  walk.cut /\ \A i \in DOMAIN walk.items : v < walk.items[i]
             /\ backend # "github" =>
                  /\ ~walk.cut
                  /\ \A i, j \in DOMAIN walk.items :
                       i < j => walk.items[i] > walk.items[j]
  <2>1. PICK items \in Seq(Nat) : items = walk.items
    BY <1>2, WalkFields DEF WalkOK
  <2>2. HistoryOK(walk)
    BY <1>2, Zenon DEF WalkOK
  <2>3. DOMAIN items = 1..Len(items) /\ \A i \in DOMAIN items : items[i] \in ToSet(items)
    BY ElementsOf
  <2>4. ASSUME NEW v \in walk.stable \ ToSet(walk.items)
        PROVE  walk.cut /\ \A x \in ToSet(walk.items) : v < x
    BY <1>2, <2>2, <2>4, Zenon DEF HistoryOK
  <2>5. backend # "github" => Decreasing(walk.items) /\ ~walk.cut
    BY <2>2, Zenon DEF HistoryOK
  <2>6. Decreasing(items) => \A i, j \in DOMAIN items : i < j => items[i] > items[j]
    BY <2>3 DEF Decreasing
  <2>. QED
    BY <2>1, <2>3, <2>4, <2>5, <2>6, Zenon
<1>. QED
  BY <1>1, <1>2 DEF ListWalkComplete, HistoryWalkComplete, WalkDone

-----------------------------------------------------------------------------
(* The client itself *)

\* Until the client is ready no backend is chosen, and the one that calls the
\* page's imports is only chosen with a store behind them.
LoadInv ==
    /\ phase \in {"idle", "store", "fetch", "instantiate", "ready"}
    /\ options \in Options \cup {None}
    /\ hostStore \in GivenStores \cup {"indexeddb"}
    /\ backend \in {"memory", "imported", "github"}
    /\ phase # "ready" => backend = "memory"
    /\ backend = "imported" => hostStore # "none"
    /\ transport \in {"xhr", "none", "unused"}

LEMMA LoadNext == LoadInv /\ [Next]_vars => LoadInv'
<1> SUFFICES ASSUME LoadInv, [Next]_vars PROVE LoadInv'
  OBVIOUS
<1>1. CASE UNCHANGED loading
  BY <1>1 DEF LoadInv, loading
<1>2. ASSUME NEW o \in Options, Load(o) PROVE LoadInv'
  <2>1. o.store \in GivenStores /\ o \in Options
    BY DEF Options
  <2>2. /\ phase = "idle" /\ options' = o /\ hostStore' = o.store
        /\ phase' \in {"store", "fetch"} /\ UNCHANGED <<transport, backend>>
    BY <1>2 DEF Load
  <2>. QED
    BY <2>1, <2>2 DEF LoadInv
<1>3. ASSUME LoadFails, phase # "ready" PROVE LoadInv'
  BY <1>3 DEF LoadFails, LoadInv, GivenStores
<1>4. CASE OpenDefaultStore
  BY <1>3, <1>4 DEF OpenDefaultStore, LoadInv
<1>5. CASE Fetch
  BY <1>3, <1>5 DEF Fetch, LoadInv
<1>6. CASE Instantiate
  BY <1>3, <1>6 DEF Instantiate, LoadInv, ChosenBackend
<1>7. CASE Operation
  <2>1. UNCHANGED loading
    BY <1>7 DEF Operation, Put, Delete, WriteFailsButHappens, Get, RefusedRequest,
                UnwrittenRequest, PutThrows, CallFails, FirstPage, NextPage
  <2>. QED
    BY <1>1, <2>1
<1>. QED
  BY <1>1, <1>2, <1>4, <1>5, <1>6, <1>7 DEF Next, vars

AnswerTyped ==
    /\ lastFailure \in BOOLEAN
    /\ answer.kind \in ErrorKinds \cup {"none", "thrown"}
    /\ answer.cause \in Causes
    /\ answer.ok = (answer.kind = "none")

LEMMA AnswerTypedNext == AnswerTyped /\ [Next]_vars => AnswerTyped'
<1> SUFFICES ASSUME AnswerTyped, [Next]_vars PROVE AnswerTyped'
  OBVIOUS
<1>1. /\ lastFailure' = lastFailure \/ lastFailure' = FALSE
         \/ Fails("request", FALSE) \/ HostFails \/ GitHubFails \/ NoCredential
      /\ \/ answer' = answer \/ answer' = Success
         \/ \E kind \in ErrorKinds \cup {"thrown"}, cause \in Causes :
              answer' = Failure(kind, cause)
  <2>1. ASSUME NEW cause \in Causes, NEW r, Fails(cause, r)
        PROVE  \E kind \in ErrorKinds \cup {"thrown"}, c \in Causes :
                 answer' = Failure(kind, c)
    BY <2>1 DEF Fails, ErrorKinds
  <2>2. CASE UNCHANGED vars
    BY <2>2 DEF vars
  <2>3. CASE LoadFails
    BY <2>3 DEF LoadFails, ErrorKinds, Causes
  <2>4. CASE \E o \in Options : Load(o)
    BY <2>4 DEF Load
  <2>5. CASE OpenDefaultStore \/ Fetch \/ Instantiate
    BY <2>3, <2>5 DEF OpenDefaultStore, Fetch, Instantiate
  <2>6. CASE \/ \E d \in Docs : Put(d) \/ Delete(d)
             \/ Get \/ FirstPage \/ NextPage
    BY <2>6 DEF Put, Delete, Get, FirstPage, NextPage, Succeeds
  <2>7. CASE RefusedRequest
    BY <2>1, <2>7 DEF RefusedRequest, ClearedFailure, Causes
  <2>8. CASE UnwrittenRequest \/ PutThrows
    BY <2>8 DEF UnwrittenRequest, PutThrows, ClearedFailure, ErrorKinds, Causes
  <2>9. CASE HostFails \/ GitHubFails \/ NoCredential
    BY <2>1, <2>9 DEF HostFails, GitHubFails, NoCredential, Causes
  <2>10. CASE ResolverThrows
    BY <2>10 DEF ResolverThrows, ErrorKinds, Causes
  <2>11. CASE CallFails \/ \E d \in Docs : WriteFailsButHappens(d)
    BY <2>9, <2>10, <2>11 DEF CallFails, WriteFailsButHappens
  <2>. QED
    BY <2>2, <2>4, <2>5, <2>6, <2>7, <2>8, <2>11 DEF Next, Operation
<1>2. lastFailure' \in BOOLEAN
  BY <1>1 DEF AnswerTyped, Fails, HostFails, GitHubFails, NoCredential
<1>3. CASE answer' = answer
  BY <1>2, <1>3 DEF AnswerTyped
<1>4. CASE answer' = Success
  BY <1>2, <1>4 DEF AnswerTyped, Success, Causes
<1>5. ASSUME NEW kind \in ErrorKinds \cup {"thrown"}, NEW cause \in Causes,
             answer' = Failure(kind, cause)
      PROVE  AnswerTyped'
  BY <1>2, <1>5 DEF AnswerTyped, Failure, ErrorKinds
<1>. QED
  BY <1>1, <1>3, <1>4, <1>5

AckedTyped == acked \subseteq [doc : Docs, version : Nat, val : Values]

LEMMA AckedNext == DataInv /\ AckedTyped /\ [Next]_vars => AckedTyped'
<1> SUFFICES ASSUME DataInv, AckedTyped, [Next]_vars PROVE AckedTyped'
  OBVIOUS
<1>1. CASE acked' \subseteq acked
  BY <1>1 DEF AckedTyped
<1>2. ASSUME NEW d \in Docs, Put(d) PROVE AckedTyped'
  <2>1. Store(d) /\ acked' = acked \cup {Answered(d)}
    BY <1>2 DEF Put
  <2>2. puts' \in 1..MaxPuts /\ puts' \in Values
    <3>1. puts' = puts + 1 /\ puts' \in 0..MaxPuts /\ puts \in Nat
      BY <2>1, StoreFacts
    <3>2. puts' \in 1..MaxPuts
      BY <3>1, ClientAssumption
    <3>. QED
      BY <3>2, ClientAssumption
  <2>3. FreshVersion(d) \in Nat
    BY FreshIsNew
  <2>4. Answered(d) \in [doc : Docs, version : Nat, val : Values]
    BY <2>2, <2>3 DEF Answered
  <2>. QED
    BY <2>1, <2>4 DEF AckedTyped
<1>3. CASE \/ UNCHANGED vars \/ \E o \in Options : Load(o)
           \/ OpenDefaultStore \/ Fetch \/ Instantiate \/ FirstPage \/ NextPage
           \/ Get \/ RefusedRequest \/ UnwrittenRequest \/ PutThrows \/ CallFails
           \/ \E d \in Docs : Delete(d) \/ WriteFailsButHappens(d)
  <2>1. acked' \subseteq acked
    BY <1>3 DEF vars, Load, OpenDefaultStore, Fetch, Instantiate, LoadFails, Get,
                RefusedRequest, UnwrittenRequest, PutThrows, CallFails, FirstPage, NextPage,
                Delete, WriteFailsButHappens
  <2>. QED
    BY <1>1, <2>1
<1>. QED
  BY <1>2, <1>3 DEF Next, Operation

-----------------------------------------------------------------------------

ClientInv ==
    /\ AnswerInv /\ DataInv /\ LiveInv /\ WalkReady /\ WalkOK(walk)
    /\ LoadInv /\ AnswerTyped /\ AckedTyped

LEMMA AlwaysClient == Spec => []ClientInv
<1>1. Init => ClientInv
  <2> SUFFICES ASSUME Init PROVE ClientInv
    OBVIOUS
  <2>1. AnswerInv
    BY DEF Init, AnswerInv, ErrorsNameTheirCause, Success, Failure, IntoEffect
  <2>2. LiveInv
    BY FS_EmptySet DEF Init, LiveInv
  <2>3. LoadInv /\ AckedTyped
    BY DEF Init, LoadInv, GivenStores, AckedTyped
  <2>4. AnswerTyped
    BY DEF Init, AnswerTyped, Success, Causes
  <2>. QED
    BY <2>1, <2>2, <2>3, <2>4, DataInit DEF ClientInv, WalkReady, WalkOK, Init
<1>2. ClientInv /\ [Next]_vars => ClientInv'
  <2> SUFFICES ASSUME ClientInv, [Next]_vars PROVE ClientInv'
    OBVIOUS
  <2>1. DataInv'
    BY DataNext DEF ClientInv
  <2>2. LiveInv' /\ WalkReady' /\ WalkOK(walk)'
    BY <2>1, LiveNext, WalkReadyNext, WalkNext DEF ClientInv
  <2>3. AnswerInv' /\ LoadInv' /\ AnswerTyped' /\ AckedTyped'
    BY AnswerStep, LoadNext, AnswerTypedNext, AckedNext DEF ClientInv
  <2>. QED
    BY <2>1, <2>2, <2>3 DEF ClientInv
<1>. QED
  BY <1>1, <1>2, PTL DEF Spec

LEMMA ClientTyped == ClientInv => TypeOK
BY DEF ClientInv, DataInv, LiveInv, WalkOK, LoadInv, AnswerTyped, AckedTyped, TypeOK

\* The client, its backend, its answers and a walk through pages keep their
\* types; what an unpinned get finds has versions, and the imported backend has
\* a host store behind it (loadSideshowDbClient).
THEOREM WasmClientTypeOK == Spec => []TypeOK
BY AlwaysClient, ClientTyped, PTL

\* Whatever fails and in whatever order, the kind of an error is that of the
\* call that got it (invoke, and intoEffect of the Effect binding).
THEOREM ErrorsSpeakOfTheirCall == Spec => []ErrorsNameTheirCause
BY AlwaysClient, PTL DEF ClientInv, AnswerInv

\* Over every backend, a version that a put answered never reads as the value
\* of another put (the numbering of versions by each store).
THEOREM PinnedReadsAreTrue == Spec => []PinnedReadsNeverLie
BY AlwaysClient, DataPinned, PTL DEF ClientInv

\* Whoever follows next_cursor through a list to its end has seen every document
\* that was there all along, each once and in order, whatever is put or deleted
\* between the pages, the document under the cursor included
\* (buildSummaryListResult).
THEOREM ListWalksAreComplete == Spec => []ListWalkComplete
BY AlwaysClient, WalkShown, PTL DEF ClientInv

\* Whoever follows next_cursor through a history to its end has seen every
\* version that was there all along, each once and newest first, whatever is
\* put or deleted between the pages (buildSummaryHistoryResult).  Over GitHub
\* it has only missed what history_limit cuts off, all of it older than what it
\* has seen, however many versions and whatever limit (GitHubApiRefStore.history).
THEOREM HistoryWalksAreComplete == Spec => []HistoryWalkComplete
BY AlwaysClient, WalkShown, PTL DEF ClientInv
=============================================================================
