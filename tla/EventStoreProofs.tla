-------------------------- MODULE EventStoreProofs --------------------------
(***************************************************************************)
(* The event store for any number of clients, streams and events: streams  *)
(* stay loadable however appends overlap, and where they take turns        *)
(* revisions are stable and a polling reader misses nothing.               *)
(***************************************************************************)
EXTENDS EventStore, SequenceTheorems, TLAPS

\* What a client that waits for its put knows of the stream it read and of its
\* batch.
CallsOK ==
    \A c \in Clients : call[c].pc = "put" =>
        /\ ValidBatch(call[c].stream, call[c].batch)
        /\ \/ call[c].existing = <<>>
           \/ Parses(call[c].stream, call[c].existing)
        /\ RejectsNone(call[c].existing, call[c].batch)

\* Whatever is read next can be loaded.
LatestLoads == \A s \in Streams : Loads(s)

StreamsInv == TypeOK /\ CallsOK /\ LatestLoads /\ StoredStreamsLoad

\* Where appends take turns, the one under way holds the stream as it is.
TurnsOK ==
    mode = "serialized" =>
        \A c \in Clients : call[c].pc = "put" =>
            /\ call[c].existing = Stream(call[c].stream)
            /\ \A d \in Clients : call[d].pc = "put" => c = d

\* The events of an acknowledged append are within the stream.
AckedWithin ==
    mode = "serialized" =>
        \A a \in acked :
            /\ Len(a.batch) \in 1..a.revision
            /\ a.revision <= Len(Stream(a.stream))

TurnsInv ==
    TurnsOK /\ AckedWithin /\ AckedEventsKeepTheirRevision /\ PollingMissesNothing

-----------------------------------------------------------------------------
(* Sequences of events *)

\* A batch checked against a stream can follow it.
LEMMA ConcatParses ==
    ASSUME NEW s \in Streams, NEW old \in Seq(Event), NEW batch \in Seq(Event),
           old = <<>> \/ Parses(s, old), ValidBatch(s, batch), RejectsNone(old, batch)
    PROVE  EncodeStream(old, batch) \in Seq(Event) /\ Parses(s, EncodeStream(old, batch))
<1> DEFINE all == old \o batch
           m == Len(old)
<1>1. /\ all \in Seq(Event) /\ DOMAIN all = 1..(m + Len(batch))
      /\ DOMAIN old = 1..m /\ DOMAIN batch = 1..Len(batch)
      /\ m \in Nat /\ Len(batch) \in Nat
      /\ \A i \in 1..(m + Len(batch)) : all[i] = IF i <= m THEN old[i] ELSE batch[i - m]
  BY ConcatProperties, LenProperties
<1>2. batch # <<>> /\ (\A i \in 1..Len(batch) : batch[i].stream = s) /\ NoRepeats(batch)
  BY <1>1 DEF ValidBatch
<1>3. (\A i \in 1..m : old[i].stream = s) /\ NoRepeats(old)
  BY <1>1 DEF Parses, ValidBatch, NoRepeats
<1>4. all # <<>>
  BY <1>2, ConcatEqualIffEmpty
<1>5. \A i \in 1..(m + Len(batch)) : i <= m \/ (i - m \in 1..Len(batch) /\ ~(i <= m))
  BY <1>1
<1>6. \A i \in DOMAIN all : all[i].stream = s
  BY <1>1, <1>2, <1>3, <1>5
<1>7. ASSUME NEW i \in DOMAIN all, NEW j \in DOMAIN all, all[i].id = all[j].id
      PROVE  i = j
  <2>1. CASE i <= m /\ j <= m
    BY <1>1, <1>3, <1>7, <2>1 DEF NoRepeats
  <2>2. CASE ~(i <= m) /\ ~(j <= m)
    <3>1. i - m = j - m
      BY <1>1, <1>2, <1>5, <1>7, <2>2 DEF NoRepeats
    <3>. QED
      BY <1>1, <3>1
  <2>3. CASE i <= m /\ ~(j <= m)
    BY <1>1, <1>5, <1>7, <2>3 DEF RejectsNone
  <2>4. CASE ~(i <= m) /\ j <= m
    BY <1>1, <1>5, <1>7, <2>4 DEF RejectsNone
  <2>. QED
    BY <2>1, <2>2, <2>3, <2>4
<1>. QED
  BY <1>1, <1>4, <1>6, <1>7 DEF EncodeStream, Parses, ValidBatch, NoRepeats

\* The parts of a stream behind which something is appended.
LEMMA PartsOfConcat ==
    ASSUME NEW old \in Seq(Event), NEW batch \in Seq(Event)
    PROVE  /\ Len(old \o batch) = Len(old) + Len(batch)
           /\ \A m \in 1..Len(old), n \in 0..Len(old) :
                SubSeq(old \o batch, m, n) = SubSeq(old, m, n)
           /\ batch # <<>> =>
                SubSeq(old \o batch, Len(old) + 1, Len(old) + Len(batch)) = batch
<1>1. /\ Len(old) \in Nat /\ Len(batch) \in Nat /\ old \o batch \in Seq(Event)
      /\ batch # <<>> => Len(batch) >= 1
      /\ Len(old \o batch) = Len(old) + Len(batch)
  BY LenProperties, ConcatProperties, EmptySeq
<1>2. ASSUME NEW m \in 1..Len(old), NEW n \in 0..Len(old)
      PROVE  SubSeq(old \o batch, m, n) = SubSeq(old, m, n)
  <2>1. CASE n = 0
    BY <1>1, <2>1, SubSeqEmpty
  <2>2. CASE n # 0
    <3>1. n \in 1..Len(old)
      BY <1>1, <2>2
    <3>. QED
      BY <3>1, SubSeqOfConcat1
  <2>. QED
    BY <2>1, <2>2
<1>3. ASSUME batch # <<>>
      PROVE  SubSeq(old \o batch, Len(old) + 1, Len(old) + Len(batch)) = batch
  <2>1. /\ Len(old) + 1 \in Len(old) + 1 .. Len(old) + Len(batch)
        /\ Len(old) + Len(batch) \in Len(old) + 1 .. Len(old) + Len(batch)
        /\ Len(old) + 1 - Len(old) = 1 /\ Len(old) + Len(batch) - Len(old) = Len(batch)
    BY <1>1, <1>3
  <2>2. SubSeq(old \o batch, Len(old) + 1, Len(old) + Len(batch)) = SubSeq(batch, 1, Len(batch))
    BY <2>1, SubSeqOfConcat2
  <2>. QED
    BY <2>2, SubSeqFull
<1>. QED
  BY <1>1, <1>2, <1>3

\* What was read, and what follows it, is the stream.
LEMMA PollGivesTheRest ==
    ASSUME NEW t \in Seq(Event), NEW stream \in Seq(Event), IsPrefix(t, stream)
    PROVE  t \o SubSeq(stream, Len(t) + 1, Len(stream)) = stream
<1>1. /\ Len(t) \in Nat /\ Len(stream) \in Nat /\ Len(t) <= Len(stream)
      /\ SubSeq(t, 1, Len(t)) = SubSeq(stream, 1, Len(t))
  BY LenProperties DEF IsPrefix
<1>2. t = SubSeq(stream, 1, Len(t))
  BY <1>1, SubSeqFull
<1>3. 1 \in 1..(Len(stream) + 1) /\ Len(t) \in 1 - 1 .. Len(stream) /\ Len(stream) \in Len(t)..Len(stream)
  BY <1>1
<1>4. SubSeq(stream, 1, Len(t)) \o SubSeq(stream, Len(t) + 1, Len(stream))
        = SubSeq(stream, 1, Len(stream))
  BY <1>3, ConcatAdjacentSubSeq
<1>. QED
  BY <1>2, <1>4, SubSeqFull

\* What is a prefix stays one.
LEMMA PrefixOfConcat ==
    ASSUME NEW t \in Seq(Event), NEW old \in Seq(Event), NEW batch \in Seq(Event),
           IsPrefix(t, old)
    PROVE  IsPrefix(t, old \o batch)
<1>1. /\ Len(t) \in Nat /\ Len(old) \in Nat /\ Len(batch) \in Nat /\ Len(t) <= Len(old)
      /\ Len(old \o batch) = Len(old) + Len(batch)
      /\ SubSeq(t, 1, Len(t)) = SubSeq(old, 1, Len(t))
  BY LenProperties, ConcatProperties DEF IsPrefix
<1>2. SubSeq(old \o batch, 1, Len(t)) = SubSeq(old, 1, Len(t))
  <2>1. CASE Len(t) = 0
    BY <1>1, <2>1, SubSeqEmpty
  <2>2. CASE Len(t) # 0
    <3>1. 1 \in 1..Len(old) /\ Len(t) \in 0..Len(old)
      BY <1>1, <2>2
    <3>. QED
      BY <3>1, PartsOfConcat
  <2>. QED
    BY <2>1, <2>2
<1>. QED
  BY <1>1, <1>2 DEF IsPrefix

-----------------------------------------------------------------------------
(* Pieces of the steps *)

LEMMA PutTyped ==
    ASSUME TypeOK, NEW c \in Clients, call[c].pc = "put"
    PROVE  /\ call[c].stream \in Streams /\ call[c].batch \in Seq(Event)
           /\ call[c].existing \in Seq(Event)
           /\ call[c].expected \in Nat \cup {Absent}
           /\ call[c] # Idle
  BY DEF TypeOK, Calls, Idle

LEMMA StreamTyped ==
    ASSUME TypeOK, NEW s \in Streams
    PROVE  /\ latest[s] \in Seq(Event) \cup {Absent} /\ Stream(s) \in Seq(Event)
           /\ Loads(s) => Stream(s) = <<>> \/ Parses(s, Stream(s))
<1>1. latest[s] \in Seq(Event) \cup {Absent}
  BY DEF TypeOK, SerialStore!TypeOK, SerialStore!Maps
<1>. QED
  BY <1>1, EmptySeq DEF Stream, Loads

\* What the store does with the put of an append.
LEMMA PublishEffect ==
    ASSUME StreamsInv, NEW c \in Clients, call[c].pc = "put", Publish(call[c])
    PROVE  \E v \in Versions \ DOMAIN snapshots :
              \E base \in {latest} \cup {snapshots[w] : w \in DOMAIN snapshots} :
                /\ latest' = [base EXCEPT ![call[c].stream] =
                                    EncodeStream(call[c].existing, call[c].batch)]
                /\ snapshots' = [w \in DOMAIN snapshots \cup {v} |->
                                    IF w = v THEN latest' ELSE snapshots[w]]
                /\ mode = "serialized" => base = latest
<1> DEFINE stream == EncodeStream(call[c].existing, call[c].batch)
<1>1. CASE mode = "serialized"
  <2>1. SerialStore!Publish([latest EXCEPT ![call[c].stream] = stream])
    BY <1>1 DEF Publish, SerialStore!Put, SerialStore!Bases
  <2>. QED
    BY <2>1 DEF SerialStore!Publish
<1>2. CASE mode # "serialized"
  <2>1. PICK base \in {latest} \cup {snapshots[w] : w \in DOMAIN snapshots} :
            RacingStore!Publish([base EXCEPT ![call[c].stream] = stream])
    BY <1>2 DEF Publish, RacingStore!Put, RacingStore!Bases
  <2>. QED
    BY <1>2, <2>1 DEF RacingStore!Publish
<1>. QED
  BY <1>1, <1>2

\* A put leaves every stream of every version loadable.
LEMMA PublishKeepsStreams ==
    ASSUME StreamsInv, NEW c \in Clients, call[c].pc = "put", Publish(call[c])
    PROVE  SerialStore!TypeOK' /\ LatestLoads' /\ StoredStreamsLoad'
<1> DEFINE s == call[c].stream
           stream == EncodeStream(call[c].existing, call[c].batch)
<1>1. s \in Streams /\ stream \in Seq(Event) /\ Parses(s, stream)
  BY PutTyped, ConcatParses DEF StreamsInv, CallsOK
<1>2. PICK v \in Versions \ DOMAIN snapshots,
           base \in {latest} \cup {snapshots[w] : w \in DOMAIN snapshots} :
                /\ latest' = [base EXCEPT ![s] = stream]
                /\ snapshots' = [w \in DOMAIN snapshots \cup {v} |->
                                    IF w = v THEN latest' ELSE snapshots[w]]
  BY PublishEffect
<1>3. /\ base \in [Streams -> Seq(Event) \cup {Absent}]
      /\ \A r \in Streams : base[r] # Absent => Parses(r, base[r])
  BY DEF StreamsInv, TypeOK, SerialStore!TypeOK, SerialStore!Maps, LatestLoads, Loads,
         StoredStreamsLoad
<1> HIDE DEF s, stream
<1>4. /\ latest' \in [Streams -> Seq(Event) \cup {Absent}]
      /\ \A r \in Streams : latest'[r] # Absent => Parses(r, latest'[r])
  BY <1>1, <1>2, <1>3
<1>5. /\ DOMAIN snapshots' = DOMAIN snapshots \cup {v}
      /\ \A w \in DOMAIN snapshots' : snapshots'[w] \in {latest'} \cup {snapshots[x] : x \in DOMAIN snapshots}
  BY <1>2
<1>6. SerialStore!TypeOK'
  <2>1. DOMAIN snapshots \subseteq Versions /\ v \in Versions
        /\ \A x \in DOMAIN snapshots : snapshots[x] \in [Streams -> Seq(Event) \cup {Absent}]
    BY DEF StreamsInv, TypeOK, SerialStore!TypeOK, SerialStore!Maps
  <2>2. \A w \in DOMAIN snapshots' : snapshots'[w] \in [Streams -> Seq(Event) \cup {Absent}]
    BY <1>4, <1>5, <2>1
  <2>. QED
    BY <1>4, <1>5, <2>1, <2>2 DEF SerialStore!TypeOK, SerialStore!Maps
<1>7. LatestLoads'
  BY <1>4 DEF LatestLoads, Loads
<1>8. StoredStreamsLoad'
  BY <1>4, <1>5 DEF StreamsInv, StoredStreamsLoad
<1>. QED
  BY <1>6, <1>7, <1>8

-----------------------------------------------------------------------------
(* Streams can be loaded, however appends overlap *)

LEMMA StreamsInit == Init => StreamsInv
<1> SUFFICES ASSUME Init PROVE StreamsInv
  OBVIOUS
<1>1. SerialStore!TypeOK /\ LatestLoads /\ StoredStreamsLoad
  BY DEF Init, SerialStore!TypeOK, SerialStore!Maps, SerialStore!EmptyMap, LatestLoads,
         Loads, StoredStreamsLoad
<1>2. <<>> \in Seq(Event)
  BY EmptySeq
<1>3. Idle \in Calls /\ Idle.pc # "put"
  BY DEF Calls, Idle
<1>4. TypeOK
  BY <1>1, <1>2, <1>3 DEF Init, TypeOK
<1>5. CallsOK
  BY <1>3 DEF Init, CallsOK
<1>. QED
  BY <1>1, <1>4, <1>5 DEF StreamsInv

LEMMA StreamsLoad ==
    ASSUME StreamsInv, NEW c \in Clients, NEW s \in Streams, NEW batch \in Seq(Event),
           NEW expected \in Nat \cup {Absent}, Load(c, s, batch, expected)
    PROVE  StreamsInv'
<1> DEFINE x == [pc |-> "put", stream |-> s, batch |-> batch,
                 expected |-> expected, existing |-> Stream(s)]
<1>1. /\ call' = [call EXCEPT ![c] = x] /\ UNCHANGED <<mode, latest, snapshots, acked, tail>>
      /\ ValidBatch(s, batch) /\ Loads(s) /\ RejectsNone(Stream(s), batch)
  BY DEF Load
<1>2. Stream(s) \in Seq(Event) /\ (Stream(s) = <<>> \/ Parses(s, Stream(s)))
  BY <1>1, StreamTyped DEF StreamsInv
<1>3. x \in Calls
  BY <1>2 DEF Calls
<1>4. TypeOK'
  BY <1>1, <1>3 DEF StreamsInv, TypeOK, SerialStore!TypeOK
<1>5. CallsOK'
  <2>1. call'[c] = x /\ \A d \in Clients \ {c} : call'[d] = call[d]
    BY <1>1 DEF StreamsInv, TypeOK
  <2>2. /\ x.stream = s /\ x.batch = batch /\ x.existing = Stream(s)
    OBVIOUS
  <2> HIDE DEF x
  <2>. QED
    BY <1>1, <1>2, <2>1, <2>2 DEF StreamsInv, CallsOK
<1>6. LatestLoads' /\ StoredStreamsLoad'
  BY <1>1 DEF StreamsInv, LatestLoads, Loads, StoredStreamsLoad
<1>. QED
  BY <1>4, <1>5, <1>6 DEF StreamsInv

\* A client that is done.
LEMMA StreamsDone ==
    ASSUME StreamsInv, NEW c \in Clients, call' = [call EXCEPT ![c] = Idle],
           SerialStore!TypeOK', LatestLoads', StoredStreamsLoad', UNCHANGED <<mode, tail>>,
           acked' \subseteq [stream : Streams, batch : Seq(Event), revision : Nat,
                             expected : Nat \cup {Absent}, version : Versions]
    PROVE  StreamsInv'
<1>1. Idle \in Calls /\ Idle.pc # "put"
  BY DEF Idle, Calls
<1>2. TypeOK'
  BY <1>1 DEF StreamsInv, TypeOK
<1>3. CallsOK'
  <2>1. call'[c] = Idle /\ \A d \in Clients \ {c} : call'[d] = call[d]
    BY DEF StreamsInv, TypeOK
  <2>. QED
    BY <1>1, <2>1 DEF StreamsInv, CallsOK
<1>. QED
  BY <1>2, <1>3 DEF StreamsInv

\* What a successful append adds to acked.
LEMMA AckTyped ==
    ASSUME StreamsInv, NEW c \in Clients, PutStream(c)
    PROVE  acked' \subseteq [stream : Streams, batch : Seq(Event), revision : Nat,
                             expected : Nat \cup {Absent}, version : Versions]
<1>1. call[c].pc = "put" /\ Publish(call[c])
  BY DEF PutStream
<1>2. DOMAIN snapshots' \subseteq Versions
  BY <1>1, PublishKeepsStreams DEF SerialStore!TypeOK
<1>3. ResultRevision(call[c]) \in Nat
  <2>1. Len(call[c].existing) \in Nat /\ Len(call[c].batch) \in Nat
    BY <1>1, PutTyped, LenProperties DEF StreamsInv
  <2>2. \A m, n \in Nat : m + n \in Nat
    OBVIOUS
  <2>. QED
    BY <2>1, <2>2, Zenon DEF ResultRevision
<1>4. \A v \in DOMAIN snapshots' \ DOMAIN snapshots :
        [stream |-> call[c].stream, batch |-> call[c].batch, expected |-> call[c].expected,
         revision |-> ResultRevision(call[c]), version |-> v]
            \in [stream : Streams, batch : Seq(Event), revision : Nat,
                 expected : Nat \cup {Absent}, version : Versions]
  BY <1>1, <1>2, <1>3, PutTyped DEF StreamsInv
<1>. QED
  BY <1>4 DEF PutStream, StreamsInv, TypeOK

LEMMA BatchTyped == Batches \subseteq Seq(Event)
<1>1. ASSUME NEW n \in 1..MaxBatch, NEW batch \in [1..n -> Event]
      PROVE  batch \in Seq(Event)
  <2>1. n \in Nat
    BY EventAssumption
  <2>. QED
    BY <2>1
<1>. QED
  BY <1>1 DEF Batches

LEMMA StreamsStep == StreamsInv /\ [Next]_vars => StreamsInv'
<1> SUFFICES ASSUME StreamsInv, [Next]_vars PROVE StreamsInv'
  OBVIOUS
<1>1. ASSUME NEW c \in Clients, NEW s \in Streams, NEW batch \in Batches,
             NEW expected \in {Absent} \cup 0..Len(Stream(s)), Load(c, s, batch, expected)
      PROVE  StreamsInv'
  <2>1. batch \in Seq(Event) /\ expected \in Nat \cup {Absent}
    BY BatchTyped, StreamTyped, LenProperties DEF StreamsInv
  <2>. QED
    BY <1>1, <2>1, StreamsLoad
<1>2. ASSUME NEW c \in Clients, PutStream(c) PROVE StreamsInv'
  BY <1>2, AckTyped, PublishKeepsStreams, StreamsDone DEF PutStream
<1>3. ASSUME NEW c \in Clients, PutStreamUnheard(c) PROVE StreamsInv'
  BY <1>3, PublishKeepsStreams, StreamsDone DEF PutStreamUnheard, StreamsInv, TypeOK
<1>4. ASSUME NEW c \in Clients, PutFails(c) PROVE StreamsInv'
  BY <1>4, StreamsDone
     DEF PutFails, StreamsInv, TypeOK, SerialStore!TypeOK, LatestLoads, Loads, StoredStreamsLoad
<1>5. ASSUME NEW s \in Streams, Poll(s) PROVE StreamsInv'
  <2>1. /\ tail' = [tail EXCEPT ![s] = @ \o LoadFromRevision(s, Len(@) + 1)]
        /\ UNCHANGED <<mode, latest, snapshots, call, acked>>
    BY <1>5 DEF Poll
  <2>2. LoadFromRevision(s, Len(tail[s]) + 1) \in Seq(Event)
    <3>1. Stream(s) \in Seq(Event) /\ Len(tail[s]) + 1 \in Nat \ {0}
      BY StreamTyped, LenProperties DEF StreamsInv, TypeOK
    <3>2. \A i \in Len(tail[s]) + 1 .. Len(Stream(s)) : Stream(s)[i] \in Event
      BY <3>1, ElementOfSeq, LenProperties
    <3>. QED
      BY <3>1, <3>2, SubSeqProperties, LenProperties DEF LoadFromRevision
  <2>3. tail' \in [Streams -> Seq(Event)]
    BY <2>1, <2>2, ConcatProperties DEF StreamsInv, TypeOK
  <2>. QED
    BY <2>1, <2>3
       DEF StreamsInv, TypeOK, SerialStore!TypeOK, CallsOK, LatestLoads, Loads, StoredStreamsLoad
<1>6. CASE UNCHANGED vars
  BY <1>6
     DEF vars, StreamsInv, TypeOK, SerialStore!TypeOK, CallsOK, LatestLoads, Loads,
         StoredStreamsLoad
<1>. QED
  BY <1>1, <1>2, <1>3, <1>4, <1>5, <1>6 DEF Next

\* Type correctness, with any number of clients, streams and events.
THEOREM EventsTypeCorrect == Spec => []TypeOK
<1>1. StreamsInv => TypeOK
  BY DEF StreamsInv
<1>. QED
  BY StreamsInit, StreamsStep, <1>1, PTL DEF Spec

\* Whatever the store holds of a stream, in any version, it can load: however
\* many appends race, fail after they took effect and are tried again.
THEOREM EveryStoredStreamLoads == Spec => []StoredStreamsLoad
<1>1. StreamsInv => StoredStreamsLoad
  BY DEF StreamsInv
<1>. QED
  BY StreamsInit, StreamsStep, <1>1, PTL DEF Spec

-----------------------------------------------------------------------------
(* Where appends take turns *)

LEMMA TurnsInit == Init => TurnsInv
<1> SUFFICES ASSUME Init PROVE TurnsInv
  OBVIOUS
<1>1. Idle.pc # "put"
  BY DEF Idle
<1>2. \A s \in Streams : tail[s] = <<>> /\ Stream(s) = <<>>
  BY DEF Init, Stream, SerialStore!EmptyMap
<1>3. IsPrefix(<<>>, <<>>)
  BY EmptySeq, SubSeqEmpty DEF IsPrefix
<1>. QED
  BY <1>1, <1>2, <1>3
     DEF Init, TurnsInv, TurnsOK, AckedWithin, AckedEventsKeepTheirRevision,
         PollingMissesNothing

\* The step of a turn: the stream of the call grows by its batch, the others
\* stay.
LEMMA TurnGrows ==
    ASSUME StreamsInv, TurnsInv, mode = "serialized",
           NEW c \in Clients, call[c].pc = "put", Publish(call[c]),
           NEW s \in Streams, s = call[c].stream
    PROVE  /\ Stream(s)' = Stream(s) \o call[c].batch
           /\ \A r \in Streams \ {s} : Stream(r)' = Stream(r)
           /\ call[c].existing = Stream(s)
<1> DEFINE stream == EncodeStream(call[c].existing, call[c].batch)
<1>1. latest' = [latest EXCEPT ![s] = stream]
  BY PublishEffect
<1>2. stream \in Seq(Event)
  BY PutTyped, ConcatParses DEF StreamsInv, CallsOK
<1>3. call[c].existing = Stream(s)
  BY DEF TurnsInv, TurnsOK
<1>4. stream # Absent
  BY <1>2, EventAssumption
<1>5. DOMAIN latest = Streams
  BY DEF StreamsInv, TypeOK, SerialStore!TypeOK, SerialStore!Maps
<1> HIDE DEF stream
<1>6. Stream(s)' = stream
  BY <1>1, <1>4, <1>5 DEF Stream
<1>7. \A r \in Streams \ {s} : Stream(r)' = Stream(r)
  BY <1>1, <1>5 DEF Stream
<1>. QED
  BY <1>3, <1>6, <1>7 DEF EncodeStream, stream

\* Growth keeps what was acknowledged and read where it was.
LEMMA GrowthKeeps ==
    ASSUME StreamsInv, TurnsInv, mode = "serialized",
           NEW c \in Clients, call[c].pc = "put", Publish(call[c])
    PROVE  /\ \A a \in acked :
                /\ Len(a.batch) \in 1..a.revision
                /\ a.revision <= Len(Stream(a.stream)')
                /\ SubSeq(Stream(a.stream)', a.revision - Len(a.batch) + 1, a.revision)
                        = a.batch
           /\ \A s \in Streams : IsPrefix(tail[s], Stream(s)')
<1>0. PICK s \in Streams : s = call[c].stream
  BY PutTyped DEF StreamsInv
<1> DEFINE old == Stream(s)
           batch == call[c].batch
<1>1. /\ old \in Seq(Event) /\ batch \in Seq(Event)
      /\ Len(old) \in Nat /\ Len(batch) \in Nat
      /\ Len(old \o batch) = Len(old) + Len(batch)
  BY PutTyped, StreamTyped, LenProperties, ConcatProperties DEF StreamsInv
<1>2. Stream(s)' = old \o batch /\ \A r \in Streams \ {s} : Stream(r)' = Stream(r)
  BY <1>0, TurnGrows
<1>3. ASSUME NEW a \in acked
      PROVE  /\ Len(a.batch) \in 1..a.revision
             /\ a.revision <= Len(Stream(a.stream)')
             /\ SubSeq(Stream(a.stream)', a.revision - Len(a.batch) + 1, a.revision)
                    = a.batch
  <2>1. /\ a.stream \in Streams /\ a.revision \in Nat
        /\ Len(a.batch) \in 1..a.revision /\ a.revision <= Len(Stream(a.stream))
        /\ SubSeq(Stream(a.stream), a.revision - Len(a.batch) + 1, a.revision) = a.batch
    BY DEF StreamsInv, TypeOK, TurnsInv, AckedWithin, AckedEventsKeepTheirRevision
  <2>2. CASE a.stream # s
    BY <1>2, <2>1, <2>2
  <2>3. CASE a.stream = s
    <3>1. a.revision - Len(a.batch) + 1 \in 1..Len(old) /\ a.revision \in 0..Len(old)
      BY <1>1, <2>1, <2>3
    <3>2. SubSeq(old \o batch, a.revision - Len(a.batch) + 1, a.revision)
            = SubSeq(old, a.revision - Len(a.batch) + 1, a.revision)
      BY <1>1, <3>1, PartsOfConcat
    <3>3. a.revision <= Len(old \o batch)
      BY <1>1, <2>1, <2>3
    <3>. QED
      BY <1>2, <2>1, <2>3, <3>2, <3>3
  <2>. QED
    BY <2>2, <2>3
<1>4. ASSUME NEW r \in Streams PROVE IsPrefix(tail[r], Stream(r)')
  <2>1. tail[r] \in Seq(Event) /\ IsPrefix(tail[r], Stream(r))
    BY DEF StreamsInv, TypeOK, TurnsInv, PollingMissesNothing
  <2>2. CASE r # s
    BY <1>2, <2>1, <2>2
  <2>3. CASE r = s
    BY <1>1, <1>2, <2>1, <2>3, PrefixOfConcat
  <2>. QED
    BY <2>2, <2>3
<1>. QED
  BY <1>3, <1>4

\* The client that is done was the only one.
LEMMA TurnDone ==
    ASSUME StreamsInv, TurnsInv, NEW c \in Clients, call[c].pc = "put", mode' = mode,
           call' = [call EXCEPT ![c] = Idle]
    PROVE  TurnsOK'
<1>1. Idle.pc # "put"
  BY DEF Idle
<1>2. call'[c] = Idle /\ \A d \in Clients \ {c} : call'[d] = call[d]
  BY DEF StreamsInv, TypeOK
<1>3. mode = "serialized" => \A d \in Clients : call'[d].pc # "put"
  BY <1>1, <1>2 DEF TurnsInv, TurnsOK
<1>. QED
  BY <1>3 DEF TurnsOK

\* What the append that returns now stored is where it says.
LEMMA AckNow ==
    ASSUME StreamsInv, TurnsInv, mode = "serialized", NEW c \in Clients, PutStream(c),
           NEW a \in acked' \ acked
    PROVE  /\ Len(a.batch) \in 1..a.revision
           /\ a.revision <= Len(Stream(a.stream)')
           /\ SubSeq(Stream(a.stream)', a.revision - Len(a.batch) + 1, a.revision) = a.batch
<1>1. call[c].pc = "put" /\ Publish(call[c])
  BY DEF PutStream
<1>0. PICK s \in Streams : s = call[c].stream
  BY <1>1, PutTyped DEF StreamsInv
<1> DEFINE old == Stream(s)
           batch == call[c].batch
<1>2. a.stream = s /\ a.batch = batch /\ a.revision = ResultRevision(call[c])
  BY <1>0 DEF PutStream
<1>3. /\ old \in Seq(Event) /\ batch \in Seq(Event) /\ batch # <<>>
      /\ Len(old) \in Nat /\ Len(batch) \in Nat \ {0}
  <2>1. batch \in Seq(Event) /\ batch # <<>>
    BY <1>1, PutTyped DEF StreamsInv, CallsOK, ValidBatch
  <2>2. old \in Seq(Event)
    BY StreamTyped DEF StreamsInv
  <2>. QED
    BY <2>1, <2>2, LenProperties, EmptySeq
<1>4. Stream(s)' = old \o batch /\ a.revision = Len(old) + Len(batch)
  <2>1. Stream(s)' = old \o batch /\ call[c].existing = old
    BY <1>0, <1>1, TurnGrows
  <2>. QED
    BY <1>2, <2>1, Zenon DEF ResultRevision
<1>5. /\ Len(old \o batch) = Len(old) + Len(batch)
      /\ SubSeq(old \o batch, Len(old) + 1, Len(old) + Len(batch)) = batch
  BY <1>3, PartsOfConcat
<1>6. a.revision - Len(batch) + 1 = Len(old) + 1 /\ Len(batch) \in 1..a.revision
      /\ a.revision <= Len(old) + Len(batch)
  <2>1. ASSUME NEW m \in Nat, NEW n \in Nat \ {0}, NEW r, r = m + n
        PROVE  r - n + 1 = m + 1 /\ n \in 1..r /\ r <= m + n
    BY <2>1
  <2> HIDE DEF old, batch
  <2>. QED
    BY <1>3, <1>4, <2>1
<1> HIDE DEF old, batch
<1>7. /\ SubSeq(Stream(s)', a.revision - Len(batch) + 1, a.revision) = batch
      /\ a.revision <= Len(Stream(s)')
  BY <1>4, <1>5, <1>6
<1>. QED
  BY <1>2, <1>6, <1>7

LEMMA TurnsStep == StreamsInv /\ TurnsInv /\ [Next]_vars => TurnsInv'
<1> SUFFICES ASSUME StreamsInv, TurnsInv, [Next]_vars PROVE TurnsInv'
  OBVIOUS
<1>1. ASSUME NEW c \in Clients, NEW s \in Streams, NEW batch \in Batches,
             NEW expected \in {Absent} \cup 0..Len(Stream(s)), Load(c, s, batch, expected)
      PROVE  TurnsInv'
  <2> DEFINE x == [pc |-> "put", stream |-> s, batch |-> batch,
                   expected |-> expected, existing |-> Stream(s)]
  <2>1. /\ call' = [call EXCEPT ![c] = x] /\ UNCHANGED <<mode, latest, snapshots, acked, tail>>
        /\ mode = "serialized" => \A d \in Clients : call[d] = Idle
    BY <1>1 DEF Load
  <2>2. Idle.pc # "put" /\ x.existing = Stream(s) /\ x.stream = s
    BY DEF Idle
  <2>3. call'[c] = x /\ \A d \in Clients \ {c} : call'[d] = call[d]
    BY <2>1 DEF StreamsInv, TypeOK
  <2>4. \A r \in Streams : Stream(r)' = Stream(r)
    BY <2>1 DEF Stream
  <2> HIDE DEF x
  <2>5. TurnsOK'
    BY <2>1, <2>2, <2>3, <2>4 DEF TurnsOK
  <2>6. \A a \in acked : a.stream \in Streams
    BY DEF StreamsInv, TypeOK
  <2>. QED
    BY <2>1, <2>4, <2>5, <2>6
       DEF TurnsInv, AckedWithin, AckedEventsKeepTheirRevision, PollingMissesNothing
<1>2. ASSUME NEW c \in Clients, PutStream(c) PROVE TurnsInv'
  <2>1. /\ call[c].pc = "put" /\ Publish(call[c]) /\ UNCHANGED <<mode, tail>>
        /\ call' = [call EXCEPT ![c] = Idle]
    BY <1>2 DEF PutStream
  <2>2. TurnsOK'
    BY <2>1, TurnDone
  <2>3. ASSUME mode = "serialized"
        PROVE  \A a \in acked' :
                /\ Len(a.batch) \in 1..a.revision
                /\ a.revision <= Len(Stream(a.stream)')
                /\ SubSeq(Stream(a.stream)', a.revision - Len(a.batch) + 1, a.revision)
                        = a.batch
    BY <1>2, <2>1, <2>3, GrowthKeeps, AckNow
  <2>4. mode = "serialized" => \A s \in Streams : IsPrefix(tail'[s], Stream(s)')
    BY <2>1, GrowthKeeps
  <2>. QED
    BY <2>1, <2>2, <2>3, <2>4
       DEF TurnsInv, AckedWithin, AckedEventsKeepTheirRevision, PollingMissesNothing
<1>3. ASSUME NEW c \in Clients, PutStreamUnheard(c) PROVE TurnsInv'
  <2>1. /\ call[c].pc = "put" /\ Publish(call[c]) /\ UNCHANGED <<mode, acked, tail>>
        /\ call' = [call EXCEPT ![c] = Idle]
    BY <1>3 DEF PutStreamUnheard
  <2>2. TurnsOK'
    BY <2>1, TurnDone
  <2>. QED
    BY <2>1, <2>2, GrowthKeeps
       DEF TurnsInv, AckedWithin, AckedEventsKeepTheirRevision, PollingMissesNothing
<1>4. ASSUME NEW c \in Clients, PutFails(c) PROVE TurnsInv'
  <2>1. /\ call[c].pc = "put" /\ UNCHANGED <<mode, latest, snapshots, acked, tail>>
        /\ call' = [call EXCEPT ![c] = Idle]
    BY <1>4 DEF PutFails
  <2>2. TurnsOK'
    BY <2>1, TurnDone
  <2>. QED
    BY <2>1, <2>2
       DEF TurnsInv, AckedWithin, AckedEventsKeepTheirRevision, PollingMissesNothing, Stream
<1>5. ASSUME NEW s \in Streams, Poll(s) PROVE TurnsInv'
  <2>1. /\ tail' = [tail EXCEPT ![s] = @ \o LoadFromRevision(s, Len(@) + 1)]
        /\ UNCHANGED <<mode, latest, snapshots, call, acked>>
    BY <1>5 DEF Poll
  <2>2. tail'[s] = tail[s] \o SubSeq(Stream(s), Len(tail[s]) + 1, Len(Stream(s)))
        /\ \A r \in Streams \ {s} : tail'[r] = tail[r]
    BY <2>1 DEF StreamsInv, TypeOK, LoadFromRevision
  <2>3. /\ tail[s] \in Seq(Event) /\ Stream(s) \in Seq(Event)
        /\ mode = "serialized" => IsPrefix(tail[s], Stream(s))
    BY StreamTyped DEF StreamsInv, TypeOK, TurnsInv, PollingMissesNothing
  <2>4. mode = "serialized" => tail'[s] = Stream(s)
    BY <2>2, <2>3, PollGivesTheRest
  <2>5. IsPrefix(Stream(s), Stream(s))
    BY <2>3, LenProperties DEF IsPrefix
  <2>6. PollingMissesNothing'
    BY <2>1, <2>2, <2>4, <2>5 DEF TurnsInv, PollingMissesNothing, Stream
  <2>. QED
    BY <2>1, <2>6
       DEF TurnsInv, TurnsOK, AckedWithin, AckedEventsKeepTheirRevision, Stream
<1>6. CASE UNCHANGED vars
  BY <1>6
     DEF vars, TurnsInv, TurnsOK, AckedWithin, AckedEventsKeepTheirRevision,
         PollingMissesNothing, Stream
<1>. QED
  BY <1>1, <1>2, <1>3, <1>4, <1>5, <1>6 DEF Next

LEMMA TurnsHold == Spec => [](StreamsInv /\ TurnsInv)
  BY StreamsInit, StreamsStep, TurnsInit, TurnsStep, PTL DEF Spec

\* Where appends take turns, an acknowledged event keeps its revision.
THEOREM RevisionsAreStable == Spec => []AckedEventsKeepTheirRevision
<1>1. TurnsInv => AckedEventsKeepTheirRevision
  BY DEF TurnsInv
<1>. QED
  BY TurnsHold, <1>1, PTL

\* Where appends take turns, who polls from the next revision misses nothing.
THEOREM PollersSeeTheStream == Spec => []PollingMissesNothing
<1>1. TurnsInv => PollingMissesNothing
  BY DEF TurnsInv
<1>. QED
  BY TurnsHold, <1>1, PTL

-----------------------------------------------------------------------------
(* What an append returned describes the version it returned, whether the  *)
(* appends take turns or overlap                                           *)

LEMMA ReverseElements ==
    ASSUME NEW s \in Seq(Event)
    PROVE  /\ Reverse(s) \in Seq(Event) /\ Len(Reverse(s)) = Len(s)
           /\ \A i \in 1..Len(s) : Reverse(s)[i] = s[Len(s) - i + 1]
<1>1. Len(s) \in Nat /\ \A i \in 1..Len(s) : s[i] \in Event /\ Len(s) - i + 1 \in 1..Len(s)
  BY LenProperties, ElementOfSeq
<1>2. Reverse(s) = [i \in 1..Len(s) |-> s[(Len(s) - i) + 1]]
  BY DEF Reverse
<1>3. Reverse(s) \in [1..Len(s) -> Event]
  BY <1>1, <1>2
<1>. QED
  BY <1>1, <1>2, <1>3, LenProperties

\* A batch is a suffix of what it was appended to.
LEMMA SuffixOfConcat ==
    ASSUME NEW old \in Seq(Event), NEW batch \in Seq(Event)
    PROVE  IsSuffix(batch, old \o batch)
<1> DEFINE all == old \o batch
           m == Len(old)
           n == Len(batch)
<1>1. /\ all \in Seq(Event) /\ Len(all) = m + n /\ m \in Nat /\ n \in Nat
      /\ \A i \in 1..n : all[m + i] = batch[i]
  BY ConcatProperties, LenProperties
<1>2. /\ Reverse(batch) \in Seq(Event) /\ Len(Reverse(batch)) = n
      /\ Reverse(all) \in Seq(Event) /\ Len(Reverse(all)) = m + n
  BY <1>1, ReverseElements
<1> HIDE DEF all
<1>3. ASSUME NEW i \in 1..n
      PROVE  Reverse(all)[i] = Reverse(batch)[i]
  <2>1. Reverse(batch)[i] = batch[n - i + 1]
    BY ReverseElements
  <2>2. i \in 1..Len(all) /\ Len(all) - i + 1 = m + (n - i + 1) /\ n - i + 1 \in 1..n
    BY <1>1
  <2>3. Reverse(all)[i] = all[Len(all) - i + 1]
    BY <1>1, <2>2, ReverseElements
  <2>. QED
    BY <1>1, <2>1, <2>2, <2>3
<1>4. PICK r \in Seq(Event) : r = Reverse(all)
  BY <1>2
<1>5. PICK q \in Seq(Event) : q = Reverse(batch)
  BY <1>2
<1>6. SubSeq(q, 1, n) = SubSeq(r, 1, n)
  BY <1>1, <1>2, <1>3, <1>4, <1>5
<1>7. IsPrefix(q, r)
  BY <1>1, <1>2, <1>4, <1>5, <1>6 DEF IsPrefix
<1>. QED
  BY <1>4, <1>5, <1>7 DEF IsSuffix, all

AckedInv ==
    /\ \A a \in acked : a.version \in DOMAIN snapshots
    /\ AckedBatchAtItsVersion

LEMMA AckedInit == Init => AckedInv
BY DEF Init, AckedInv, AckedBatchAtItsVersion

\* A published version keeps what it holds.
LEMMA PublishKeepsVersions ==
    ASSUME StreamsInv, NEW c \in Clients, call[c].pc = "put", Publish(call[c])
    PROVE  /\ DOMAIN snapshots \subseteq DOMAIN snapshots'
           /\ \A w \in DOMAIN snapshots : snapshots'[w] = snapshots[w]
           /\ \A v \in DOMAIN snapshots' \ DOMAIN snapshots :
                 snapshots'[v][call[c].stream] =
                     EncodeStream(call[c].existing, call[c].batch)
<1>1. PICK v \in Versions \ DOMAIN snapshots,
           base \in {latest} \cup {snapshots[w] : w \in DOMAIN snapshots} :
                /\ latest' = [base EXCEPT ![call[c].stream] =
                                    EncodeStream(call[c].existing, call[c].batch)]
                /\ snapshots' = [w \in DOMAIN snapshots \cup {v} |->
                                    IF w = v THEN latest' ELSE snapshots[w]]
  BY PublishEffect
<1>2. DOMAIN base = Streams
  BY DEF StreamsInv, TypeOK, SerialStore!TypeOK, SerialStore!Maps
<1>3. call[c].stream \in Streams
  BY PutTyped DEF StreamsInv
<1>4. latest'[call[c].stream] = EncodeStream(call[c].existing, call[c].batch)
  BY <1>1, <1>2, <1>3
<1>. QED
  BY <1>1, <1>4

\* What was acknowledged stays true while versions are only added.
LEMMA AckedKept ==
    ASSUME AckedInv, DOMAIN snapshots \subseteq DOMAIN snapshots',
           \A w \in DOMAIN snapshots : snapshots'[w] = snapshots[w],
           NEW a \in acked
    PROVE  /\ a.version \in DOMAIN snapshots'
           /\ Len(snapshots'[a.version][a.stream]) = a.revision
           /\ IsSuffix(a.batch, snapshots'[a.version][a.stream])
BY DEF AckedInv, AckedBatchAtItsVersion

\* What is acknowledged now: the longer stream, as this client encoded it.
LEMMA AckedNow ==
    ASSUME StreamsInv, NEW c \in Clients, PutStream(c), NEW a \in acked' \ acked
    PROVE  /\ a.version \in DOMAIN snapshots'
           /\ Len(snapshots'[a.version][a.stream]) = a.revision
           /\ IsSuffix(a.batch, snapshots'[a.version][a.stream])
<1>1. call[c].pc = "put" /\ Publish(call[c])
  BY DEF PutStream
<1>2. PICK old \in Seq(Event), batch \in Seq(Event) :
        old = call[c].existing /\ batch = call[c].batch
  BY <1>1, PutTyped DEF StreamsInv
<1>3. /\ a.version \in DOMAIN snapshots' \ DOMAIN snapshots
      /\ a.stream = call[c].stream /\ a.batch = batch
      /\ a.revision = Len(old) + Len(batch)
  <2>1. /\ a.version \in DOMAIN snapshots' \ DOMAIN snapshots
        /\ a.stream = call[c].stream /\ a.batch = batch
        /\ a.revision = ResultRevision(call[c])
    BY <1>2 DEF PutStream
  <2>. QED
    BY <1>2, <2>1, Zenon DEF ResultRevision
<1>4. snapshots'[a.version][a.stream] = old \o batch
  BY <1>1, <1>2, <1>3, PublishKeepsVersions DEF EncodeStream
<1>5. Len(old \o batch) = Len(old) + Len(batch)
  BY PartsOfConcat
<1>. QED
  BY <1>3, <1>4, <1>5, SuffixOfConcat

LEMMA AckedStep == StreamsInv /\ AckedInv /\ [Next]_vars => AckedInv'
<1> SUFFICES ASSUME StreamsInv, AckedInv, [Next]_vars PROVE AckedInv'
  OBVIOUS
<1>1. ASSUME NEW c \in Clients, PutStream(c) PROVE AckedInv'
  <2>1. ASSUME NEW a \in acked'
        PROVE  /\ a.version \in DOMAIN snapshots'
               /\ Len(snapshots'[a.version][a.stream]) = a.revision
               /\ IsSuffix(a.batch, snapshots'[a.version][a.stream])
    BY <1>1, AckedNow, AckedKept, PublishKeepsVersions DEF PutStream
  <2>. QED
    BY <2>1 DEF AckedInv, AckedBatchAtItsVersion
<1>2. ASSUME NEW c \in Clients, PutStreamUnheard(c) PROVE AckedInv'
  <2>1. ASSUME NEW a \in acked
        PROVE  /\ a.version \in DOMAIN snapshots'
               /\ Len(snapshots'[a.version][a.stream]) = a.revision
               /\ IsSuffix(a.batch, snapshots'[a.version][a.stream])
    BY <1>2, AckedKept, PublishKeepsVersions DEF PutStreamUnheard
  <2>2. acked' = acked
    BY <1>2 DEF PutStreamUnheard
  <2>. QED
    BY <2>1, <2>2 DEF AckedInv, AckedBatchAtItsVersion
<1>3. CASE UNCHANGED <<snapshots, acked>>
  BY <1>3 DEF AckedInv, AckedBatchAtItsVersion
<1>. QED
  BY <1>1, <1>2, <1>3 DEF Next, Load, PutFails, Poll, vars

\* An append that returned stored its events at the revisions it returned: the
\* version it returned holds a stream of that length that ends with its batch,
\* also where another append overtook it.
THEOREM AckedBatchesAreAtTheirVersion == Spec => []AckedBatchAtItsVersion
<1>1. Init => StreamsInv /\ AckedInv
  BY StreamsInit, AckedInit
<1>2. StreamsInv /\ AckedInv /\ [Next]_vars => (StreamsInv /\ AckedInv)'
  BY StreamsStep, AckedStep
<1>3. AckedInv => AckedBatchAtItsVersion
  BY DEF AckedInv
<1>. QED
  BY <1>1, <1>2, <1>3, PTL DEF Spec
=============================================================================
