----------------------------- MODULE EventStore -----------------------------
(***************************************************************************)
(* EventStore (src/core/event.zig): append-only event streams, each one    *)
(* blob of a RefStore.  An append is a get of the whole stream, checks on  *)
(* it, and a put of the longer stream; nothing ties the put to the get.    *)
(* The store below is any RefStore: the serial contract where appends take *)
(* turns, the weak one of the racing git stores where they overlap.        *)
(***************************************************************************)
EXTENDS Naturals, FiniteSets, Sequences, SequencesExt

CONSTANTS
    Clients,        \* EventStore instances over one ref
    Streams,        \* stream identities, and so the keys derived from them
    EventIds,
    Absent,
    Versions,       \* versions the store can mint: bounds the appends
    MaxBatch        \* events in one append request

\* An envelope names its stream; the rest of it plays no part.
Event == [id : EventIds, stream : Streams]

ASSUME EventAssumption ==
    /\ Absent \notin Streams \cup Nat \cup Versions \cup Seq(Event)
    /\ MaxBatch \in Nat \ {0}

VARIABLES
    mode,       \* do the appends take turns, or overlap?
    latest, snapshots,      \* the RefStore
    call,       \* the append each client is in the middle of
    acked,      \* the appends that returned a revision
    tail        \* what a reader that polls each stream has been given

vars == <<mode, latest, snapshots, call, acked, tail>>

SerialStore == INSTANCE RefStore WITH
    Keys <- Streams, Values <- Seq(Event), Serial <- TRUE

RacingStore == INSTANCE RefStore WITH
    Keys <- Streams, Values <- Seq(Event), Serial <- FALSE

Idle == [pc |-> "idle"]

Calls == {Idle} \cup
    [pc : {"put"}, stream : Streams, batch : Seq(Event),
     expected : Nat \cup {Absent}, existing : Seq(Event)]

TypeOK ==
    /\ mode \in {"serialized", "racing"}
    /\ SerialStore!TypeOK
    /\ call \in [Clients -> Calls]
    /\ acked \subseteq [stream : Streams, batch : Seq(Event), revision : Nat,
                        expected : Nat \cup {Absent}, version : Versions]
    /\ tail \in [Streams -> Seq(Event)]

-----------------------------------------------------------------------------
(* The pure parts of append and load *)

NoRepeats(events) ==
    \A i, j \in DOMAIN events : events[i].id = events[j].id => i = j

\* validateAppendEvents
ValidBatch(s, batch) ==
    /\ batch # <<>>
    /\ \A i \in DOMAIN batch : batch[i].stream = s
    /\ NoRepeats(batch)

\* finishParsedBatch, and the identity check of loadFromRevision
Parses(s, events) == ValidBatch(s, events)

Stream(s) == IF latest[s] = Absent THEN <<>> ELSE latest[s]

Loads(s) == latest[s] # Absent => Parses(s, latest[s])

LoadAfterRevision(s, start) ==                   \* seeded fault: off by one
    SubSeq(Stream(s), start + 1, Len(Stream(s)))

\* loadFromRevision: the events whose one-based revision is at least `start`.
LoadFromRevision(s, start) == SubSeq(Stream(s), start, Len(Stream(s)))

AcceptsAnyId(existing, batch) == TRUE            \* seeded fault: no check

\* rejectExistingDuplicates
RejectsNone(existing, batch) ==
    \A i \in DOMAIN existing, j \in DOMAIN batch : existing[i].id # batch[j].id

EncodeIncomingFirst(existing, batch) == batch \o existing      \* seeded fault

EncodeStream(existing, batch) == existing \o batch

-----------------------------------------------------------------------------
(* The operations *)

\* append, up to its put.  Every failing check returns an error and leaves
\* nothing behind.
Load(c, s, batch, expected) ==
    LET existing == Stream(s) IN
    /\ call[c] = Idle
    /\ mode = "serialized" => \A d \in Clients : call[d] = Idle
    /\ ValidBatch(s, batch)
    /\ Loads(s)
    /\ expected \in {Absent, Len(existing)}
    /\ RejectsNone(existing, batch)
    /\ call' = [call EXCEPT ![c] =
                    [pc |-> "put", stream |-> s, batch |-> batch,
                     expected |-> expected, existing |-> existing]]
    /\ UNCHANGED <<mode, latest, snapshots, acked, tail>>

\* The put of append: the store takes the stream as this client encodes it.
Publish(me) ==
    LET stream == EncodeStream(me.existing, me.batch) IN
    IF mode = "serialized" THEN SerialStore!Put(me.stream, stream)
                           ELSE RacingStore!Put(me.stream, stream)

ResultRevisionOfBatch(me) == Len(me.batch)       \* seeded fault

ResultRevisionExpected(me) == me.expected        \* seeded fault: may be null

ResultRevision(me) == Len(me.existing) + Len(me.batch)

PutStream(c) ==
    LET me == call[c] IN
    /\ me.pc = "put"
    /\ Publish(me)
    /\ acked' = acked \cup
            {[stream |-> me.stream, batch |-> me.batch, expected |-> me.expected,
              revision |-> ResultRevision(me), version |-> v] :
                v \in DOMAIN snapshots' \ DOMAIN snapshots}
    /\ call' = [call EXCEPT ![c] = Idle]
    /\ UNCHANGED <<mode, tail>>

\* The put took effect, but the caller gets an error or dies first.
PutStreamUnheard(c) ==
    /\ call[c].pc = "put"
    /\ Publish(call[c])
    /\ call' = [call EXCEPT ![c] = Idle]
    /\ UNCHANGED <<mode, acked, tail>>

\* The put has no effect: the store fails, or the client dies before it.
PutFails(c) ==
    /\ call[c].pc = "put"
    /\ call' = [call EXCEPT ![c] = Idle]
    /\ UNCHANGED <<mode, latest, snapshots, acked, tail>>

\* A reader asks for what comes after the revision it has read up to.
Poll(s) ==
    /\ Loads(s)
    /\ tail' = [tail EXCEPT ![s] = @ \o LoadFromRevision(s, Len(@) + 1)]
    /\ UNCHANGED <<mode, latest, snapshots, call, acked>>

-----------------------------------------------------------------------------

Batches == UNION {[1..n -> Event] : n \in 1..MaxBatch}

Init ==
    /\ mode \in {"serialized", "racing"}
    /\ latest = SerialStore!EmptyMap /\ snapshots = [v \in {} |-> SerialStore!EmptyMap]
    /\ call = [c \in Clients |-> Idle]
    /\ acked = {} /\ tail = [s \in Streams |-> <<>>]

Next ==
    \/ \E c \in Clients :
        \/ \E s \in Streams, batch \in Batches :
            \E expected \in {Absent} \cup 0..Len(Stream(s)) : Load(c, s, batch, expected)
        \/ PutStream(c) \/ PutStreamUnheard(c) \/ PutFails(c)
    \/ \E s \in Streams : Poll(s)

Spec == Init /\ [][Next]_vars

-----------------------------------------------------------------------------
(* Properties *)

\* However appends race, fail after they took effect and are tried again, no
\* stored stream holds an event twice or of another stream: what the store
\* holds, it can load.
StoredStreamsLoad ==
    \A v \in DOMAIN snapshots : \A s \in Streams :
        snapshots[v][s] # Absent => Parses(s, snapshots[v][s])

\* The events an acknowledged append stored are at the revisions it returned,
\* read back at the version it returned.
AckedBatchAtItsVersion ==
    \A a \in acked :
        LET stream == snapshots[a.version][a.stream] IN
        /\ Len(stream) = a.revision
        /\ IsSuffix(a.batch, stream)

\* Where appends take turns, an acknowledged event keeps its revision for
\* ever: later appends, failed ones included, only add behind it.
AckedEventsKeepTheirRevision ==
    mode = "serialized" =>
        \A a \in acked :
            SubSeq(Stream(a.stream), a.revision - Len(a.batch) + 1, a.revision) = a.batch

\* Where appends take turns, a reader that polls from its next revision is
\* given the stream, with no gap and no repetition.
PollingMissesNothing ==
    mode = "serialized" => \A s \in Streams : IsPrefix(tail[s], Stream(s))
=============================================================================
