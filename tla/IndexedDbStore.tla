--------------------------- MODULE IndexedDbStore ---------------------------
(***************************************************************************)
(* The IndexedDB host store of the browser (sideshowdb-core,               *)
(* src/indexeddb-store.ts), opened by several tabs of one origin on one    *)
(* database.  Each tab answers from a cache it loads once and writes       *)
(* behind: a chain of promises carries one record at a time to storage.    *)
(* A tab whose object store is missing upgrades the schema, which asks     *)
(* every other connection to close.  What the browser does (transactions,  *)
(* the queue of open requests, versionchange) is modelled from how the     *)
(* code uses it.                                                           *)
(***************************************************************************)
EXTENDS HostRecords

CONSTANTS
    Tabs,
    Stores,         \* names of object stores
    Keys,
    Left,           \* the object stores an earlier release left, with their
                    \* records
    MaxRecord,      \* bound on the versions of one record
    MaxWrites,      \* bound on the puts and deletes of all tabs together
    MaxOpens        \* bound on the stores all tabs together create

ASSUME IndexedDbAssumption ==
    /\ None \notin Tabs \cup Keys \cup Values
    /\ DOMAIN Left \subseteq Stores
    /\ \A s \in DOMAIN Left : Left[s] \in [Keys -> Seq(Entry)]
    /\ MaxRecord \in Nat /\ MaxWrites \in Nat /\ MaxOpens \in Nat

VARIABLES
    schema,     \* the object stores the database has
    dbVersion,  \* its version, 0 before it is created
    disk,       \* per object store and key, the stored record: <<>> if none
    upgrade,    \* the upgrade at the head of the queue of open requests: its
                \* tab, version and object store, the tabs still to tell, and
                \* whether its promise was rejected because it was blocked
    ghosts,     \* the tabs that hold a connection no store object owns
    tab,        \* per tab, its store object
    opens,      \* the stores asked for so far
    writes      \* the puts and deletes so far

vars == <<schema, dbVersion, disk, upgrade, ghosts, tab, opens, writes>>

database == <<schema, dbVersion, disk, upgrade, ghosts>>

\* A write on the chain.  Its record is empty for a delete.
Item == [key : Keys, rec : Seq(Entry)]

Phases == {"none", "probing", "upgrading", "loading", "open", "closed"}

NoRecords == [k \in Keys |-> <<>>]

NewTab ==
    [phase |-> "none", store |-> None, want |-> 0,
     cache |-> NoRecords,
     chain |-> <<>>,        \* the writes enqueued and not started
     tx |-> <<>>,           \* the write whose transaction runs, if one does
     lost |-> {},           \* the key whose write aborted without an error:
                            \* the chain waits for a promise that never settles
     closing |-> -1,        \* the writes close() still waits for, -1 if not called
     unsaved |-> {},        \* the keys whose last write was reported as failed
     foreign |-> {}]        \* the keys another tab wrote since this one did

TypeOK ==
    /\ schema \subseteq Stores
    /\ dbVersion \in 0..(1 + Cardinality(Stores))
    /\ disk \in [Stores -> [Keys -> Seq(Entry)]]
    /\ upgrade # None => /\ upgrade.tab \in Tabs
                         /\ upgrade.tell \subseteq Tabs
                         /\ upgrade.blocked \in BOOLEAN
    /\ ghosts \subseteq Tabs
    /\ \A t \in Tabs :
        /\ tab[t].phase \in Phases
        /\ tab[t].store \in Stores \cup {None}
        /\ tab[t].cache \in [Keys -> Seq(Entry)]
        /\ tab[t].chain \in Seq(Item)
        /\ tab[t].tx \in Seq(Item) /\ Len(tab[t].tx) <= 1
        /\ tab[t].closing \in -1..MaxWrites
        /\ tab[t].lost \cup tab[t].unsaved \cup tab[t].foreign \subseteq Keys
    \* A version is told apart from the others of its record.
    /\ \A t \in Tabs, k \in Keys :
        IsInjective([i \in DOMAIN tab[t].cache[k] |-> tab[t].cache[k][i].version])

-----------------------------------------------------------------------------
(* Opening: the schema and its upgrade *)

\* A connection the browser holds open.  close() lets a running transaction
\* end first.
Connected(t) ==
    \/ tab[t].phase \in {"loading", "open"}
    \/ tab[t].phase = "closed" /\ tab[t].tx # <<>>
    \/ t \in ghosts

\* createIndexedDbHostStore.  A tab may try again after a failure.
Open(t, s) ==
    /\ tab[t].phase = "none" /\ opens < MaxOpens
    /\ opens' = opens + 1
    /\ tab' = [tab EXCEPT ![t].phase = "probing", ![t].store = s]
    /\ UNCHANGED <<database, writes>>

\* Creating the store fails: the promise is rejected.
Failed(t) == tab' = [tab EXCEPT ![t] = NewTab]

ProbeUnchecked(t) ==                              \* seeded fault: no contains
    /\ tab[t].phase = "probing" /\ upgrade = None
    /\ IF dbVersion = 0
       THEN dbVersion' = 1 /\ schema' = {tab[t].store}
       ELSE UNCHANGED <<dbVersion, schema>>
    /\ tab' = [tab EXCEPT ![t].phase = "loading"]
    /\ UNCHANGED <<disk, upgrade, ghosts, opens, writes>>

\* The open without a version succeeds; it creates the database if there is
\* none.  Without the object store the connection is closed and one version
\* more is asked for.
Probe(t) ==
    LET s == tab[t].store
    IN  /\ tab[t].phase = "probing" /\ upgrade = None
        /\ IF dbVersion = 0
           THEN dbVersion' = 1 /\ schema' = {s}
           ELSE UNCHANGED <<dbVersion, schema>>
        /\ tab' = IF s \in schema'
                  THEN [tab EXCEPT ![t].phase = "loading"]
                  ELSE [tab EXCEPT ![t].phase = "upgrading", ![t].want = dbVersion + 1]
        /\ UNCHANGED <<disk, upgrade, ghosts, opens, writes>>

\* The open with a version reaches the head of the queue.
StartUpgrade(t) ==
    /\ tab[t].phase = "upgrading" /\ upgrade = None
    /\ tab[t].want > dbVersion
    /\ upgrade' = [tab |-> t, want |-> tab[t].want, store |-> tab[t].store,
                   tell |-> {u \in Tabs : Connected(u)}, blocked |-> FALSE]
    /\ UNCHANGED <<schema, dbVersion, disk, ghosts, tab, opens, writes>>

\* Another tab took the version meanwhile: the database is opened as it is.
\* If it lacks the object store, reading it throws and nobody closes the
\* connection.
OpenWithoutUpgrade(t) ==
    /\ tab[t].phase = "upgrading" /\ upgrade = None
    /\ tab[t].want = dbVersion
    /\ IF tab[t].store \in schema
       THEN tab' = [tab EXCEPT ![t].phase = "loading"] /\ UNCHANGED ghosts
       ELSE Failed(t) /\ ghosts' = ghosts \cup {t}
    /\ UNCHANGED <<schema, dbVersion, disk, upgrade, opens, writes>>

\* The version is behind the database's: a VersionError, reported.
OpenTooOld(t) ==
    /\ tab[t].phase = "upgrading" /\ upgrade = None
    /\ tab[t].want < dbVersion
    /\ Failed(t)
    /\ UNCHANGED <<database, opens, writes>>

\* An open request fails, with the upgrade that creates the database if that
\* was its part: creation is rejected.
OpenFails(t) ==
    /\ tab[t].phase \in {"probing", "upgrading"} /\ upgrade = None
    /\ Failed(t)
    /\ UNCHANGED <<database, opens, writes>>

\* A versionchange event.  Only a store that finished loading handles it: it
\* closes the connection and reports.
VersionChange(t) ==
    /\ upgrade # None /\ t \in upgrade.tell
    /\ upgrade' = [upgrade EXCEPT !.tell = @ \ {t}]
    /\ tab' = IF tab[t].phase = "open"
              THEN [tab EXCEPT ![t].phase = "closed"]
              ELSE tab
    /\ UNCHANGED <<schema, dbVersion, disk, ghosts, opens, writes>>

BlockedUnheard == FALSE /\ UNCHANGED vars         \* seeded fault: no onblocked

\* Some connection stays open: the promise is rejected and reported, the
\* request goes on waiting.
Blocked ==
    /\ upgrade # None /\ upgrade.tell = {} /\ ~upgrade.blocked
    /\ \E u \in Tabs : Connected(u)
    /\ upgrade' = [upgrade EXCEPT !.blocked = TRUE]
    /\ Failed(upgrade.tab)
    /\ UNCHANGED <<schema, dbVersion, disk, ghosts, opens, writes>>

\* The object store is created.  The connection of a request that was blocked
\* comes too late for its promise.
Upgrade ==
    /\ upgrade # None /\ upgrade.tell = {}
    /\ \A u \in Tabs : ~Connected(u)
    /\ dbVersion' = upgrade.want
    /\ schema' = schema \cup {upgrade.store}
    /\ upgrade' = None
    /\ IF upgrade.blocked
       THEN ghosts' = ghosts \cup {upgrade.tab} /\ UNCHANGED tab
       ELSE tab' = [tab EXCEPT ![upgrade.tab].phase = "loading"] /\ UNCHANGED ghosts
    /\ UNCHANGED <<disk, opens, writes>>

\* The transaction of the upgrade aborts: the database stays as it was, and the
\* request fails.
UpgradeFails ==
    /\ upgrade # None /\ upgrade.tell = {}
    /\ \A u \in Tabs : ~Connected(u)
    /\ upgrade' = None
    /\ IF upgrade.blocked THEN UNCHANGED tab ELSE Failed(upgrade.tab)
    /\ UNCHANGED <<schema, dbVersion, disk, ghosts, opens, writes>>

\* loadCache, after the transactions that run on the object store; then the
\* handler of versionchange is set.
Load(t) ==
    /\ tab[t].phase = "loading"
    /\ \A u \in Tabs : tab[u].tx # <<>> => tab[u].store # tab[t].store
    /\ tab' = [tab EXCEPT ![t].phase = "open", ![t].cache = disk[tab[t].store]]
    /\ UNCHANGED <<database, opens, writes>>

\* The read fails: creation is rejected, the connection stays open.
LoadFails(t) ==
    /\ tab[t].phase = "loading"
    /\ Failed(t)
    /\ ghosts' = ghosts \cup {t}
    /\ UNCHANGED <<schema, dbVersion, disk, upgrade, opens, writes>>

-----------------------------------------------------------------------------
(* The writes: into the cache at once, then behind *)

Usable(t) == tab[t].phase \in {"open", "closed"}

Write(t) == Usable(t) /\ writes < MaxWrites /\ writes' = writes + 1

\* The waiting writes of k share the array the cache holds, unless a delete
\* came between: they carry whatever is put before they start.
Shared(chain, k, record) ==
    [i \in DOMAIN chain |->
        IF chain[i].key = k
           /\ \A j \in i..Len(chain) : chain[j].key = k => chain[j].rec # <<>>
        THEN [key |-> k, rec |-> record]
        ELSE chain[i]]

Put(t, k, val) ==
    LET old == tab[t].cache[k]
        record == Append(old, [version |-> NextVersion(old), val |-> val])
    IN  /\ Write(t) /\ Len(old) < MaxRecord
        /\ tab' = [tab EXCEPT
            ![t].cache[k] = record,
            ![t].chain = Append(Shared(@, k, record), [key |-> k, rec |-> record])]
        /\ UNCHANGED <<database, opens>>

\* The write is enqueued whether the key was there or not.
Delete(t, k) ==
    /\ Write(t)
    /\ tab' = [tab EXCEPT ![t].cache[k] = <<>>,
                          ![t].chain = Append(@, [key |-> k, rec |-> <<>>])]
    /\ UNCHANGED <<database, opens>>

\* The chain goes on after a write that ended, however it did.
Settled(s) ==
    [s EXCEPT !.tx = <<>>, !.closing = IF @ > 0 THEN @ - 1 ELSE @]

ReportDropped(s, k) == s                          \* seeded fault: no catch

\* The write failed and onPersistenceError was told.
Report(s, k) == [s EXCEPT !.unsaved = @ \cup {k}]

CanStart(t) == tab[t].chain # <<>> /\ tab[t].tx = <<>> /\ tab[t].lost = {}

\* persistRecord, deleteRecord: put clones the record.
StartWrite(t) ==
    /\ CanStart(t) /\ tab[t].phase = "open"
    /\ tab' = [tab EXCEPT ![t].tx = <<Head(tab[t].chain)>>, ![t].chain = Tail(@)]
    /\ UNCHANGED <<database, opens, writes>>

\* db.transaction throws once the connection is closed.
StartThrows(t) ==
    /\ CanStart(t) /\ tab[t].phase = "closed"
    /\ LET s == tab[t]
       IN  tab' = [tab EXCEPT
                ![t] = Report(Settled([s EXCEPT !.chain = Tail(s.chain)]),
                              Head(s.chain).key)]
    /\ UNCHANGED <<database, opens, writes>>

\* What the commit of t's write makes of the tabs on its object store.
Committed(t) ==
    LET s == tab[t].store
        k == Head(tab[t].tx).key
    IN  /\ disk' = [disk EXCEPT ![s][k] = Head(tab[t].tx).rec]
        /\ tab' = [u \in Tabs |->
            IF u = t THEN [Settled(tab[t]) EXCEPT !.unsaved = @ \ {k},
                                                  !.foreign = @ \ {k}]
            ELSE IF Usable(u) /\ tab[u].store = s
            THEN [tab[u] EXCEPT !.foreign = @ \cup {k}]
            ELSE tab[u]]

\* oncomplete
WriteEnds(t) ==
    /\ tab[t].tx # <<>>
    /\ Committed(t)
    /\ UNCHANGED <<schema, dbVersion, upgrade, ghosts, opens, writes>>

\* onerror: the request failed and the transaction aborts.
WriteFails(t) ==
    /\ tab[t].tx # <<>>
    /\ tab' = [tab EXCEPT ![t] = Report(Settled(@), Head(@.tx).key)]
    /\ UNCHANGED <<database, opens, writes>>

\* The transaction aborts after its request succeeded (the quota is found
\* exceeded at the commit): only `abort` fires, which nothing listens to.  The
\* write is gone, nobody is told, and its promise never settles.
WriteAborts(t) ==
    /\ tab[t].tx # <<>>
    /\ tab' = [tab EXCEPT ![t].tx = <<>>, ![t].lost = {Head(tab[t].tx).key}]
    /\ UNCHANGED <<database, opens, writes>>

-----------------------------------------------------------------------------
(* The end of a store object *)

\* Writes enqueued after the call are not waited for; one that aborted is.
Close(t) ==
    /\ Usable(t) /\ tab[t].closing = -1
    /\ tab' = [tab EXCEPT
        ![t].closing = Len(tab[t].chain) + Len(tab[t].tx) + Cardinality(tab[t].lost)]
    /\ UNCHANGED <<database, opens, writes>>

CloseReturnsIfOpen(t) ==                          \* seeded fault
    /\ tab[t].closing = 0 /\ tab[t].phase = "open"
    /\ tab' = [tab EXCEPT ![t].phase = "closed", ![t].closing = -1]
    /\ UNCHANGED <<database, opens, writes>>

CloseReturns(t) ==
    /\ tab[t].closing = 0
    /\ tab' = [tab EXCEPT ![t].phase = "closed", ![t].closing = -1]
    /\ UNCHANGED <<database, opens, writes>>

\* The page is left or reloaded: cache and chain are lost, connections and
\* open requests end; a transaction that runs commits or does not.
Reload(t) ==
    /\ tab[t].phase # "none" \/ t \in ghosts
    /\ ghosts' = ghosts \ {t}
    /\ upgrade' = IF upgrade # None /\ upgrade.tab = t THEN None ELSE upgrade
    /\ UNCHANGED <<schema, dbVersion, opens, writes>>
    /\ \/ Failed(t) /\ UNCHANGED disk
       \/ tab[t].tx # <<>>
          /\ disk' = [disk EXCEPT ![tab[t].store][Head(tab[t].tx).key] = Head(tab[t].tx).rec]
          /\ tab' = [u \in Tabs |->
                IF u = t THEN NewTab
                ELSE IF Usable(u) /\ tab[u].store = tab[t].store
                THEN [tab[u] EXCEPT !.foreign = @ \cup {Head(tab[t].tx).key}]
                ELSE tab[u]]

-----------------------------------------------------------------------------

\* A new database, one that holds other object stores only, or one that an
\* earlier release left behind.
Init ==
    /\ \/ dbVersion = 0 /\ schema = {}
       \/ dbVersion = 1 /\ schema = {}
       \/ dbVersion = 1 /\ schema = DOMAIN Left
    /\ disk = [s \in Stores |-> IF s \in schema THEN Left[s] ELSE NoRecords]
    /\ upgrade = None /\ ghosts = {} /\ opens = 0 /\ writes = 0
    /\ tab = [t \in Tabs |-> NewTab]

Browser(t) ==
    \/ Probe(t)
    \/ StartUpgrade(t)
    \/ OpenWithoutUpgrade(t)
    \/ OpenTooOld(t)
    \/ OpenFails(t)
    \/ Load(t)
    \/ LoadFails(t)

Step(t) ==
    \/ \E s \in Stores : Open(t, s)
    \/ Browser(t)
    \/ VersionChange(t)
    \/ \E k \in Keys : Delete(t, k) \/ \E val \in Values : Put(t, k, val)
    \/ StartWrite(t)
    \/ StartThrows(t)
    \/ WriteEnds(t)
    \/ WriteFails(t)
    \/ WriteAborts(t)
    \/ Close(t)
    \/ CloseReturns(t)
    \/ Reload(t)

Next == Blocked \/ Upgrade \/ UpgradeFails \/ \E t \in Tabs : Step(t)

\* The browser fires the events it owes and runs the callbacks of promises
\* that settled; a caller owes nothing.
Fairness ==
    /\ WF_vars(Blocked) /\ WF_vars(Upgrade \/ UpgradeFails)
    /\ \A t \in Tabs :
        /\ WF_vars(Browser(t))
        /\ WF_vars(VersionChange(t))
        /\ WF_vars(StartWrite(t) \/ StartThrows(t))
        /\ WF_vars(WriteEnds(t) \/ WriteFails(t) \/ WriteAborts(t))
        /\ WF_vars(CloseReturns(t))

Spec == Init /\ [][Next]_vars /\ Fairness

-----------------------------------------------------------------------------
(* Properties *)

Waits(t, k) ==
    \/ \E i \in DOMAIN tab[t].tx : tab[t].tx[i].key = k
    \/ \E i \in DOMAIN tab[t].chain : tab[t].chain[i].key = k

\* What a reload finds of k is what the tab's cache shows of it.
Saved(t, k) == disk[tab[t].store][k] = tab[t].cache[k]

\* A reload finds what the tab's cache shows of a key, unless the key still has
\* a write on the chain, its last write was reported as failed, another tab
\* wrote it since, or the transaction of its write aborted.  With the last
\* exception the code breaks its README's promise, FailedWritesAreReported; it
\* is one key, and the writes that wait behind it are never stored either.
OnlyAbortsAreSilent ==
    \A t \in Tabs, k \in Keys :
        Usable(t) /\ ~Waits(t, k) /\ k \notin tab[t].lost \cup tab[t].unsaved \cup tab[t].foreign
            => Saved(t, k)

\* "If a queued write fails [...] the store invokes the onPersistenceError
\* callback" ("Durability and lifecycle" of the Effect binding's README): a
\* write that is over is stored or was reported.
FailedWritesAreReported ==
    \A t \in Tabs, k \in Keys :
        Usable(t) /\ ~Waits(t, k) /\ k \notin tab[t].unsaved \cup tab[t].foreign
            => Saved(t, k)

\* A transaction only runs on an object store the database has, and a store
\* that stands open has one: whatever the races of two upgrades
\* (IDB-STORE-003).
OpenStoresExist ==
    \A t \in Tabs : Usable(t) \/ tab[t].phase = "loading" => tab[t].store \in schema

Opening(t) == tab[t].phase \in {"probing", "upgrading", "loading"}

\* createIndexedDbHostStore settles, unless it waits behind an upgrade that was
\* blocked, given up and is still in the queue (IDB-STORE-003, 004).
OpeningEnds ==
    \A t \in Tabs :
        Opening(t) ~> \/ ~Opening(t)
                      \/ upgrade # None /\ upgrade.blocked

\* close() drains the writes before it and returns, whatever closes the
\* connection meanwhile, unless a transaction aborted without an error event:
\* then the chain never moves again.
CloseEnds ==
    \A t \in Tabs : tab[t].closing # -1 ~> tab[t].closing = -1 \/ tab[t].lost # {}
=============================================================================
