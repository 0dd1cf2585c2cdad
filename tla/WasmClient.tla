----------------------------- MODULE WasmClient -----------------------------
(***************************************************************************)
(* The TypeScript client (sideshowdb-core, src/client.ts) over the         *)
(* WebAssembly module it loads (src/wasm/root.zig), whose document store   *)
(* reads and writes through one of three backends: its own memory, a host  *)
(* store of the page behind synchronous imports, or GitHub over HTTP.      *)
(* A call runs to its end before any other JavaScript does; what other     *)
(* callers put or delete comes between calls, so between the pages of one  *)
(* list or history.  Only over GitHub do other machines come in between    *)
(* the requests of one call, which shows in what its history answers.      *)
(***************************************************************************)
EXTENDS HostRecords

CONSTANTS
    Docs,           \* the keys of documents, numbered in the order of their bytes
    Filters,        \* what the namespace and type of a list select
    Limits,         \* page sizes a caller asks for
    HistoryLimit,   \* history_limit: the versions GitHub's history lists at most
    MaxPuts,        \* bound on the puts
    MaxItems        \* bound on the items of a walk that goes on

ASSUME ClientAssumption ==
    /\ None \notin Values /\ 1..MaxPuts \subseteq Values
    /\ Docs \subseteq Nat \ {0}
    /\ Filters \subseteq SUBSET Docs
    /\ Limits \subseteq Nat \ {0} /\ HistoryLimit \in Nat \ {0}
    /\ MaxPuts \in Nat /\ MaxItems \in Nat

VARIABLES
    phase,          \* of loadSideshowDbClient
    options,        \* what it was called with
    transport,      \* what asks GitHub: "xhr" if the page has a synchronous
                    \* XMLHttpRequest, "none", or "unused"
    hostStore,      \* the host store it resolved, "none" without one
    backend,        \* active_backend of the module
    records,        \* per document, its versions in the backend
    live,           \* the documents an unpinned get finds
    puts,           \* the puts so far, which most backends number versions by
    lastFailure,    \* the host imports recorded a failure
    answer,         \* what the last operation resolved to
    walk,           \* a caller's walk through the pages of a list or history
    acked           \* the puts that were answered: [doc, version, val], less
                    \* those of a deleted document whose versions start anew

loading == <<phase, options, transport, hostStore, backend>>
data == <<records, live, puts>>
vars == <<loading, data, lastFailure, answer, walk, acked>>

\* The stores a caller may give: "counter" numbers all its versions and forgets
\* a deleted document, "demo" numbers all its versions and only hides it.
GivenStores == {"none", "counter", "demo"}

Options ==
    [store : GivenStores, indexedDb : BOOLEAN, refstore : {"memory", "github"},
     hasFetch : BOOLEAN, hasXhr : BOOLEAN]

ErrorKinds == {"runtime-load", "host-store", "wasm-export", "decode"}

\* What became of an operation.  `cause` is what really went wrong in it:
\* the module refused the request, it never reached the module, the host store
\* threw or answered with a Promise, GitHub could not be asked, a callback of
\* the page threw through the module.
Causes == {"none", "load", "request", "unencodable", "host", "transport", "throw"}

Success == [ok |-> TRUE, kind |-> "none", cause |-> "none"]

Failure(kind, cause) == [ok |-> FALSE, kind |-> kind, cause |-> cause]

\* A caller's pages so far: `stable` is what was there from the first page on,
\* `cut` that the last page comes from a history without the oldest versions.
Walk == [kind : {"list"}, of : SUBSET Docs, cursor : Nat, items : Seq(Nat),
         stable : SUBSET Nat, done : BOOLEAN, cut : BOOLEAN]
        \cup
        [kind : {"history"}, of : Docs, cursor : Nat, items : Seq(Nat),
         stable : SUBSET Nat, done : BOOLEAN, cut : BOOLEAN]

TypeOK ==
    /\ phase \in {"idle", "store", "fetch", "instantiate", "ready"}
    /\ options \in Options \cup {None}
    /\ hostStore \in GivenStores \cup {"indexeddb"}
    /\ backend \in {"memory", "imported", "github"}
    /\ backend = "imported" => hostStore # "none"
    /\ records \in [Docs -> Seq(Entry)]
    /\ live \subseteq {d \in Docs : records[d] # <<>>}
    /\ puts \in 0..MaxPuts
    /\ transport \in {"xhr", "none", "unused"} /\ lastFailure \in BOOLEAN
    /\ answer.kind \in ErrorKinds \cup {"none", "thrown"}
    /\ answer.cause \in Causes /\ answer.ok = (answer.kind = "none")
    /\ walk # None => walk \in Walk
    /\ acked \subseteq [doc : Docs, version : Nat, val : Values]

-----------------------------------------------------------------------------
(* loadSideshowDbClient *)

\* The default host store is only opened if none is given, the option does not
\* forbid it and the page has indexedDB.
Load(o) ==
    /\ phase = "idle"
    /\ options' = o
    /\ hostStore' = o.store
    /\ phase' = IF o.store = "none" /\ o.indexedDb THEN "store" ELSE "fetch"
    /\ UNCHANGED <<transport, backend, data, lastFailure, answer, walk, acked>>

\* Every failure of the load reaches the caller as this one.
LoadFails ==
    /\ phase' = "idle" /\ hostStore' = "none" /\ options' = None
    /\ answer' = Failure("runtime-load", "load")
    /\ UNCHANGED <<transport, backend, data, lastFailure, walk, acked>>

OpenDefaultStore ==
    /\ phase = "store"
    /\ \/ LoadFails
       \/ /\ phase' = "fetch" /\ hostStore' = "indexeddb"
          /\ UNCHANGED <<options, transport, backend, data, lastFailure, answer, walk, acked>>

\* Without fetch, with an answer that is not ok or none at all, the load fails.
Fetch ==
    /\ phase = "fetch"
    /\ \/ LoadFails
       \/ /\ options.hasFetch
          /\ phase' = "instantiate"
          /\ UNCHANGED <<options, transport, hostStore, backend, data, lastFailure,
                         answer, walk, acked>>

\* GitHub if it is asked for, else the host store if there is one.
ChosenBackend ==
    IF options.refstore = "github" THEN "github"
    ELSE IF hostStore # "none" THEN "imported" ELSE "memory"

\* The module is instantiated with the host imports, and its backend is chosen;
\* that of GitHub may fail to activate.
Instantiate ==
    /\ phase = "instantiate"
    /\ \/ LoadFails
       \/ /\ phase' = "ready"
          /\ backend' = ChosenBackend
          /\ transport' = IF options.refstore # "github" THEN "unused"
                          ELSE IF options.hasXhr THEN "xhr" ELSE "none"
          /\ options' = None
          /\ UNCHANGED <<hostStore, data, lastFailure, answer, walk, acked>>

-----------------------------------------------------------------------------
(* The backends *)

Imported == backend = "imported"

\* createIndexedDbHostStore counts the versions of each document.
PerDocument == Imported /\ hostStore = "indexeddb"

\* After a delete the versions are gone, or only unpinned reads miss them.
Forgets == Imported /\ hostStore \in {"indexeddb", "counter"}

FreshVersionByLength(d) == Len(records[d]) + 1    \* seeded fault

FreshVersion(d) == IF PerDocument THEN NextVersion(records[d]) ELSE puts + 1

Present(w, recs, docs) ==
    IF w.kind = "list" THEN docs \cap w.of ELSE ToSet(VersionsOf(recs[w.of]))

\* A caller's walk goes on over what others change between its pages.
Others ==
    walk' = IF walk = None \/ walk.done THEN None
            ELSE [walk EXCEPT !.stable = @ \cap Present(walk, records', live')]

\* Every put brings a value of its own.
Store(d) ==
    /\ puts < MaxPuts /\ puts' = puts + 1
    /\ records' = [records EXCEPT
                    ![d] = Append(@, [version |-> FreshVersion(d), val |-> puts'])]
    /\ live' = live \cup {d}

DropKeepsKey(d) ==                                \* seeded fault
    /\ records' = IF Forgets THEN [records EXCEPT ![d] = <<>>] ELSE records
    /\ UNCHANGED <<live, puts>>

Drop(d) ==
    /\ live' = live \ {d}
    /\ records' = IF Forgets THEN [records EXCEPT ![d] = <<>>] ELSE records
    /\ UNCHANGED puts

-----------------------------------------------------------------------------
(* invoke: one export of the module, and what its answer becomes *)

Ready == phase = "ready"

KeptFailure == lastFailure                        \* seeded fault: not cleared

\* invoke clears the failure an earlier call recorded before it calls.
ClearedFailure == FALSE

Succeeds ==
    /\ lastFailure' = FALSE
    /\ answer' = Success

\* The export answers with a failure status; `recorded` tells whether a host
\* import recorded one.
Fails(cause, recorded) ==
    /\ lastFailure' = recorded
    /\ answer' = Failure(IF recorded \/ hostStore = "none"
                         THEN "host-store" ELSE "wasm-export", cause)

\* The version of a put comes back through the buffers of the host imports.
Answered(d) == [doc |-> d, version |-> FreshVersion(d), val |-> puts']

\* document.put and host_ref_put.
Put(d) ==
    /\ Ready /\ Succeeds
    /\ Store(d) /\ Others
    /\ acked' = acked \cup {Answered(d)}
    /\ UNCHANGED loading

\* document.delete: a get, then the delete if it found something.
Delete(d) ==
    /\ Ready /\ Succeeds
    /\ IF d \in live
       THEN /\ Drop(d) /\ Others
            /\ acked' = IF PerDocument THEN {a \in acked : a.doc # d} ELSE acked
       ELSE UNCHANGED <<data, walk, acked>>
    /\ UNCHANGED loading

\* document.get: found or not, the operation succeeds.
Get ==
    /\ Ready /\ Succeeds
    /\ UNCHANGED <<loading, data, walk, acked>>

\* The request is invalid (its identity, limit or cursor): no host import is
\* called.
RefusedRequest ==
    /\ Ready
    /\ Fails("request", ClearedFailure)
    /\ UNCHANGED <<loading, data, walk, acked>>

\* The request does not fit request_buf, or an operation but put cannot turn it
\* into JSON: the module is not called.
UnwrittenRequest ==
    /\ Ready
    /\ lastFailure' = ClearedFailure
    /\ answer' = Failure("decode", "unencodable")
    /\ UNCHANGED <<loading, data, walk, acked>>

\* put encodes the document before invoke: what it cannot encode is thrown at
\* the caller.
PutThrows ==
    /\ Ready
    /\ answer' = Failure("thrown", "unencodable")
    /\ UNCHANGED <<loading, data, lastFailure, walk, acked>>

\* A call of the host store throws, or answers with a Promise: every import
\* catches it and records it.  The default store does neither.
HostFails == Imported /\ hostStore # "indexeddb" /\ Fails("host", TRUE)

\* A request to GitHub fails; only for want of a synchronous transport does its
\* import record anything.
GitHubFails == backend = "github" /\ Fails("transport", transport = "none")

\* The resolver has no token, or only the Promise of one: nothing is asked.
NoCredential == backend = "github" /\ Fails("transport", FALSE)

\* The resolver throws, through the module, at invoke.
ResolverThrows ==
    /\ backend = "github"
    /\ lastFailure' = FALSE
    /\ answer' = Failure("decode", "throw")

CallFails ==
    /\ Ready
    /\ HostFails \/ GitHubFails \/ NoCredential \/ ResolverThrows
    /\ UNCHANGED <<loading, data, walk, acked>>

\* It took effect all the same: the host store answered put or delete with a
\* Promise and goes on, or GitHub's answer was lost.
WriteFailsButHappens(d) ==
    /\ Ready
    /\ HostFails \/ (transport # "none" /\ GitHubFails)
    /\ \/ Store(d)
       \/ d \in live /\ Drop(d)
    /\ Others
    /\ UNCHANGED <<loading, acked>>

-----------------------------------------------------------------------------
(* The pages of list and history *)

ListRestFrom(w) == {d \in live \cap w.of : d >= w.cursor}      \* seeded fault

\* The documents after the cursor, which need not be there any more.
ListRest(w) == {d \in live \cap w.of : d > w.cursor}

Versions(d) == {records[d][i].version : i \in 1..Len(records[d])}

\* No version lies between one that is listed and the next.
Unbroken(h, versions) ==
    \A i \in 1..(Len(h) - 1) : ~\E v \in versions : h[i + 1] < v /\ v < h[i]

\* What history may list for a walk, newest first.  GitHub's is asked for page
\* by page and stops at its limit.  What is pushed meanwhile moves its next page
\* back: it may list a version again or one pushed since, but it skips none.
Histories(w) ==
    IF backend # "github" \/ records[w.of] = <<>> THEN {VersionsOf(records[w.of])}
    ELSE {h \in UNION {[1..m -> Versions(w.of)] : m \in 1..HistoryLimit} :
            /\ \A v \in w.stable \cup ToSet(w.items) : v <= h[1]
            /\ Unbroken(h, Versions(w.of))
            /\ \/ Len(h) = HistoryLimit
               \/ \A v \in Versions(w.of) : h[Len(h)] <= v}

\* The oldest versions are not in it.
Cut(w, h) ==
    /\ w.kind = "history"
    /\ \E v \in Versions(w.of) : \A i \in 1..Len(h) : v < h[i]

HistoryRestByNumber(w, h) ==                      \* seeded fault: off by one
    SelectSeq(h, LAMBDA v : w.cursor = 0 \/ v < w.cursor - 1)

\* The versions behind the first that is the cursor's: none if that is gone.
HistoryRest(w, h) ==
    LET after == {i \in DOMAIN h : h[i] = w.cursor}
    IN  IF w.cursor = 0 THEN h
        ELSE IF after = {} THEN <<>>
        ELSE SubSeq(h, Min(after) + 1, Len(h))

\* The keys are sorted before they are cut into pages.
Sorted(S) ==
    [i \in 1..Cardinality(S) |->
        CHOOSE d \in S : Cardinality({e \in S : e <= d}) = i]

\* A list reads the keys at once.
Readings(w) == IF w.kind = "list" THEN {<<>>} ELSE Histories(w)

Rest(w, h) ==
    IF w.kind = "list" THEN Sorted(ListRest(w)) ELSE HistoryRest(w, h)

\* One page.  It has a next cursor, its last item, only if something is left.
Turn(w, limit, h) ==
    LET rest == Rest(w, h)
        page == SubSeq(rest, 1, Min({limit, Len(rest)}))
        more == Len(rest) > limit
    IN  [w EXCEPT !.items = @ \o page, !.done = ~more, !.cut = Cut(w, h),
                  !.cursor = IF more THEN Last(page) ELSE @]

\* Over GitHub versions may have come in since the first page was asked for.
NewWalks ==
    {[kind |-> "list", of |-> f, cursor |-> 0, items |-> <<>>,
      stable |-> live \cap f, done |-> FALSE, cut |-> FALSE] : f \in Filters}
    \cup
    {[kind |-> "history", of |-> d, cursor |-> 0, items |-> <<>>,
      stable |-> {v \in Versions(d) : v <= newest}, done |-> FALSE, cut |-> FALSE]
     : d \in Docs, newest \in IF backend = "github" THEN 0..puts ELSE {puts}}

FirstPage ==
    /\ Ready /\ Succeeds
    /\ walk # None => walk.done
    /\ \E w \in NewWalks, limit \in Limits :
         \E h \in Readings(w) : walk' = Turn(w, limit, h)
    /\ UNCHANGED <<loading, data, acked>>

NextPage ==
    /\ Ready /\ Succeeds
    /\ walk # None /\ ~walk.done /\ Len(walk.items) < MaxItems
    /\ \E limit \in Limits, h \in Readings(walk) : walk' = Turn(walk, limit, h)
    /\ UNCHANGED <<loading, data, acked>>

-----------------------------------------------------------------------------

Init ==
    /\ phase = "idle" /\ options = None /\ transport = "unused"
    /\ hostStore = "none" /\ backend = "memory"
    /\ records = [d \in Docs |-> <<>>] /\ live = {} /\ puts = 0
    /\ lastFailure = FALSE /\ answer = Success /\ walk = None /\ acked = {}

Operation ==
    \/ \E d \in Docs :
        \/ Put(d)
        \/ Delete(d)
        \/ WriteFailsButHappens(d)
    \/ Get
    \/ RefusedRequest
    \/ UnwrittenRequest
    \/ PutThrows
    \/ CallFails
    \/ FirstPage
    \/ NextPage

Next ==
    \/ \E o \in Options : Load(o)
    \/ OpenDefaultStore
    \/ Fetch
    \/ Instantiate
    \/ Operation

Spec == Init /\ [][Next]_vars

-----------------------------------------------------------------------------
(* Properties *)

\* The Effect binding: an answer becomes a success or a typed failure, what was
\* thrown a defect.
IntoEffect(a) ==
    IF a.ok THEN "succeed" ELSE IF a.kind = "thrown" THEN "defect" ELSE "fail"

\* The kind of an error speaks of the call that got it, never of an earlier
\* one: "host-store" of a host import that failed in it (or of a client without
\* a host store), "wasm-export" of the module, "decode" of the encoding; and
\* only what put cannot encode is a defect of the Effect.
ErrorsNameTheirCause ==
    /\ answer.kind = "host-store" /\ hostStore # "none" =>
        answer.cause = "host" \/ (answer.cause = "transport" /\ transport = "none")
    /\ answer.kind = "wasm-export" => answer.cause \in {"request", "transport"}
    /\ answer.kind = "decode" => answer.cause \in {"unencodable", "throw"}
    /\ IntoEffect(answer) = "defect" => answer.cause = "unencodable"
    /\ answer.ok => answer.cause = "none"

\* A version that put answered reads as the value put or not at all, never as
\* another put's; where versions are counted per document, until the document
\* is deleted.
PinnedReadsNeverLie ==
    \A a \in acked :
        LET e == At(records[a.doc], a.version)
        IN  e = None \/ e.val = a.val

WalkDone(kind) == walk # None /\ walk.kind = kind /\ walk.done

\* Whoever follows next_cursor to the end sees every document that was there
\* all along, each once and in order, whatever is put and deleted meanwhile,
\* the document under the cursor included.
ListWalkComplete ==
    WalkDone("list") =>
        /\ walk.stable \subseteq ToSet(walk.items)
        /\ \A i, j \in DOMAIN walk.items : i < j => walk.items[i] < walk.items[j]

\* The same of the versions of one document, newest first; but over GitHub what
\* its limit cuts off at the end is not seen, and a version may be seen twice.
HistoryWalkComplete ==
    WalkDone("history") =>
        /\ \A v \in walk.stable \ ToSet(walk.items) :
             walk.cut /\ \A i \in DOMAIN walk.items : v < walk.items[i]
        /\ backend # "github" =>
             /\ ~walk.cut
             /\ \A i, j \in DOMAIN walk.items : i < j => walk.items[i] > walk.items[j]
=============================================================================
