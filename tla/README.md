# Formal verification of SideshowDB

This directory holds TLA+ models of the parts of SideshowDB that decide what is
stored, what is read back and what a reader is shown, the TLC configurations
that check them, and theorems that TLAPS proves about eight of the components.

## 1. The system (inventory)

SideshowDB keeps documents, event streams and snapshots as blobs under one Git
ref.  Every producer goes through one interface, `RefStore`
(`src/core/storage/ref_store.zig`): `put`, `get`, `delete`, `list`, `history`.

| Part | State it keeps | Operations | Talks to | What is hard | What makes it correct |
| ---- | -------------- | ---------- | -------- | ------------ | --------------------- |
| `RefStore` contract | a map from keys to values, and one map per version | put, get, delete, list, history | implemented by every store | nothing by itself: it is the yardstick | versions never change or vanish; a write edits one key |
| Subprocess Git store (`git_ref_store.zig`) | the ref and the commits of a repository, shared with other processes | the five | a chain of `git` children per call | processes interleave between any two children; children fail; processes die | no acknowledged put is lost; no rejected one shows; reads never go back |
| GitHub API store (`github_api_ref_store.zig`, `github_api/`) | ref and commits at GitHub; a tip cache and three object caches | the five | HTTP transport, credential provider | lost answers, retried requests, conflicts and replays | as above, with any number of writers |
| Write-through store (`write_through_ref_store.zig`) | none of its own; N caches and one canonical store | the five | other `RefStore`s | each of the N + 1 stores may fail, the process may die between two | caches never contradict the canonical store for longer than the policy allows |
| Memory store (`memory_ref_store.zig`) | hash map: history and tombstone per key | the five | an allocator that may fail | half-done puts | a put that fails before its entry is stored neither shows nor undeletes; the one that fails after it touches no other key and no older version |
| IndexedDB host store (`indexeddb-store.ts`) | per tab a cache and a write-behind chain; a database shared by tabs | open, put, get, delete, list, history, close | the browser | queued writes that share one array, transactions that fail or abort, racing schema upgrades, blocked requests, reloads | a write is lost without a word only with an aborted transaction; a store stands on an object store that exists; opening and close end |
| Event store (`event.zig`) | one blob per stream | append, load, loadFromRevision | any `RefStore` | get-check-put without a compare; retries of puts that took effect | streams load; revisions are stable; polling misses nothing |
| Snapshot store (`snapshot.zig`) | one blob per snapshot | put, getLatest, getAtOrBefore, list | any `RefStore` | get-then-put; lists that read key by key | first content of a revision wins |
| Document store (`document.zig`, `document_transport.zig`) | one blob per document | put, get, list, delete, history | any `RefStore` | cursors over a changing list | a page walk shows each document once |
| Credential providers (`credential_provider.zig`, `credential_sources/`) | none | get | environment, `gh`, `git credential`, host | order of fallback | first source that answers wins |
| WebAssembly module and TypeScript clients (`wasm/`, `client.ts`, `index.ts`) | the backend chosen at load; the failure a host import recorded last | load, put, get, delete, list, history | host imports: a store, HTTP, credentials | host stores that throw or answer with a Promise; page walks over changing data | errors name their cause; a version never reads as another put; a walk shows each item once, as far as the backend's history goes |
| Playground page (`site/src/routes/playground/+page.svelte`) | the repository in the URL, a request counter, what is shown, the flags of its runtime | navigate, load a repository, run the demo | GitHub, the client | answers overtaken by navigations; failures of one demo step | it shows what the URL asks for, stops loading, and its panel is truthful |
| Command line (`cli/`) | hosts.toml | one store call per invocation; auth login, logout, status | a store; the file system | two invocations at once | no lost login |

How the parts interact: the command line, the WebAssembly exports and the two
derived stores (events, snapshots) call a `RefStore`; the write-through store
is one and calls others; the subprocess store talks to git children, the GitHub
store to an HTTP transport, and both share their ref with every other process
that uses the repository.  In the browser the page calls the client, the client the
module, and the module calls back into the host store that the page gave or that
the client opened.  The interesting states arise where a part reads, goes away,
and writes, or shows, what it computed from the reading.  The hazards, with the
line where each bites, are in `PROJECT.json`.

## 2. Modules

| Module | Models | State | Uses |
| ------ | ------ | ----- | ---- |
| `RefStore` | the contract of `ref_store.zig` | `latest`, `snapshots` | - |
| `CommitGraph` | commits, ancestors, reachability | - | - |
| `GitRefStore` | `SubprocessGitRefStore`: processes over one repository | `ref`, `commits`, `proc`; histories `seen`, `acked`, `rejected` | `CommitGraph`; refines `RefStore` |
| `GitHubApiRefStore` | `GitHubApiRefStore`: clients over one GitHub ref | `ref`, `commits`, `call`, `tip`; histories `failed`, `unheard`, `faults` | refines `RefStore` |
| `MemoryRefStore` | `MemoryRefStore` with an allocator that fails | `next_version`, `keys`, `history`, `deleted`, `freed`; history `acked` | - |
| `WriteThroughRefStore` | `WriteThroughRefStore` over caches and a canonical store | `policy`, `caches`, `latest`, `snapshots`, `call`; histories `clean`, `hurt` | composes a `RefStore` (its canonical store) |
| `EventStore` | `EventStore.append`, `loadFromRevision` | `mode`, `latest`, `snapshots`, `call`, `tail`; history `acked` | composes a `RefStore` |
| `HostRecords` | the versions a host store keeps of a key, and how it numbers them | - | - |
| `IndexedDbStore` | `createIndexedDbHostStore`: tabs over one database | `schema`, `dbVersion`, `disk`, `upgrade`, `ghosts`, `tab` | `HostRecords` |
| `WasmClient` | `loadSideshowDbClient` and the calls of the client, over the module's backends | `phase`, `options`, `transport`, `hostStore`, `backend`, `records`, `live`, `lastFailure`, `answer`, `walk`; history `acked` | `HostRecords` |
| `Playground` | the page: explorer and binding panel | `requestedRepo`, `requestVersion`, `loading`, `error`, `model`, `requests`, `mounted`, `runtime`, `flags`; history `failed` | - |
| `GitRefStoreProofs` | lemmas and theorems | - | `CommitGraph`, `GitRefStore`, `RefStore` |
| `MemoryRefStoreProofs`, `WriteThroughRefStoreProofs`, `EventStoreProofs`, `GitHubApiRefStoreProofs`, `IndexedDbStoreProofs`, `WasmClientProofs`, `PlaygroundProofs` | lemmas and theorems | - | the component each is named after |
| `MC*` | model values and symmetry of each component | - | one component each |

Operators whose comment says *seeded fault* belong to no specification.  Each is
what a definition would look like after a plausible mistake in the code, and
`PROJECT.json` ("mutants") says which property notices it.

### RefStore, the abstract contract

Two variables: the map an unpinned `get` reads, and the map each version holds.
A write publishes the whole map under a fresh version with one key edited, and
nothing ever changes or removes a version.  `Serial` chooses between the strong
contract (a write edits the *latest* map: no update is lost) and the weak one
(a write edits *some* map published before, which is what racing writers of the
subprocess store get).

### GitRefStore

One action per git child that reads or moves the ref; children that only add
content-addressed objects (`hash-object`, `write-tree`) or work on the private
index file are part of the action that uses their result.

| Action | Code (`git_ref_store.zig`) |
| ------ | -------------------------- |
| `Put` | `put` up to `currentTreeSha`: the tree the write will edit is fixed here |
| `Delete`, `KeyExists` | `delete`'s `currentTreeSha`, then its `cat-file -e` on the ref as it is by then |
| `CommitTree` | `commitAndUpdate` up to `commit-tree`: the parent is resolved here, a second time |
| `UpdateRef` | `update-ref <ref> <new> <old>`, or without `<old>` if no parent was found |
| `Return` | the version handed to the caller |
| `Get`, `CatFile` | `rev-parse`, then `cat-file -p <commit>:<key>` |
| `GitFails`, `Crash` | a child that exits with an error; the process killed or out of memory |

`list` and `history` read one child's output and are operators (`ListKeys`,
`History`).  `Worktree` is the user's working tree as `update-index --remove`
sees it; `Seeded` says whether the ref exists already; `RevParseMayFail` lets a
`rev-parse` fail although the ref exists, which the code takes for a missing ref.

### GitHubApiRefStore

A call is a row of requests.  Objects are immutable and named by their hashes,
so the actions are the read of the ref (with everything built on it until the
request that moves the ref) and the move itself.

| Action | Code (`github_api_ref_store.zig`) |
| ------ | --------------------------------- |
| `Put`, `PutAgain` | `putExistingRef` up to the ref update; the second on a later turn of `put`'s retry loop |
| `Delete` | `delete` up to the ref update, or its early return |
| `Get`, `ReadObjects` | `readTipCommitSha` with the tip cache, then the objects of `get` or `list` |
| `History`, `HistoryGoesOn` | one page each of `GET /commits?path=`, counted from what the ref is by then |
| `MoveRef`, `MoveRefused` | the PATCH (fast-forward only) or POST and its answer; `mapGitHubStatus`; the retry decision |
| `ServerFails` | a 5xx: `requestGitHubWithHeaders` sends the same request once more |
| `HostRepeats` | `HostHttpTransport.request` repeats a request whose answer did not fit |
| `TransportFails`, `Fails` | broken connection or death, before or after the server acted |

The server keeps objects, lists commits and moves refs as the mock of the
acceptance tests does (`acceptance/typescript/src/support/github-mock.ts`), except
that it refuses what is no fast-forward, as GitHub documents.  Each answer to a
move may be lost with the move done or not.  Two things are
worth knowing although no run is about them.  `delete` gives up on the first
conflict, although `docs/design/configuration` calls `retry_concurrent_writes`
the "retry budget for `put`/`delete`".  And a request that is repeated after a
move it did not hear of can meet a rival's commit, in which case `put` takes
the 422 for a conflict and writes a second time, or reports an error for a write
that stands: `EveryWriteCountsOnce` excludes exactly that case (`unheard`).

### WriteThroughRefStore

`Stage`/`StageFails` is one turn of the staging loop, `Compensate` one turn of
`compensateCacheStages`, `Commit`/`CommitFails` the canonical write;
`Lookup`/`LookupFails`, `Fetch`, `Refill` are `get`.  The constant `Faults`
lists what may go wrong in a run, `hurt` what did, so that a property can say
what it holds in spite of.  The composite is documented as not thread-safe and
takes one call at a time.

### EventStore

`Load` is `append` up to its put (load, revision check, duplicate check), then
`PutStream`, `PutStreamUnheard` (it worked, the caller got an error) or
`PutFails`.  `mode` is chosen once: appends take turns over a strong store, or
overlap over a weak one.  `Poll` is a reader that asks `loadFromRevision` for
what follows its last revision.  Events are an id and a stream; parsing is the
check `finishParsedBatch` makes on them.

### MemoryRefStore

One action per write and per allocation of `put` that can fail: `PutFailsEarly`
before the hash map is touched, `PutFailsAtAppend` after a new key is in it, and
`PutFailsAtAnswer` for the copy of the version to return, when the entry is in the
history and the tombstone gone.  The cleanup of the last one frees what the entry
points at; `freed` remembers those entries, and the reads (`Gets`, `GetsAt`, `List`,
`History`) are operators that give the *set* of what the code may answer, any value for
freed memory.

### IndexedDbStore

A tab is a record: the phase of its store object, its cache, its chain of
waiting writes, the write whose transaction runs.  The browser's part
(transactions, the queue of open requests, `versionchange`) is modelled from how
the code uses it.

| Action | Code (`indexeddb-store.ts`) |
| ------ | --------------------------- |
| `Open`, `Probe` | `createIndexedDbHostStore`; `openDatabase` without a version, then close and ask for one version more if the object store is missing |
| `StartUpgrade`, `OpenWithoutUpgrade`, `OpenTooOld` | the second open reaches the head of the queue and finds the version free, taken, or passed |
| `VersionChange`, `Blocked`, `Upgrade` | `onversionchange`, `onblocked`, `onupgradeneeded` with the success after it |
| `OpenFails`, `UpgradeFails` | an open request fails, or the transaction of its upgrade aborts |
| `Load`, `LoadFails` | `loadCache` |
| `Put`, `Delete` | `put`, `delete`: the cache at once, a write at the end of the chain |
| `StartWrite`, `StartThrows` | `persistRecord`/`deleteRecord` from the chain; `db.transaction` on a closed connection |
| `WriteEnds`, `WriteFails`, `WriteAborts` | `oncomplete`; `onerror`; an abort that only fires `abort`, which nothing listens to |
| `Close`, `CloseReturns` | `close` up to its await, and after it |
| `Reload` | the page is left: a running transaction commits or does not |

A waiting write of a key shares the array the cache holds and is cloned only
when it starts (`Shared`), so a later put changes what an earlier write stores.
`unsaved` and `foreign` are histories: the keys whose last write was reported as
failed, and those another tab wrote since.  Worth knowing: two tabs on one
object store overwrite each other's records, which `OnlyAbortsAreSilent` excludes
through `foreign`; a version number can come back after a delete; and a transaction
that aborts silently loses its write, reports nothing and leaves its chain waiting
for ever.  `lost` is the key of that write, the exception `OnlyAbortsAreSilent`
and `CloseEnds` name; `FailedWritesAreReported` is the same property without it,
which is what the repository's README promises and the code does not keep.

### WasmClient

JavaScript runs one call of the client to its end before anything else, so an
operation is one action; what other callers do comes between calls, and so
between the pages of one `list` or `history`.  `Load`, `OpenDefaultStore`,
`Fetch` and `Instantiate` are the awaits of `loadSideshowDbClient`, each of which
may fail.  Over GitHub alone other machines come in between the requests of *one*
call: `Histories` is every answer `history` may then give, newest first, cut at
`HistoryLimit`, with versions pushed meanwhile in it or listed twice, but none
skipped between two that are listed (that is `ReadsAreFresh` of
`GitHubApiRefStore`).  `Put`, `Delete`, `Get`, `FirstPage` and `NextPage` succeed;
`RefusedRequest`, `UnwrittenRequest`, `PutThrows`, `CallFails` and
`WriteFailsButHappens` are the ways they do not.  `cause` remembers what really
went wrong, so that `ErrorsNameTheirCause` can compare it with the error's kind;
`IntoEffect` is what the Effect binding makes of it.  Worth knowing: a request
the module refuses is reported as a failure of the host store if no host store was
given (`client.ts`, `invoke`), a value that JSON cannot hold is thrown by `put` itself
and becomes a defect in the Effect binding, and `types.ts` says the backend
"defaults to in-WASM memory store" although a host store, if one was resolved,
comes before it.

### Playground

`Navigate` is `afterNavigate`, `RunEffect` the `$effect` that follows it,
`Answer` GitHub's answer to one of the two fetches, and `SettleLoad` what comes after
`Promise.all`, with the comparison of `requestVersion`.  `RuntimeLoads`,
`RuntimeFails`, `DemoStep` and `Leave` are the other effect, with both branches of
its catch and its cancellation.  `failed` is the history of what went wrong in it.  `View` and `Panel` are the derived values the template shows.

## 3. What the runs check

| Run | Bounds | Shows |
| --- | ------ | ----- |
| `git_concurrent` | 2 writers, 2 keys, 2 values, 3 commits | acknowledged puts stay in the history, rejected ones never enter it, what `history` says agrees with `get`, sessions go forward, and the weak contract is refined |
| `git_single_writer` | 1 writer that also creates the ref, 1 reader, 3 commits | the strong contract is refined, with failing children and crashes |
| `git_lost_update` | as `git_concurrent` | **violation**: a commit may undo another writer's key, against `git-ref-storage-spec.md` |
| `memory_store` | 2 keys, 2 values, 5 versions minted | a failed put shows, undeletes or frees only if its very last allocation failed, and then on its own key alone; pinned reads survive unless an older entry of the key was freed; `list`, `history` and `get` agree |
| `write_through` | 3 caches, 1 key, 2 values, 2 versions, all faults and reads of old versions | strict writes leave caches and canonical store in agreement where they promise to; one whole write heals a key |
| `write_through_pinned` | 2 caches, 2 keys, no fault | **violation**: a get of an old version puts the old value into the caches |
| `event_store` | 2 clients, 2 streams, 2 ids, batches up to 2, 3 versions | streams stay loadable in every interleaving; with turns, revisions are stable and a polling reader misses nothing |
| `github_store` | 2 clients, 2 keys, 1 value, 5 commits, budget 1, 1 lost answer, pages of 2, history limit 3 | the strong contract is refined with any number of writers; writes count once; `put` starves only if others succeed; reads and walks through the pages of `history` are fresh |
| `indexeddb` | 2 tabs, 2 object stores, 1 key, 1 value, 3 versions, 2 writes, 3 opens | what a reload finds is what the caches show, but for what was reported or lost to an aborted transaction; racing upgrades leave no store without its object store; opening and `close` end |
| `indexeddb_silent_abort` | as `indexeddb` | **violation**: a queued write that aborts at its commit is lost and `onPersistenceError` is never called, against the README of `sideshowdb-effect` |
| `wasm_client` | 3 documents, 2 filters, pages of 1 and 2, 3 puts, a history limit of 2 over GitHub, walks that go on up to 3 items, every option of the load | errors name their cause; pinned versions never lie; page walks of `list` are complete, and those of `history` up to what GitHub's limit cuts off |
| `playground` | 5 inputs (none, two repositories, another spelling of one, a malformed one), 3 runs of the effect | the page shows what the URL asks for; its panel says what failed, in the load or in the demo; loading ends |

Six more disagreements with the documents are recorded in `PROJECT.json` ("findings")
without a run of their own:

* `delete` of the subprocess store keeps a key whose path names a file of the working
  tree (`Worktree`; with a file there TLC finds a deleted key that still reads);
* two writers that create the ref replace each other's history (`Seeded = FALSE`
  with two writers violates `AckedPutDurable`), although the specification has git
  reject the loser;
* `put` of the memory store, when its last allocation fails, has stored the value and
  left the history pointing at freed memory (`PutFailsAtAnswer`);
* GitHub's `history` is newest first and without deletions, where GHAPI-060 asks for
  puts and deletions in chronological order;
* the write-through `put` does not compensate when the canonical store refuses, under
  either policy;
* `expected_revision` does not hold off an append that overlaps.

Why the bounds are enough.  Lost updates and their absence need two writers, two
keys (the one written and the one trampled) and a commit to start from plus one
per writer: 3 commits.  A `put` that exhausts a budget of one needs two commits
of its own, two of its rival and one to start from: 5 commits.  A lost answer is
one 5xx, whose repetition may be lost as well, or one broken connection; three
listed versions over pages of two are a walk with a page behind it, and commits
of the rival shift it.  Three caches are the one that fails, one before it and
one after it; caches treat keys independently, so one key suffices except for
reads of an old version, where the whole map counts.  In the browser two tabs
make every race of two upgrades, and two writes make a queued write share its
array with a later one or lose it to a delete; that longer rows of puts and deletes
do no more is proved (`CachesAgreeWithStorage`).  The third opening is the one that
waits behind an upgrade given up.  The record an earlier release left holds a
malformed version and a gap, so that numbering by length would show.  Three
documents are one under the cursor, one before and one after; three puts give a history of three
versions, longer than GitHub's limit of two, and walks of pages of one that change under the
reader.  `MaxItems` ends only walks over GitHub that repeat items for ever.  Three runs of
the page's effect are two loads overtaken by a third.  The counters `MaxCommits`,
`MaxFaults`, `MaxVersion`, `Versions`, `MaxBatch`, `MaxWrites`, `MaxOpens`, `MaxRecord`,
`MaxPuts`, `MaxItems` and `MaxRequests` bound only how often something happens.  Symmetry is
used on interchangeable keys, values, processes and versions; no run with
symmetry checks liveness.

Deadlock is checked except in three runs.  In the two of `IndexedDbStore` and in `playground` the
callers may have used up `MaxWrites`, `MaxOpens` or `MaxRequests`, and a tab or a
page with nothing under way and nobody to ask anything is where the code rests.

Fairness.  The Zig stores state none: every operation is a bounded chain of calls
that either ends or waits for a child or an answer, and the retry loop of `put`
is bounded by its budget, which is the safety property `ConflictAfterBudget`.
The two modules with liveness assume weak fairness of what the platform owes and
nothing of callers:

* `IndexedDbStore`: the browser handles its queue of open requests, delivers
  `versionchange` and `blocked`, ends each transaction one way or another, and runs
  the callbacks of promises that settled.  `OpeningEnds` excepts an opening that
  waits behind an upgrade which was blocked and given up but not withdrawn;
  `CloseEnds` excepts a chain whose transaction aborted silently.  Both exceptions
  are what the code does.
* `Playground`: the page runs its effects and each request is answered or fails in
  the network.  The code has no timeout of its own: a request that hangs for
  ever keeps the page loading, which the assumption excludes.

## 4. What is proved

`tlapm` checks these for any number of processes, clients, tabs, keys, values and
commits, that is for every value of the constants the modules' assumptions allow.
Every invariant, action property and refinement a passing run checks has its
theorem; only liveness has none.

| Theorem | Statement |
| ------- | --------- |
| `TypeCorrect` | `Spec => []TypeOK` of `GitRefStore` |
| `AckedPutsAreDurable` | `Seeded /\ ~RevParseMayFail /\ Spec => []AckedPutDurable` |
| `RejectedWritesStayOut` | likewise for `RejectedNeverPublished` |
| `SessionsGoForward` | likewise for `SessionsNeverGoBack` |
| `RacingWritersRefineWeakContract` | likewise for `ImplementsWeakContract` |
| `LoneWritersPutsAreDurable` | `LoneWriter /\ ~RevParseMayFail`: `Spec => []AckedPutDurable`, from an empty repository too |
| `LoneWriterImplementsContract` | as well with no file at a stored path: `Spec => ImplementsContract`, the *strong* contract |
| `NewestHistoryIsWhatGetReads` | `Spec => []HistoryAgreesWithGet` |
| `GitHubImplementsContract` | `Spec => ImplementsContract`: the *strong* contract |
| `GitHubReadsAreFresh`, `GitHubConflictsAreOthersWrites`, `GitHubTypeOK` | `ReadsAreFresh`, `ConflictAfterBudget` and `TypeOK` of `GitHubApiRefStore` |
| `GitHubWritesCountOnce` | `Spec => []EveryWriteCountsOnce` |
| `MemoryTypeCorrect`, `PinnedReadsAreStable`, `ListShowsWhatGetFinds`, `HistoryGoesDown`, `FailedPutsDoNotShow` | every property of the `memory_store` run |
| `WriteThroughTypeCorrect`, `StrictCachesAgree`, `OneWholeWriteHeals` | every property of the `write_through` run |
| `EventsTypeCorrect`, `EveryStoredStreamLoads`, `AckedBatchesAreAtTheirVersion`, `RevisionsAreStable`, `PollersSeeTheStream` | every property of the `event_store` run |
| `CachesAgreeWithStorage`, `StoresOpenOnTheirSchema` | `OnlyAbortsAreSilent`, `OpenStoresExist` of `IndexedDbStore` |
| `VersionsOfARecordDiffer` | `IsFiniteSet(Stores) /\ LeftDistinct`: `Spec => []TypeOK` of `IndexedDbStore` |
| `WasmClientTypeOK`, `ErrorsSpeakOfTheirCall`, `PinnedReadsAreTrue`, `HistoryWalksAreComplete`, `ListWalksAreComplete` | every property of the `wasm_client` run |
| `PageTypeCorrect`, `PageShowsWhatIsAsked`, `PanelSpeaksTrue` | every safety property of the `playground` run |

**Git.**  The two assumptions are the conditions under which the code promises
something.  Without `Seeded`, two writers that both find no ref each create it
with an `update-ref` that names no old value, and the second replaces the
first's history.  With `RevParseMayFail` one failing child has the same effect.
`TypeInv` is `TypeOK`, the arguments of each call (`CallsOK`) and an acyclic
graph (`GraphOK`: a parent is older than its child).  `TypeOK` alone is not
inductive, for the action that commits needs to know the types of the call's own
arguments.  The first lemmas show, by quantifying over parent-closed sets
where an induction would be needed, that appending a commit changes no
ancestors, that a child's ancestors are its parent's and itself, and that
ancestry is transitive.  `SafetyInv` then adds what makes the ref only move
forward: a commit that waits for its `update-ref` has a parent to compare with,
is published nowhere and belongs to one process (`PendingOK`), what is published
stays so (`PublishedOK`), its value is the one put (`ValuesOK`), and what a
process is about to see descends from what it has seen (`SessionsOK`).  The
refinement adds `BasesOK`: every tree a writer edits was published.  Its only
visible step is a successful `update-ref`; every other step is a stutter.

With one writer (`LoneWriter`) nobody can be overtaken, so `Seeded` is not needed:
`LoneWriterInv` says that from its rev-parse to its update-ref the writer's base *is*
the ref (`LoneCallsOK`), so even the ref it creates is created from nothing and the commit
it publishes edits the latest tree.  The strong contract also needs that no file
of the user's lies at a stored path, for `delete` publishes that file instead
(the finding on git_ref_store.zig:211).  `NewestHistoryIsWhatGetReads` has neither
assumption: what `git log -- key` keeps of the commits reachable from the ref is a
chain, since one of any two of them descends from the other; between its newest
member and the ref nothing touches the key, so both trees read the same there.

**GitHub.**  The model keeps with each commit the set of its ancestors, so
`GraphInv` (a commit's past is itself and its parent's past, all of it older)
replaces the induction.  `CallsInv` says that a write which waits for the ref to
move edits one key of a tree that was published when it read the ref; since the
server takes a fast-forward only, and the waiting commit's parent is that base, an
accepted move is an edit of the *latest* tree or repeats one that was already
made.  That is the only visible step of the refinement, whatever is lost or
sent twice.  `WriteInv` adds that writes in flight are distinct, have not failed
and, unless a request was repeated unheard, are not published.  `KnowInv` is what
a call knows between its requests: a base it works on was published no earlier
than the call began; at least as many commits have reached the ref since the call
began as `put` has lost attempts (`BudgetOK`), and none of them is its own; and the pages a history has read hold every commit that had set
the key when it began and whose place in the list is `skip` or less (`FoundSoFar`).
A push moves a commit to a later place only, so the next page, which starts at `skip`, cannot
have passed over one.

**Memory.**  Versions of a key go up (`VersionsGoUp`) and every acknowledged
put is an entry of its history (`AckedAreEntries`); what was freed was minted before
(`FreedIsOld`).  A pinned read scans from the oldest entry on, so only an older freed
entry can come before the one it looks for: from that pinned reads, `history`'s order
and `list` follow.

**Write-through.**  `CallOK` fixes what a call knows between two of its calls on a
store.  While nothing but an early cache failure has happened under the strict
policy (`Calm`), only the caches the call has reached and not yet cleaned up
after may disagree with the canonical store, and only on its key (`StrictOK`);
a write no cache refused is in every cache it has turned to (`StagedOK`), and a
refill carries what the canonical store still holds (`RefillOK`).  `CleanOK`
carries `WholeWritesConverge` through the steps.

**Events.**  What waits for its put can follow the stream that was read
(`CallsOK`), so whatever appends overlap, the blob they write parses
(`LatestLoads`), and the version it got is a snapshot of that very stream, which
never changes again (`AckedInv`).  Where appends take turns the one under way holds the stream as
it is (`TurnsOK`), and acknowledged events lie within it (`AckedWithin`).

**IndexedDB.**  `TabOK` says that the last waiting write of a key carries what the
cache shows, or, if none waits, the one whose transaction runs does
(`Carries`): this is where the shared array matters, for a put rewrites the
writes that wait and a delete between them does not break the last one.  `Saved`
adds that a key with nothing under way, reported, overtaken or lost to an abort is on
the disk as the cache shows it; an aborted write is the only one `lost` ever holds, for the
chain behind it never starts again.  `SchemaInv` says that the upgrade at the head of the
queue belongs to a tab that waits for it on the same object store, unless it was
given up, and that every tab past its opening has its object store in the schema.
`TypesInv` carries the records: `NextVersionIsNew` shows that `nextVersion` numbers
no two versions alike, malformed ones and gaps included, and every array that
goes through a cache, the chain, a transaction and the disk is one of the `Records`
with that property.  `LeftDistinct` asks it of the records an earlier release left,
which the same `nextVersion` numbered; the code does not check what it loads.
`CountInv` says that an upgrade asks for one version more than there is, for an object
store that is not there, so the database has at most one version more than object
stores.

**Client.**  Over every backend the versions of a document go up and none outruns
the puts (`RecordsOK`), so a fresh one is larger than every version there and
than every version answered (`FreshIsNew`); where they are counted per document
an answered version is still in its record (`AckedOK`), which a deletion ends
together with the promise.  A walk through a history that is not done stands at a
version it has shown, and what was there all along and is not shown yet is older than
all it has shown; if the version it stands at is gone, nothing was there all along
(`HistoryOK`).  Over GitHub the next page reads another history, which may be cut
elsewhere and name the version at the cursor twice.  What carries the invariant there is
`Covered`: a listing without holes that goes from above a version to it or below lists
it.  So what follows the first entry at the cursor shows every version from the cursor
down to where the listing ends, and what is still missing is older than all of it, and
missing at the end of the walk only if the listing was cut.  A walk through a list is the
same argument over keys in ascending order (`ListOK`): the page starts behind the
cursor, whether or not the document under it is still there, and shows what
`Sorted` puts first (`SortedFacts`: it lists a finite set once and in order).

**Playground.**  Only the load of the effect's last run may still show anything,
and it is under way for exactly as long as the page says that it is loading
(`ExplorerInv`); the flags of the panel are those of the load, of the kind of error it was
rejected with or of a demo that has ended (`BindingInv`).

Only model-checked: the liveness properties `OpeningEnds`, `CloseEnds` and
`LoadingEnds`, and the three disagreements the violation runs show.
Out of the prover's reach: liveness and `ENABLED`, inductions over data (what a
recursive definition computes for every input); no module uses a RECURSIVE
operator.

## 5. What is left out

* `validateKey`, limits on value sizes, message texts, rate-limit figures and
  payload bytes: no property tells them apart.
* Git: a child that outlives its dead parent, two identical commits made in one
  second sharing a hash, pruning of unreachable objects.
* Write-through: other writers to the canonical store behind the composite.
* Memory: a read of freed memory that crashes, and what the allocator makes of memory
  freed twice; the model lets such a read answer any value.
* GitHub: eviction from the object caches, a ref deleted by hand, a tree listing
  cut off (`truncated`).
* IndexedDB: what two tabs on one object store make of each other's records
  (`OnlyAbortsAreSilent` excludes those keys), a host that calls the store again
  from inside `onPersistenceError`.
* Client over GitHub: pushes within one call are modelled for `history` only; a `list`
  reads one tree.  `Histories` is what `GitHubApiRefStore` shows of a history, not that
  module composed: what its pages list is `ReadsAreFresh` there.
* Client: the bytes that cross the boundary, the marshalling of HTTP requests,
  pages of zero items, a host store that calls the client from inside an import.
* Playground: what the tables and figures show of a repository.
* Components with no module, in `PROJECT.json` with the reason: the credential
  providers (a stateless chain of lookups), the snapshot store, the command line
  and its usage parser, `hosts.toml`, the build, the release scripts, the static
  pages of the site (its Mermaid renderer included) and the tests.

## 6. Plan

Done, in this order: the contract; the subprocess store and its proofs; the
write-through, event, memory and GitHub stores; the IndexedDB store, the client
with its document pages, the playground page, the pages of GitHub's `history`;
the proofs of the memory, write-through, event, GitHub and IndexedDB stores, of
the client and of the page.
Left:

1. `SnapshotStore` (`snapshot.zig`) over the abstract store: the first content of a
   revision wins where writes take turns, and what a `list` that reads key by key
   can miss.
2. `HostsFile` (`hosts_file.zig`, `handlers.zig`): two logins or logouts through one
   temporary file.
3. `ShaBodyLruCache` (`cache.zig`) with failing allocations; the credential chain;
   the argument parser and the client's request encoding as operators checked
   against a reference.
4. Proofs of the components above.

Each new component gets one passing run with its properties.

## 7. Running

    tlc -workers 2 -config MCGitRefStore.cfg MCGitRefStore
    tlapm GitRefStoreProofs.tla

The longest runs (`indexeddb`, `wasm_client`) take two to three minutes each; each proof module
takes from a few seconds to a few minutes.
