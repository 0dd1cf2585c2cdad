----------------------------- MODULE Playground -----------------------------
(***************************************************************************)
(* The playground page (site/src/routes/playground/+page.svelte).  Its URL *)
(* names a repository: an effect after each navigation asks GitHub for the *)
(* summary and the refs, and what comes back is shown unless the reader    *)
(* went on meanwhile.  Beside it the page loads the WebAssembly client and *)
(* walks a demo document through it.                                       *)
(***************************************************************************)
EXTENDS Naturals, FiniteSets

CONSTANTS
    Inputs,         \* values of ?repo= in the URL
    Repos,
    Empty,          \* the input without a repository
    None,
    Parsed,         \* parseRepoInput: the repository an input names, or None
    MaxRequests     \* bound on the runs of the effect

ASSUME PlaygroundAssumption ==
    /\ Empty \in Inputs
    /\ None \notin Repos \cup {"format"} \cup [summary : Repos, refs : Repos]
    /\ Parsed \in [Inputs \ {Empty} -> Repos \cup {None}]
    /\ MaxRequests \in Nat \ {0}

VARIABLES
    requestedRepo,
    effectDue,      \* requestedRepo changed and the effect has not run since
    requestVersion,
    loading,        \* loadingMessage: the repository it names, or None
    error,          \* errorMessage: "format", the repository whose answer it
                    \* tells of, or None
    model,          \* the explorer's: whose summary and whose refs, or None
    requests,       \* per requestVersion, the load that waits for GitHub
    mounted,
    runtime,        \* the runtime's effect: "load", the demo's next step, or
                    \* "done"
    failed,         \* the kinds of what failed so far in the load and the
                    \* demo: "runtime-load", "host-store", or "other"
    flags           \* what the page knows of its runtime

explorer == <<requestedRepo, effectDue, requestVersion, loading, error, model, requests>>
binding == <<runtime, failed, flags>>
vars == <<explorer, mounted, binding>>

Answers == {"waiting", "ok", "failed"}

\* The demo's operations, and what follows each.
AfterStep == [put |-> "list", list |-> "history", history |-> "delete", delete |-> "done"]

Flags ==
    [runtimeLoading : BOOLEAN, wasmRuntime : BOOLEAN, runtimeUnavailable : BOOLEAN,
     storeUnavailable : BOOLEAN, demoUnavailable : BOOLEAN, demoSummary : BOOLEAN]

TypeOK ==
    /\ requestedRepo \in Inputs
    /\ effectDue \in BOOLEAN /\ mounted \in BOOLEAN
    /\ requestVersion \in 0..MaxRequests
    /\ loading \in Repos \cup {None}
    /\ error \in Repos \cup {None, "format"}
    /\ model = None \/ model \in [summary : Repos, refs : Repos]
    /\ DOMAIN requests \subseteq 1..requestVersion
    /\ \A v \in DOMAIN requests :
        requests[v] \in [repo : Repos, summary : Answers, refs : Answers]
    /\ runtime \in {"load", "done"} \cup DOMAIN AfterStep
    /\ failed \subseteq {"runtime-load", "host-store", "other"}
    /\ flags \in Flags

-----------------------------------------------------------------------------
(* The explorer *)

\* A link, the form of HeroRepoForm (which only lets a repository through), the
\* address bar or the history: afterNavigate reads the URL.  The same value
\* runs no effect.
Navigate(input) ==
    /\ mounted /\ requestVersion < MaxRequests
    /\ input # requestedRepo
    /\ requestedRepo' = input
    /\ effectDue' = TRUE
    /\ UNCHANGED <<requestVersion, loading, error, model, requests, mounted, binding>>

Show(l, e, m) == loading' = l /\ error' = e /\ model' = m

ShowNothingUnversioned(e) ==                      \* seeded fault
    /\ Show(None, e, None)
    /\ UNCHANGED <<requestVersion, requests>>

\* Nothing is asked for, or no repository.  What is under way becomes stale.
ShowNothing(e) ==
    /\ requestVersion' = requestVersion + 1
    /\ Show(None, e, None)
    /\ UNCHANGED requests

LoadRepoTwice(repo) ==                            \* seeded fault: counted twice
    /\ requestVersion' = requestVersion + 2
    /\ Show(repo, None, None)
    /\ requests' = [v \in DOMAIN requests \cup {requestVersion'} |->
                        IF v = requestVersion'
                        THEN [repo |-> repo, summary |-> "waiting", refs |-> "waiting"]
                        ELSE requests[v]]

\* loadRepo, up to its await.
LoadRepo(repo) ==
    /\ requestVersion' = requestVersion + 1
    /\ Show(repo, None, None)
    /\ requests' = [v \in DOMAIN requests \cup {requestVersion'} |->
                        IF v = requestVersion'
                        THEN [repo |-> repo, summary |-> "waiting", refs |-> "waiting"]
                        ELSE requests[v]]

\* The input is none of owner/repo, spaces and empty parts aside.
InvalidRepo == requestedRepo # Empty /\ Parsed[requestedRepo] = None

SelectedRepo == IF requestedRepo = Empty THEN None ELSE Parsed[requestedRepo]

RunEffect ==
    /\ mounted /\ effectDue
    /\ effectDue' = FALSE
    /\ IF SelectedRepo # None THEN LoadRepo(SelectedRepo)
       ELSE IF InvalidRepo THEN ShowNothing("format")
       ELSE ShowNothing(None)
    /\ UNCHANGED <<requestedRepo, mounted, binding>>

\* GitHub answers one of the two fetches of a load: with what the page can use,
\* or with a status, a shape or a network failure that is thrown.
Answer(v, part, answer) ==
    /\ requests[v][part] = "waiting"
    /\ requests' = [requests EXCEPT ![v][part] = answer]
    /\ UNCHANGED <<requestedRepo, effectDue, requestVersion, loading, error, model,
                   mounted, binding>>

Settled(v) ==
    \/ requests[v].summary = "failed" \/ requests[v].refs = "failed"
    \/ requests[v].summary = "ok" /\ requests[v].refs = "ok"

SettleLoadStillLoading(v) ==                      \* seeded fault: in the catch
    /\ Settled(v)
    /\ requests' = [w \in DOMAIN requests \ {v} |-> requests[w]]
    /\ LET r == requests[v] IN
       IF v # requestVersion
       THEN UNCHANGED <<loading, error, model>>
       ELSE IF r.summary = "failed" \/ r.refs = "failed"
       THEN Show(loading, r.repo, None)
       ELSE Show(None, error, [summary |-> r.repo, refs |-> r.repo])
    /\ UNCHANGED <<requestedRepo, effectDue, requestVersion, mounted, binding>>

\* Promise.all settles: what is shown is that of the last run of the effect.
SettleLoad(v) ==
    /\ Settled(v)
    /\ requests' = [w \in DOMAIN requests \ {v} |-> requests[w]]
    /\ LET r == requests[v] IN
       IF v # requestVersion
       THEN UNCHANGED <<loading, error, model>>
       ELSE IF r.summary = "failed" \/ r.refs = "failed"
       THEN Show(None, r.repo, None)
       ELSE Show(None, error, [summary |-> r.repo, refs |-> r.repo])
    /\ UNCHANGED <<requestedRepo, effectDue, requestVersion, mounted, binding>>

-----------------------------------------------------------------------------
(* The binding: the client and its demo document *)

LoadingFlags ==
    [runtimeLoading |-> TRUE, wasmRuntime |-> FALSE, runtimeUnavailable |-> FALSE,
     storeUnavailable |-> FALSE, demoUnavailable |-> FALSE, demoSummary |-> FALSE]

\* The page's catch: one kind of error speaks of the host store, any other of
\* the runtime.
RejectedFlags(kind) ==
    [LoadingFlags EXCEPT !.runtimeLoading = FALSE,
                         !.runtimeUnavailable = kind # "host-store",
                         !.storeUnavailable = kind = "host-store"]

\* The promise of the client rejects: loadSideshowDbClient with an error of kind
\* "runtime-load", but the page is ready for one of the host store as well.
RuntimeFails(kind) ==
    /\ runtime = "load"
    /\ runtime' = "done"
    /\ failed' = {kind}
    /\ flags' = IF mounted THEN RejectedFlags(kind) ELSE flags
    /\ UNCHANGED <<explorer, mounted>>

RuntimeLoads ==
    /\ runtime = "load"
    /\ runtime' = "put"
    /\ UNCHANGED <<explorer, mounted, failed, flags>>

DemoFlagsLast(failure, failures) ==               \* seeded fault: the last only
    [LoadingFlags EXCEPT !.runtimeLoading = FALSE,
                         !.wasmRuntime = TRUE,
                         !.storeUnavailable = failure = "host-store",
                         !.demoUnavailable = failure \notin {"none", "host-store"},
                         !.demoSummary = failure = "none"]

\* What the page makes of the four answers: findHostStoreFailure,
\* findDemoFailure, summarizeDemoResults.
DemoFlags(failure, failures) ==
    [LoadingFlags EXCEPT !.runtimeLoading = FALSE,
                         !.wasmRuntime = TRUE,
                         !.storeUnavailable = "host-store" \in failures,
                         !.demoUnavailable = failures # {} /\ "host-store" \notin failures,
                         !.demoSummary = failures = {}]

\* One operation of the demo is answered: it failed with an error of that kind,
\* or did not.  The next one is tried in any case.
DemoStep(failure) ==
    /\ runtime \in DOMAIN AfterStep
    /\ failed' = failed \cup ({failure} \ {"none"})
    /\ runtime' = AfterStep[runtime]
    /\ flags' = IF runtime = "delete" /\ mounted THEN DemoFlags(failure, failed') ELSE flags
    /\ UNCHANGED <<explorer, mounted>>

\* The page is left: the runtime's effect is cancelled.
Leave ==
    /\ mounted
    /\ mounted' = FALSE
    /\ UNCHANGED <<explorer, binding>>

\* getProjectionPanelBody: what the panel beside the explorer speaks of.
Panel ==
    IF flags.runtimeLoading THEN IF model # None THEN "loading" ELSE "default"
    ELSE IF flags.storeUnavailable THEN "store unavailable"
    ELSE IF flags.runtimeUnavailable THEN "runtime unavailable"
    ELSE IF flags.demoUnavailable THEN "demo unavailable"
    ELSE IF flags.wasmRuntime THEN "ready" ELSE "default"

\* Which part of the results the page shows.
View ==
    IF requestedRepo = Empty THEN "start"
    ELSE IF loading # None THEN "loading"
    ELSE IF error # None THEN "error"
    ELSE IF model # None THEN "explorer" ELSE "nothing"

-----------------------------------------------------------------------------

Init ==
    /\ requestedRepo \in Inputs /\ effectDue = TRUE
    /\ requestVersion = 0 /\ loading = None /\ error = None /\ model = None
    /\ requests = [v \in {} |-> None]
    /\ mounted = TRUE
    /\ runtime = "load" /\ failed = {} /\ flags = LoadingFlags

GitHub(v) ==
    \/ \E part \in {"summary", "refs"}, answer \in {"ok", "failed"} :
        Answer(v, part, answer)
    \/ SettleLoad(v)

Runtime ==
    \/ \E kind \in {"runtime-load", "host-store"} : RuntimeFails(kind)
    \/ RuntimeLoads
    \/ \E failure \in {"none", "host-store", "other"} : DemoStep(failure)

Next ==
    \/ \E input \in Inputs : Navigate(input)
    \/ RunEffect
    \/ \E v \in DOMAIN requests : GitHub(v)
    \/ Runtime
    \/ Leave

\* The page runs its effects, the network answers or fails.
Fairness ==
    /\ WF_vars(RunEffect) /\ WF_vars(Runtime)
    /\ \A v \in 1..MaxRequests : WF_vars(v \in DOMAIN requests /\ GitHub(v))

Spec == Init /\ [][Next]_vars /\ Fairness

-----------------------------------------------------------------------------
(* Properties *)

\* Once the effect has run, the page shows one thing, and it is about the
\* repository in the URL, both halves of it, in whatever order the answers to
\* this and to earlier requests come in (requestVersion, loadRepo).
ShownIsRequested ==
    mounted /\ ~effectDue =>
        IF requestedRepo = Empty
        THEN View = "start" /\ error = None /\ model = None
        ELSE LET repo == Parsed[requestedRepo] IN
             IF repo = None
             THEN View = "error" /\ error = "format"
             ELSE /\ View # "nothing"
                  /\ Cardinality({x \in {<<1, loading>>, <<2, error>>, <<3, model>>} :
                                    x[2] # None}) = 1
                  /\ loading \in {None, repo}
                  /\ error \in {None, repo}
                  /\ model \in {None, [summary |-> repo, refs |-> repo]}

\* No repository is loading for ever.
LoadingEnds == loading # None ~> loading = None

\* What the panel says of the binding is what happened to it, and it says so in
\* the end: that the runtime could not be loaded, else any failure of any step of
\* the demo, one of the host store before the others; and nobody is told of a
\* demo that did not complete.
PanelTruthful ==
    /\ runtime = "done" /\ mounted =>
        Panel = IF "host-store" \in failed THEN "store unavailable"
                ELSE IF "runtime-load" \in failed THEN "runtime unavailable"
                ELSE IF failed # {} THEN "demo unavailable" ELSE "ready"
    /\ Panel = "ready" <=> flags.demoSummary
    /\ flags.demoSummary => failed = {}
=============================================================================
