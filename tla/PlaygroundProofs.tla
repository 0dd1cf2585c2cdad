-------------------------- MODULE PlaygroundProofs --------------------------
(***************************************************************************)
(* The playground page for any repositories, inputs and number of          *)
(* navigations: it shows what the URL asks for, and its panel says what    *)
(* happened.                                                               *)
(***************************************************************************)
EXTENDS Playground, FiniteSetTheorems, TLAPS

Shows(l, e, m) == loading = l /\ error = e /\ model = m

Explored(repo) == [summary |-> repo, refs |-> repo]

\* What is shown once the effect has run.
Current ==
    IF requestedRepo = Empty THEN Shows(None, None, None)
    ELSE LET repo == Parsed[requestedRepo] IN
         IF repo = None THEN Shows(None, "format", None)
         ELSE \/ Shows(repo, None, None)
              \/ Shows(None, repo, None)
              \/ Shows(None, None, Explored(repo))

\* Only the load of the last run of the effect may still show anything, and it
\* is under way for as long as the page says that it is loading.
ExplorerInv ==
    /\ effectDue => requestVersion < MaxRequests
    /\ ~effectDue => Current
    /\ loading # None <=> requestVersion \in DOMAIN requests
    /\ loading # None =>
        Shows(requests[requestVersion].repo, None, None)

\* The flags are those of the load, of its failure or of a demo that ended.
BindingInv ==
    /\ runtime = "load" => failed = {}
    /\ runtime \in DOMAIN AfterStep => failed \subseteq {"host-store", "other"}
    /\ \/ flags = LoadingFlags /\ ~(runtime = "done" /\ mounted)
       \/ /\ runtime = "done"
          /\ \E kind \in {"runtime-load", "host-store"} :
               failed = {kind} /\ flags = RejectedFlags(kind)
       \/ /\ runtime = "done" /\ failed \subseteq {"host-store", "other"}
          /\ flags = DemoFlags("none", failed)

-----------------------------------------------------------------------------
(* Types, and the two effects *)

PageInv == TypeOK /\ ExplorerInv /\ BindingInv

LEMMA InitPage == Init => PageInv
<1> SUFFICES ASSUME Init PROVE PageInv
  OBVIOUS
<1>1. TypeOK
  BY PlaygroundAssumption DEF Init, TypeOK, LoadingFlags, Flags, AfterStep
<1>2. ExplorerInv
  BY PlaygroundAssumption DEF Init, ExplorerInv
<1>3. BindingInv
  BY DEF Init, BindingInv
<1>. QED
  BY <1>1, <1>2, <1>3 DEF PageInv

LEMMA NavigateStep ==
    ASSUME PageInv, NEW input \in Inputs, Navigate(input)
    PROVE  PageInv'
<1>1. TypeOK'
  BY DEF PageInv, Navigate, binding, TypeOK
<1>2. ExplorerInv'
  BY DEF PageInv, Navigate, ExplorerInv, Shows
<1>3. BindingInv'
  BY DEF PageInv, Navigate, binding, BindingInv
<1>. QED
  BY <1>1, <1>2, <1>3 DEF PageInv

LEMMA EffectStep ==
    ASSUME PageInv, RunEffect
    PROVE  PageInv'
<1> DEFINE n == requestVersion + 1
<1>1. /\ effectDue' = FALSE /\ requestedRepo' = requestedRepo
      /\ UNCHANGED <<mounted, runtime, failed, flags>>
      /\ requestVersion \in Nat /\ n \in 0..MaxRequests /\ n \notin DOMAIN requests
      /\ DOMAIN requests \subseteq 1..requestVersion
      /\ requestVersion' = n
  BY PlaygroundAssumption
  DEF PageInv, RunEffect, binding, TypeOK, ExplorerInv, LoadRepo, ShowNothing
<1>2. BindingInv'
  BY <1>1 DEF PageInv, BindingInv
<1>3. CASE SelectedRepo # None
  <2> DEFINE repo == Parsed[requestedRepo]
  <2>1. requestedRepo # Empty /\ repo # None /\ repo \in Repos
    BY <1>3, PlaygroundAssumption DEF SelectedRepo, PageInv, TypeOK
  <2>2. /\ Shows(repo, None, None)'
        /\ DOMAIN requests' = DOMAIN requests \cup {n}
        /\ requests'[n] = [repo |-> repo, summary |-> "waiting", refs |-> "waiting"]
        /\ \A v \in DOMAIN requests : requests'[v] = requests[v]
    BY <1>1, <1>3, <2>1 DEF RunEffect, LoadRepo, Show, Shows, SelectedRepo
  <2>3. TypeOK'
    <3>1. \A v \in DOMAIN requests' :
            requests'[v] \in [repo : Repos, summary : Answers, refs : Answers]
      BY <2>1, <2>2 DEF PageInv, TypeOK, Answers
    <3>2. DOMAIN requests' \subseteq 1..n
      BY <1>1, <2>2
    <3>. QED
      BY <1>1, <2>1, <2>2, <3>1, <3>2 DEF PageInv, TypeOK, Shows
  <2>4. ExplorerInv'
    BY <1>1, <2>1, <2>2 DEF ExplorerInv, Current, Shows
  <2>. QED
    BY <1>2, <2>3, <2>4 DEF PageInv
<1>4. CASE SelectedRepo = None
  <2>1. /\ requests' = requests
        /\ IF requestedRepo = Empty THEN Shows(None, None, None)'
           ELSE Parsed[requestedRepo] = None /\ Shows(None, "format", None)'
    BY <1>4 DEF RunEffect, ShowNothing, Show, Shows, SelectedRepo, InvalidRepo
  <2>2. DOMAIN requests' \subseteq 1..n
    BY <1>1, <2>1
  <2>3. TypeOK'
    BY <1>1, <2>1, <2>2 DEF PageInv, TypeOK, Shows
  <2>4. ExplorerInv'
    BY <1>1, <2>1 DEF ExplorerInv, Current, Shows
  <2>. QED
    BY <1>2, <2>3, <2>4 DEF PageInv
<1>. QED
  BY <1>3, <1>4

LEMMA AnswerStep ==
    ASSUME PageInv, NEW v \in DOMAIN requests, NEW part \in {"summary", "refs"},
           NEW answer \in {"ok", "failed"}, Answer(v, part, answer)
    PROVE  PageInv'
<1>1. /\ UNCHANGED <<requestedRepo, effectDue, requestVersion, loading, error, model,
                     mounted, runtime, failed, flags>>
      /\ DOMAIN requests' = DOMAIN requests
  BY DEF Answer, binding
<1>2. ASSUME NEW w \in DOMAIN requests
      PROVE  /\ requests'[w] \in [repo : Repos, summary : Answers, refs : Answers]
             /\ requests'[w].repo = requests[w].repo
  <2>1. requests[w] \in [repo : Repos, summary : Answers, refs : Answers]
    BY DEF PageInv, TypeOK
  <2>2. \/ requests'[w] = requests[w]
        \/ requests'[w] = [requests[w] EXCEPT !.summary = answer]
        \/ requests'[w] = [requests[w] EXCEPT !.refs = answer]
    BY <2>1 DEF Answer
  <2>. QED
    BY <2>1, <2>2 DEF Answers
<1>3. TypeOK'
  BY <1>1, <1>2 DEF PageInv, TypeOK
<1>4. ExplorerInv'
  BY <1>1, <1>2 DEF PageInv, ExplorerInv, Current, Shows
<1>5. BindingInv'
  BY <1>1 DEF PageInv, BindingInv
<1>. QED
  BY <1>3, <1>4, <1>5 DEF PageInv

LEMMA SettleStep ==
    ASSUME PageInv, NEW v \in DOMAIN requests, SettleLoad(v)
    PROVE  PageInv'
<1>0. PICK repo \in Repos : repo = requests[v].repo
  BY DEF PageInv, TypeOK
<1>1. /\ UNCHANGED <<requestedRepo, effectDue, requestVersion, mounted, runtime, failed, flags>>
      /\ DOMAIN requests' = DOMAIN requests \ {v}
      /\ \A w \in DOMAIN requests \ {v} : requests'[w] = requests[w]
      /\ repo # None
  BY PlaygroundAssumption DEF SettleLoad, binding
<1>2. BindingInv'
  BY <1>1 DEF PageInv, BindingInv
<1>3. CASE v # requestVersion
  <2>1. UNCHANGED <<loading, error, model>>
    BY <1>3 DEF SettleLoad
  <2>2. TypeOK'
    BY <1>1, <2>1 DEF PageInv, TypeOK
  <2>3. ExplorerInv'
    BY <1>1, <1>3, <2>1 DEF PageInv, ExplorerInv, Current, Shows
  <2>. QED
    BY <1>2, <2>2, <2>3 DEF PageInv
<1>4. CASE v = requestVersion
  <2>1. Shows(repo, None, None)
    BY <1>0, <1>4 DEF PageInv, ExplorerInv
  <2>2. Shows(None, repo, None)' \/ Shows(None, None, Explored(repo))'
    BY <1>0, <1>4, <2>1 DEF SettleLoad, Show, Shows, Explored
  <2>3. TypeOK'
    BY <1>1, <2>2 DEF PageInv, TypeOK, Shows, Explored
  <2>4. ~effectDue => requestedRepo # Empty /\ Parsed[requestedRepo] = repo
    BY <1>1, <2>1 DEF PageInv, ExplorerInv, Current, Shows
  <2>5. ExplorerInv'
    BY <1>1, <1>4, <2>2, <2>4 DEF PageInv, ExplorerInv, Current, Shows, Explored
  <2>. QED
    BY <1>2, <2>3, <2>5 DEF PageInv
<1>. QED
  BY <1>3, <1>4

LEMMA FlagsTyped ==
    /\ LoadingFlags \in Flags
    /\ \A kind : RejectedFlags(kind) \in Flags
    /\ \A failures : DemoFlags("none", failures) \in Flags
<1>1. ASSUME NEW a \in BOOLEAN, NEW b \in BOOLEAN, NEW c \in BOOLEAN
      PROVE  [LoadingFlags EXCEPT !.runtimeLoading = FALSE, !.wasmRuntime = TRUE,
                                  !.storeUnavailable = a, !.demoUnavailable = b,
                                  !.demoSummary = c] \in Flags
  BY DEF LoadingFlags, Flags
<1>2. ASSUME NEW failures PROVE DemoFlags("none", failures) \in Flags
  <2>1. /\ ("host-store" \in failures) \in BOOLEAN
        /\ (failures # {} /\ "host-store" \notin failures) \in BOOLEAN
        /\ (failures = {}) \in BOOLEAN
    OBVIOUS
  <2>. QED
    BY <1>1, <2>1, Zenon DEF DemoFlags
<1>3. ASSUME NEW a \in BOOLEAN, NEW b \in BOOLEAN
      PROVE  [LoadingFlags EXCEPT !.runtimeLoading = FALSE, !.runtimeUnavailable = a,
                                  !.storeUnavailable = b] \in Flags
  BY DEF LoadingFlags, Flags
<1>4. ASSUME NEW kind PROVE RejectedFlags(kind) \in Flags
  <2>1. (kind # "host-store") \in BOOLEAN /\ (kind = "host-store") \in BOOLEAN
    OBVIOUS
  <2>. QED
    BY <1>3, <2>1, Zenon DEF RejectedFlags
<1>. QED
  BY <1>2, <1>4 DEF LoadingFlags, Flags

LEMMA BindingStep ==
    ASSUME PageInv, Runtime \/ Leave
    PROVE  PageInv'
<1>1. UNCHANGED explorer /\ mounted' \in BOOLEAN
  BY DEF PageInv, TypeOK, Runtime, RuntimeFails, RuntimeLoads, DemoStep, Leave
<1>2. ExplorerInv'
  BY <1>1 DEF PageInv, ExplorerInv, Current, Shows, explorer
<1>3. /\ runtime' \in {"load", "done"} \cup DOMAIN AfterStep
      /\ failed' \subseteq {"runtime-load", "host-store", "other"}
      /\ flags' \in Flags
      /\ BindingInv'
  <2>1. ASSUME NEW kind \in {"runtime-load", "host-store"}, RuntimeFails(kind)
        PROVE  /\ runtime' = "done" /\ failed' = {kind}
               /\ flags' \in Flags /\ BindingInv'
    <3>1. /\ runtime = "load" /\ runtime' = "done" /\ failed' = {kind}
          /\ mounted' = mounted /\ flags = LoadingFlags
          /\ flags' = IF mounted THEN RejectedFlags(kind) ELSE flags
      BY <2>1 DEF RuntimeFails, PageInv, BindingInv
    <3>2. flags' \in Flags
      BY <3>1, FlagsTyped
    <3>3. BindingInv'
      BY <3>1 DEF BindingInv, AfterStep, RejectedFlags
    <3>. QED
      BY <3>1, <3>2, <3>3
  <2>2. CASE RuntimeLoads
    BY <2>2 DEF RuntimeLoads, PageInv, TypeOK, BindingInv, AfterStep
  <2>3. ASSUME NEW failure \in {"none", "host-store", "other"}, DemoStep(failure)
        PROVE  /\ runtime' \in {"load", "done"} \cup DOMAIN AfterStep
               /\ failed' \subseteq {"runtime-load", "host-store", "other"}
               /\ flags' \in Flags
               /\ BindingInv'
    <3>1. /\ runtime \in {"put", "list", "history", "delete"}
          /\ runtime' \in {"list", "history", "delete", "done"}
          /\ runtime = "delete" <=> runtime' = "done"
          /\ failed' \subseteq {"host-store", "other"} /\ mounted' = mounted
          /\ flags' = IF runtime = "delete" /\ mounted THEN DemoFlags(failure, failed')
                      ELSE flags
      BY <2>3 DEF DemoStep, AfterStep, PageInv, TypeOK, BindingInv
    <3>2. flags = LoadingFlags
      BY <3>1 DEF PageInv, BindingInv
    <3>3. \/ flags' = LoadingFlags /\ ~(runtime' = "done" /\ mounted')
          \/ runtime' = "done" /\ flags' = DemoFlags("none", failed')
      BY <3>1, <3>2 DEF DemoFlags
    <3>4. flags' \in Flags
      BY <3>3, FlagsTyped
    <3>. QED
      BY <3>1, <3>3, <3>4 DEF BindingInv, AfterStep, DemoFlags
  <2>4. CASE Leave
    BY <2>4 DEF Leave, binding, PageInv, TypeOK, BindingInv, RejectedFlags, DemoFlags
  <2>. QED
    BY <2>1, <2>2, <2>3, <2>4 DEF Runtime
<1>4. TypeOK'
  BY <1>1, <1>3 DEF PageInv, TypeOK, explorer
<1>. QED
  BY <1>2, <1>3, <1>4 DEF PageInv

LEMMA AlwaysPage == Spec => []PageInv
<1>1. PageInv /\ [Next]_vars => PageInv'
  <2> SUFFICES ASSUME PageInv, [Next]_vars PROVE PageInv'
    OBVIOUS
  <2>1. CASE UNCHANGED vars
    BY <2>1 DEF vars, explorer, binding, PageInv, TypeOK, ExplorerInv, Current, Shows,
                BindingInv
  <2>2. CASE Next
    BY <2>2, NavigateStep, EffectStep, AnswerStep, SettleStep, BindingStep DEF Next, GitHub
  <2>. QED
    BY <2>1, <2>2
<1>. QED
  BY InitPage, <1>1, PTL DEF Spec

-----------------------------------------------------------------------------

\* The page stays well typed, and its counter of requests counts each run of
\* the effect once (requestVersion).
THEOREM PageTypeCorrect == Spec => []TypeOK
BY AlwaysPage, PTL DEF PageInv

\* In whatever order the answers to any number of navigations come in, the page
\* shows one thing, about the repository in its URL (loadRepo and the effect
\* that calls it).
THEOREM PageShowsWhatIsAsked == Spec => []ShownIsRequested
<1>1. PageInv => ShownIsRequested
  <2> SUFFICES ASSUME PageInv, mounted, ~effectDue PROVE ShownIsRequested
    BY DEF ShownIsRequested
  <2>. DEFINE repo == Parsed[requestedRepo]
              x == {<<1, loading>>, <<2, error>>, <<3, model>>}
              S == {y \in x : y[2] # None}
  <2>0. Current
    BY DEF PageInv, ExplorerInv
  <2>1. CASE requestedRepo = Empty
    BY <2>0, <2>1 DEF Current, Shows, ShownIsRequested, View
  <2>2. CASE requestedRepo # Empty /\ repo = None
    BY <2>0, <2>2, PlaygroundAssumption DEF Current, Shows, ShownIsRequested, View
  <2>3. CASE requestedRepo # Empty /\ repo # None
    <3>1. repo \in Repos /\ Explored(repo) # None
      BY <2>3, PlaygroundAssumption DEF PageInv, TypeOK, Explored
    <3>2. \/ Shows(repo, None, None)
          \/ Shows(None, repo, None)
          \/ Shows(None, None, Explored(repo))
      BY <2>0, <2>3 DEF Current
    <3>3. \E y : S = {y}
      <4>1. CASE Shows(repo, None, None)
        <5>1. S = {<<1, repo>>}
          BY <2>3, <4>1 DEF Shows
        <5>. QED
          BY <5>1
      <4>2. CASE Shows(None, repo, None)
        <5>1. S = {<<2, repo>>}
          BY <2>3, <4>2 DEF Shows
        <5>. QED
          BY <5>1
      <4>3. CASE Shows(None, None, Explored(repo))
        <5>1. S = {<<3, Explored(repo)>>}
          BY <3>1, <4>3 DEF Shows
        <5>. QED
          BY <5>1
      <4>. QED
        BY <3>2, <4>1, <4>2, <4>3
    <3>4. Cardinality(S) = 1
      BY <3>3, FS_Singleton
    <3>5. /\ View # "nothing"
          /\ loading \in {None, repo} /\ error \in {None, repo}
          /\ model \in {None, [summary |-> repo, refs |-> repo]}
      BY <2>3, <3>1, <3>2 DEF Shows, View, Explored
    <3>. QED
      BY <2>3, <3>4, <3>5 DEF ShownIsRequested
  <2>. QED
    BY <2>1, <2>2, <2>3
<1>. QED
  BY AlwaysPage, <1>1, PTL

\* Whatever fails in the load of the runtime or in any step of the demo, the
\* panel says what happened (getProjectionPanelBody, findDemoFailure).
THEOREM PanelSpeaksTrue == Spec => []PanelTruthful
<1>1. PageInv => PanelTruthful
  <2> SUFFICES ASSUME PageInv PROVE PanelTruthful
    OBVIOUS
  <2>1. BindingInv
    BY DEF PageInv
  <2>2. CASE flags = LoadingFlags /\ ~(runtime = "done" /\ mounted)
    BY <2>2 DEF PanelTruthful, Panel, LoadingFlags
  <2>3. ASSUME NEW kind \in {"runtime-load", "host-store"}, failed = {kind},
               flags = RejectedFlags(kind)
        PROVE  PanelTruthful
    BY <2>3 DEF PanelTruthful, Panel, LoadingFlags, RejectedFlags
  <2>4. CASE failed \subseteq {"host-store", "other"} /\ flags = DemoFlags("none", failed)
    BY <2>4 DEF PanelTruthful, Panel, LoadingFlags, DemoFlags
  <2>. QED
    BY <2>1, <2>2, <2>3, <2>4 DEF BindingInv
<1>. QED
  BY AlwaysPage, <1>1, PTL
=============================================================================
