------------------------- MODULE GitHubApiRefStore -------------------------
(***************************************************************************)
(* GitHubApiRefStore (src/core/storage/github_api_ref_store.zig): clients  *)
(* share one ref of a GitHub repository through the Git Database API.      *)
(* Each call is a row of requests.  Those that read or create objects see  *)
(* and change nothing another client can: only the read of the ref and the *)
(* request that moves it are actions of their own.  Any answer may be      *)
(* lost, after the server did what was asked of it or before.              *)
(***************************************************************************)
EXTENDS Naturals, Sequences, FiniteSets, SequencesExt, FiniteSetsExt

CONSTANTS
    Clients, Keys, Values, Absent,
    RetryBudget,    \* retry_concurrent_writes
    HistoryLimit,   \* history_limit
    PerPage,        \* the commits of a page of GitHub's
    MaxCommits,     \* bound on the commit objects ever created
    MaxFaults       \* bound on the answers to a move of the ref that are lost,
                    \* the answer to its repetition not counted

ASSUME GitHubAssumption ==
    /\ Absent \notin Keys \cup Values
    /\ RetryBudget \in Nat /\ HistoryLimit \in Nat /\ PerPage \in Nat \ {0}
    /\ MaxCommits \in Nat \ {0} /\ MaxFaults \in Nat

VARIABLES
    ref,        \* the commit the ref points at: the server's
    commits,    \* the commit objects: the server's
    call,       \* the call each client is in the middle of
    tip,        \* ref_tip_cache of each client, NoCommit if it holds nothing
    failed,     \* the writes that returned ConcurrentUpdate or InvalidRequest
    unheard,    \* TRUE: the ref moved once, and the request was sent again
    faults      \* how many answers were lost

server == <<ref, commits>>
vars == <<server, call, tip, failed, unheard, faults>>

Trees == [Keys -> Values \cup {Absent}]

EmptyTree == [k \in Keys |-> Absent]

NoCommit == 0

\* A write is known by the first commit it creates; `write` names it.  `past`
\* is the commit itself and all it descends from, which its parent fixes.
Commit == [parent : Nat, past : SUBSET Nat, tree : Trees, write : Nat]

\* `start` is what the ref was when the call began, `base` the commit it works
\* on, `attempt` the turn of put's retry loop, `sent` the requests sent for the
\* answer it waits for; `skip` and `listed` are the commits history went
\* through on the pages before and the versions it found on them.
Call == [pc : {"idle", "readRef", "moveRef", "readObjects", "readPage"},
         op : {"put", "delete", "get", "history", "none"},
         key : Keys \cup {Absent}, val : Values \cup {Absent}, start : Nat,
         base : Nat, commit : Nat, write : Nat, attempt : 0..RetryBudget,
         sent : 0..1, skip : Nat, listed : Seq(Nat)]

Idle == [pc |-> "idle", op |-> "none", key |-> Absent, val |-> Absent,
         start |-> NoCommit, base |-> NoCommit, commit |-> NoCommit,
         write |-> NoCommit, attempt |-> 0, sent |-> 0,
         skip |-> 0, listed |-> <<>>]

\* Versions name commits that exist, a call that waits for the ref to move has
\* a commit of its own to move it to, and the retry loop stays in its budget.
TypeOK ==
    /\ ref \in 0..Len(commits)
    /\ commits \in Seq(Commit) /\ Len(commits) <= MaxCommits
    /\ call \in [Clients -> Call]
    /\ \A p \in Clients :
        /\ {call[p].start, call[p].base, call[p].commit, call[p].write} \subseteq 0..Len(commits)
        /\ call[p].pc = "moveRef" => commits[call[p].commit].parent = call[p].base
        /\ Len(call[p].listed) <= HistoryLimit
    /\ tip \in [Clients -> 0..Len(commits)]
    /\ failed \subseteq 1..Len(commits)
    /\ unheard \in BOOLEAN /\ faults \in 0..MaxFaults

-----------------------------------------------------------------------------

Tree(c) == IF c = NoCommit THEN EmptyTree ELSE commits[c].tree

Past(c) == IF c = NoCommit THEN {} ELSE commits[c].past

Reachable == Past(ref)

\* What each published version holds, as `get` with that version reads it.
Snapshots == [c \in Reachable |-> commits[c].tree]

\* The writes of others published since the call began.
Rivals(me) ==
    Cardinality({c \in Reachable \ Past(me.start) :
                    commits[c].write # me.write})

-----------------------------------------------------------------------------
(* The server *)

ReadTipUnvalidated(p) == IF tip[p] = NoCommit THEN ref ELSE tip[p]  \* seeded fault

\* GET of the ref, with If-None-Match if the tip cache holds an entry: 304
\* stands for the cached commit, which the server has just found current.
ReadTip(p) == IF tip[p] # NoCommit /\ tip[p] = ref THEN tip[p] ELSE ref

\* The tip cache after that: a fresh answer without an ETag empties it.
TipAfter(p, base) ==
    \E cached \in {base} \cup (IF base = tip[p] THEN {} ELSE {NoCommit}) :
        tip' = [tip EXCEPT ![p] = cached]

\* The commits GET /commits?path=k lists from the ref: those that changed k.
Changed(k) == {c \in Reachable : Tree(c)[k] # Tree(commits[c].parent)[k]}

\* The place of a commit in a list that has the newest first, and the list.
Place(c, S) == Cardinality({d \in S : d >= c})

NewestFirst(S) == [i \in 1..Cardinality(S) |-> CHOOSE c \in S : Place(c, S) = i]

\* What POST of a blob, a tree and a commit makes.
NewCommit(me, base, write) ==
    [parent |-> base, past |-> Past(base) \cup {Len(commits) + 1}, write |-> write,
     tree |-> [Tree(base) EXCEPT ![me.key] = me.val]]

AcceptsForced(me) == TRUE                        \* seeded fault: force: true

\* PATCH of the ref with force: false wants a fast-forward, POST a new ref.
Accepts(me) ==
    IF commits[me.commit].parent = NoCommit
    THEN ref = NoCommit
    ELSE ref \in Past(me.commit)

-----------------------------------------------------------------------------
(* The operations.  A call begins when the server answers its first request: *)
(* what it does before is its own.                                         *)

Return(p) == call' = [call EXCEPT ![p] = Idle]

Begun(op, k, val) ==
    [Idle EXCEPT !.op = op, !.key = k, !.val = val, !.start = ref]

\* The commit the write `me` builds on `base`: blob, tree and commit are
\* created, and the call goes on to move the ref.
Build(p, me, base) ==
    LET c     == Len(commits) + 1
        write == IF me.write = NoCommit THEN c ELSE me.write
    IN  /\ c <= MaxCommits
        /\ commits' = Append(commits, NewCommit(me, base, write))
        /\ call' = [call EXCEPT ![p] = [me EXCEPT !.pc = "moveRef", !.base = base,
                                                 !.commit = c, !.write = write]]

\* put reads the ref without the tip cache; a missing ref is created later.
Put(p, k, val) ==
    /\ call[p] = Idle
    /\ Build(p, Begun("put", k, val), ref)
    /\ UNCHANGED <<ref, tip, failed, unheard, faults>>

\* The next turn of the loop does all of it again.
PutAgain(p) ==
    /\ call[p].pc = "readRef"
    /\ Build(p, call[p], ref)
    /\ UNCHANGED <<ref, tip, failed, unheard, faults>>

\* delete reads the tip, then the whole tree: without the key it is done.
Delete(p, k) ==
    LET base == ReadTip(p) IN
    /\ call[p] = Idle
    /\ TipAfter(p, base)
    /\ IF Tree(base)[k] = Absent
       THEN Return(p) /\ UNCHANGED commits
       ELSE Build(p, Begun("delete", k, Absent), base)
    /\ UNCHANGED <<ref, failed, unheard, faults>>

\* get and list read the tip, then what it holds, from the server or a cache:
\* objects are named by their hashes.  Without a ref there is nothing to read.
Get(p) ==
    LET base == ReadTip(p) IN
    /\ call[p] = Idle
    /\ base # NoCommit
    /\ TipAfter(p, base)
    /\ call' = [call EXCEPT ![p] = [Begun("get", Absent, Absent) EXCEPT
                                        !.pc = "readObjects", !.base = base]]
    /\ UNCHANGED <<server, failed, unheard, faults>>

ReadObjects(p) ==
    /\ call[p].pc = "readObjects"
    /\ Return(p)
    /\ UNCHANGED <<server, tip, failed, unheard, faults>>

\* One page of the commits that changed the key: it counts from what the ref is
\* by then.  Commits whose tree lacks the key, its deletes, are left out.
Page(p, me) ==
    LET list   == Changed(me.key)
        past   == me.skip + PerPage
        page   == {c \in list : Place(c, list) \in (me.skip + 1)..past}
        listed == me.listed \o NewestFirst({c \in page : Tree(c)[me.key] # Absent})
        more   == Len(listed) < HistoryLimit /\ past < Cardinality(list)
    IN  call' = [call EXCEPT ![p] =
            [me EXCEPT !.pc = IF more THEN "readPage" ELSE "readObjects",
                       !.skip = IF more THEN past ELSE @,
                       !.listed = SubSeq(listed, 1, Min({HistoryLimit, Len(listed)}))]]

History(p, k) ==
    /\ call[p] = Idle /\ ref # NoCommit
    /\ Page(p, Begun("history", k, Absent))
    /\ UNCHANGED <<server, tip, failed, unheard, faults>>

HistoryGoesOn(p) ==
    /\ call[p].pc = "readPage"
    /\ Page(p, call[p])
    /\ UNCHANGED <<server, tip, failed, unheard, faults>>

\* The server moves the ref and says so.
MoveRef(p) ==
    LET me == call[p] IN
    /\ me.pc = "moveRef"
    /\ Accepts(me)
    /\ ref' = me.commit
    /\ tip' = [tip EXCEPT ![p] = NoCommit]
    /\ Return(p)
    /\ UNCHANGED <<commits, failed, unheard, faults>>

TriesForEver(me) == me.op = "put"                \* seeded fault

TriesOnceLess(me) == me.op = "put" /\ me.attempt + 1 < RetryBudget  \* seeded fault

Tries(me) == me.op = "put" /\ me.attempt < RetryBudget

\* "Not a fast-forward": somebody moved the ref since it was read.
Conflict(me) == commits[me.commit].parent # NoCommit /\ ~Accepts(me)

\* The server answers 422.  A conflict sends put back to read the ref while its
\* budget lasts; a ref that exists already is an InvalidRequest.
MoveRefused(p) ==
    LET me == call[p] IN
    /\ me.pc = "moveRef"
    /\ ~Accepts(me)
    /\ IF Conflict(me) /\ Tries(me)
       THEN /\ call' = [call EXCEPT ![p] =
                    [me EXCEPT !.pc = "readRef", !.attempt = @ + 1, !.sent = 0]]
            /\ UNCHANGED failed
       ELSE /\ Return(p)
            /\ failed' = failed \cup {me.write}
    /\ UNCHANGED <<server, tip, unheard, faults>>

Fault == faults < MaxFaults /\ faults' = faults + 1

\* What the server may have done by the time an answer is lost.
Unheard(me) ==
    \/ ref' = ref
    \/ Accepts(me) /\ ref' = me.commit

\* A 5xx answer, which says nothing about the ref: the request is sent a second
\* time as it is, and after that the call fails with UpstreamUnavailable.
ServerFails(p) ==
    LET me == call[p] IN
    /\ IF me.sent = 0 THEN Fault ELSE UNCHANGED faults
    /\ me.pc = "moveRef"
    /\ Unheard(me)
    /\ unheard' = (unheard \/ (me.sent = 0 /\ ref' # ref))
    /\ call' = [call EXCEPT ![p] = IF me.sent = 0 THEN [me EXCEPT !.sent = 1] ELSE Idle]
    /\ UNCHANGED <<commits, tip, failed>>

\* The WebAssembly host has done the request and finds the buffer too small for
\* the answer: the transport has it do the request again.
HostRepeats(p) ==
    LET me == call[p] IN
    /\ Fault
    /\ me.pc = "moveRef"
    /\ Unheard(me)
    /\ unheard' = (unheard \/ ref' # ref)
    /\ UNCHANGED <<commits, call, tip, failed>>

TransportFailsRetried(p) ==                      \* seeded fault: sends it all again
    LET me == call[p] IN
    /\ Fault
    /\ me.pc = "moveRef"
    /\ Unheard(me)
    /\ call' = [call EXCEPT ![p] = [me EXCEPT !.pc = "readRef", !.sent = 0]]
    /\ UNCHANGED <<commits, tip, failed, unheard>>

\* The connection breaks, or the client dies: no answer, and no second request.
TransportFails(p) ==
    LET me == call[p] IN
    /\ Fault
    /\ me.pc = "moveRef"
    /\ Unheard(me)
    /\ Return(p)
    /\ UNCHANGED <<commits, tip, failed, unheard>>

\* Any other request fails for good, or the client dies and comes back without
\* its tip cache.
Fails(p) ==
    /\ call[p].pc # "moveRef"
    /\ Return(p)
    /\ tip' \in {tip, [tip EXCEPT ![p] = NoCommit]}
    /\ UNCHANGED <<server, failed, unheard, faults>>

-----------------------------------------------------------------------------

Init ==
    /\ \/ commits = <<>> /\ ref = NoCommit
       \/ \E k \in Keys, val \in Values :
            /\ commits = <<[parent |-> NoCommit, past |-> {1}, write |-> 1,
                            tree |-> [EmptyTree EXCEPT ![k] = val]]>>
            /\ ref = 1
    /\ call = [p \in Clients |-> Idle]
    /\ tip = [p \in Clients |-> NoCommit]
    /\ failed = {} /\ unheard = FALSE /\ faults = 0

Next ==
    \E p \in Clients :
        \/ \E k \in Keys : Delete(p, k) \/ \E val \in Values : Put(p, k, val)
        \/ PutAgain(p) \/ Get(p) \/ ReadObjects(p)
        \/ (\E k \in Keys : History(p, k)) \/ HistoryGoesOn(p)
        \/ MoveRef(p) \/ MoveRefused(p)
        \/ ServerFails(p) \/ HostRepeats(p) \/ TransportFails(p) \/ Fails(p)

Spec == Init /\ [][Next]_vars

-----------------------------------------------------------------------------
(* Properties *)

\* However many clients race, retry and lose answers, the store implements the
\* contract of ref_store.zig: every move of the ref edits one key of the latest
\* map and every version stays readable.  No update is lost, a request that is
\* sent twice included.
Contract ==
    INSTANCE RefStore WITH
        Serial <- TRUE, Versions <- 1..MaxCommits, latest <- Tree(ref),
        snapshots <- Snapshots

ImplementsContract == Contract!Spec

\* Unless a request is sent again although it had moved the ref, a write is
\* published at most once, and not at all if it returned ConcurrentUpdate or
\* InvalidRequest: broken connections and conflicts included.
EveryWriteCountsOnce ==
    ~unheard =>
        \A c \in Reachable :
            /\ commits[c].write \notin failed
            /\ \A d \in Reachable \ {c} : commits[c].write # commits[d].write

\* put returns ConcurrentUpdate only if every one of its attempts lost to the
\* write of another client: while one client starves, others succeed.
ConflictAfterBudget ==
    [][\A p \in Clients :
        /\ call[p].op = "put" /\ call[p].pc = "moveRef" /\ Conflict(call[p])
        /\ call[p].write \in failed' \ failed
        => Rivals(call[p]) > RetryBudget]_vars

\* No call works on a version older than the one published when it began, the
\* tip cache notwithstanding: a get sees every write that returned before it,
\* and a history, unless it stops at its limit, every commit that had set
\* its key by then, though others push the commits from page to page meanwhile.
ReadsAreFresh ==
    \A p \in Clients :
        LET me == call[p]
        IN  /\ me.start # NoCommit /\ me.base # NoCommit =>
                me.start \in Past(me.base)
            /\ me.op = "history" /\ me.pc = "readObjects"
               /\ Len(me.listed) < HistoryLimit =>
                \A c \in Past(me.start) :
                    Tree(c)[me.key] \notin {Absent, Tree(commits[c].parent)[me.key]}
                        => c \in ToSet(me.listed)
=============================================================================
