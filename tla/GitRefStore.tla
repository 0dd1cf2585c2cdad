---------------------------- MODULE GitRefStore ----------------------------
(***************************************************************************)
(* SubprocessGitRefStore (src/core/storage/git_ref_store.zig): processes   *)
(* share one repository and one ref.  Every operation is a chain of `git`  *)
(* children, and the repository is unlocked between two of them, so each   *)
(* child that reads or moves the ref is an action of its own.  What only   *)
(* adds content-addressed objects (hash-object, write-tree) or touches the *)
(* private index file is part of the action that uses it.                  *)
(***************************************************************************)
EXTENDS CommitGraph

CONSTANTS
    Procs,          \* processes that hold a store over the repository
    Writers,        \* those of them that put and delete
    Keys, Values,
    Absent,         \* "nothing": an empty path, no key, no value
    Worktree,       \* the file the user's working tree holds at each key
    Seeded,         \* TRUE: earlier runs have already created the ref
    RevParseMayFail,\* TRUE: a rev-parse child may die although the ref exists
    MaxCommits      \* bound on the commit objects ever created

ASSUME GitAssumption ==
    /\ Writers \subseteq Procs
    /\ Absent \notin Keys \cup Values
    /\ Worktree \in [Keys -> Values \cup {Absent}]
    /\ Seeded \in BOOLEAN /\ RevParseMayFail \in BOOLEAN
    /\ MaxCommits \in Nat \ {0}

VARIABLES
    ref,        \* the commit refs/sideshowdb/<section> points at
    commits,    \* the commit objects, numbered in the order of creation
    proc,       \* what each process is in the middle of
    seen,       \* the last version a process got from its own put or get
    acked,      \* the puts that returned: [version, key, val]
    rejected    \* the commits of writes that returned GitInvocationFailed

vars == <<ref, commits, proc, seen, acked, rejected>>

Trees == [Keys -> Values \cup {Absent}]

EmptyTree == [k \in Keys |-> Absent]

Commit == [parent : Nat, tree : Trees, op : {"put", "delete"}, key : Keys]

\* A process is idle or inside a call.  `pc` names the child it starts next,
\* `base` is the commit its tree was read from, `commit` the one it created.
Proc == [pc : {"idle", "keyExists", "commitTree", "updateRef", "return", "catFile"},
         op : {"put", "delete", "get", "none"}, key : Keys \cup {Absent},
         val : Values \cup {Absent}, base : Nat, commit : Nat]

Idle == [pc |-> "idle", op |-> "none", key |-> Absent, val |-> Absent,
         base |-> NoCommit, commit |-> NoCommit]

TypeOK ==
    /\ ref \in 0..Len(commits)
    /\ commits \in Seq(Commit) /\ Len(commits) <= MaxCommits
    /\ proc \in [Procs -> Proc]
    /\ \A p \in Procs : proc[p].base <= Len(commits) /\ proc[p].commit <= Len(commits)
    /\ seen \in [Procs -> 0..Len(commits)]
    /\ acked \subseteq [version : 1..Len(commits), key : Keys, val : Values]
    /\ rejected \subseteq 1..Len(commits)

-----------------------------------------------------------------------------
(* The commit graph *)

Tree(c) == IF c = NoCommit THEN EmptyTree ELSE commits[c].tree

Reachable == ReachableFrom(commits, ref)

-----------------------------------------------------------------------------
(* What one child returns *)

\* rev-parse --verify --quiet <ref>: any exit but 0 reads as "no such ref".
RevParse == {ref} \cup (IF RevParseMayFail THEN {NoCommit} ELSE {})

EditedTreeWithoutReadTree(b, op, k, val) ==      \* seeded fault: starts empty
    [EmptyTree EXCEPT ![k] = IF op = "put" THEN val ELSE Worktree[k]]

EditedTreeReadLast(b, op, k, val) == Tree(b)     \* seeded fault: read-tree last

\* read-tree, update-index, write-tree on a private index.  `update-index
\* --remove` deletes the entry only if the working tree has no such file, and
\* otherwise stores that file's contents.
EditedTree(b, op, k, val) ==
    [Tree(b) EXCEPT ![k] = IF op = "put" THEN val ELSE Worktree[k]]

\* `update-index --remove` refuses to add a file the index does not hold.
RemoveFails(b, k) == Tree(b)[k] = Absent /\ Worktree[k] # Absent

MayMoveBlindly(parent) == TRUE    \* seeded fault: never names the old value

\* update-ref <ref> <new> <old> compares; update-ref <ref> <new> does not.
MayMove(parent) == parent = NoCommit \/ ref = parent

\* git cat-file -p <version>:<key>, Absent where it exits with an error.
Read(k, version) == Tree(version)[k]

\* git ls-tree -r <ref>
ListKeys == {k \in Keys : Tree(ref)[k] # Absent}

TouchesByMessage(c, k) == commits[c].key = k     \* seeded fault

\* git log <ref> -- <key> walks the commits that changed the entry; those at
\* which a `get` finds nothing are then dropped.
Touches(c, k) == Read(k, c) # Tree(commits[c].parent)[k]

History(k) == {c \in Reachable : Touches(c, k) /\ Read(k, c) # Absent}

-----------------------------------------------------------------------------
(* The operations *)

Begin(p, pc, op, k, val, b) ==
    /\ proc[p] = Idle
    /\ proc' = [proc EXCEPT ![p] = [pc |-> pc, op |-> op, key |-> k, val |-> val,
                                    base |-> b, commit |-> NoCommit]]
    /\ UNCHANGED <<ref, commits, seen, acked, rejected>>

\* The call goes on with its arguments and starts the child `pc` next.
GoOn(me, pc, b, c) ==
    [pc |-> pc, op |-> me.op, key |-> me.key, val |-> me.val, base |-> b, commit |-> c]

\* put: hash the value, then read the tree the new one starts from.
Put(p, k, val) == \E b \in RevParse : Begin(p, "commitTree", "put", k, val, b)

\* delete: read the tree; without a ref the call returns at once.
Delete(p, k) ==
    \E b \in RevParse \ {NoCommit} : Begin(p, "keyExists", "delete", k, Absent, b)

KeyExistsUnchecked(p) ==                         \* seeded fault: no early return
    LET me == proc[p] IN
    /\ me.pc = "keyExists"
    /\ proc' = [proc EXCEPT ![p] = GoOn(me, "commitTree", me.base, NoCommit)]
    /\ UNCHANGED <<ref, commits, seen, acked, rejected>>

\* delete, second child: resolves the ref again to see whether the key is there.
KeyExists(p) ==
    LET me == proc[p] IN
    /\ me.pc = "keyExists"
    /\ proc' = [proc EXCEPT ![p] =
                    IF Tree(ref)[me.key] = Absent \/ RemoveFails(me.base, me.key)
                    THEN Idle
                    ELSE GoOn(me, "commitTree", me.base, NoCommit)]
    /\ UNCHANGED <<ref, commits, seen, acked, rejected>>

\* commitAndUpdate resolves the ref once more, for the parent, and commits.
CommitTree(p) ==
    LET me == proc[p] IN
    /\ me.pc = "commitTree"
    /\ Len(commits) < MaxCommits
    /\ \E parent \in RevParse :
        commits' = Append(commits,
            [parent |-> parent, tree |-> EditedTree(me.base, me.op, me.key, me.val),
             op |-> me.op, key |-> me.key])
    /\ proc' = [proc EXCEPT ![p] =
                    GoOn(me, "updateRef", NoCommit, Len(commits) + 1)]
    /\ UNCHANGED <<ref, seen, acked, rejected>>

\* update-ref moves the ref, or loses the comparison and the call fails.
UpdateRef(p) ==
    LET me == proc[p] IN
    /\ me.pc = "updateRef"
    /\ IF MayMove(commits[me.commit].parent)
       THEN /\ ref' = me.commit
            /\ proc' = [proc EXCEPT ![p] = GoOn(me, "return", NoCommit, me.commit)]
            /\ UNCHANGED rejected
       ELSE /\ rejected' = rejected \cup {me.commit}
            /\ proc' = [proc EXCEPT ![p] = Idle]
            /\ UNCHANGED ref
    /\ UNCHANGED <<commits, seen, acked>>

ReturnVersionAlways(p) ==                        \* seeded fault: delete answers too
    LET me == proc[p] IN
    /\ me.pc = "return"
    /\ proc' = [proc EXCEPT ![p] = Idle]
    /\ seen' = [seen EXCEPT ![p] = me.commit]
    /\ acked' = acked \cup {[version |-> me.commit, key |-> me.key, val |-> me.val]}
    /\ UNCHANGED <<ref, commits, rejected>>

\* A put hands its version to the caller; a delete returns nothing.
Return(p) ==
    LET me == proc[p] IN
    /\ me.pc = "return"
    /\ proc' = [proc EXCEPT ![p] = Idle]
    /\ IF me.op = "put"
       THEN /\ seen' = [seen EXCEPT ![p] = me.commit]
            /\ acked' = acked \cup {[version |-> me.commit, key |-> me.key, val |-> me.val]}
       ELSE UNCHANGED <<seen, acked>>
    /\ UNCHANGED <<ref, commits, rejected>>

\* get without a version: resolve the ref, then read that commit.
Get(p, k) ==
    \E b \in RevParse \ {NoCommit} : Begin(p, "catFile", "get", k, Absent, b)

CatFile(p) ==
    LET me == proc[p] IN
    /\ me.pc = "catFile"
    /\ proc' = [proc EXCEPT ![p] = Idle]
    /\ seen' = [seen EXCEPT ![p] = IF Read(me.key, me.base) = Absent THEN @ ELSE me.base]
    /\ UNCHANGED <<ref, commits, acked, rejected>>

GitFailsLate(p) ==                               \* seeded fault: error after the move
    LET me == proc[p] IN
    /\ me.pc \in {"updateRef", "return"}
    /\ proc' = [proc EXCEPT ![p] = Idle]
    /\ rejected' = rejected \cup {me.commit}
    /\ UNCHANGED <<ref, commits, seen, acked>>

\* A child exits with an error before the ref has moved: a write returns
\* GitInvocationFailed, a get returns null.
GitFails(p) ==
    LET me == proc[p] IN
    /\ me.pc \in {"keyExists", "commitTree", "updateRef", "catFile"}
    /\ proc' = [proc EXCEPT ![p] = Idle]
    /\ rejected' = rejected \cup (IF me.pc = "updateRef" THEN {me.commit} ELSE {})
    /\ UNCHANGED <<ref, commits, seen, acked>>

\* The process dies, or runs out of memory: its caller learns nothing of what
\* was done, and the objects it wrote stay behind.
Crash(p) ==
    /\ proc[p] # Idle
    /\ proc' = [proc EXCEPT ![p] = Idle]
    /\ UNCHANGED <<ref, commits, seen, acked, rejected>>

-----------------------------------------------------------------------------

Init ==
    /\ IF Seeded
       THEN \E k \in Keys, val \in Values :
                /\ commits = <<[parent |-> NoCommit, op |-> "put", key |-> k,
                                tree |-> [EmptyTree EXCEPT ![k] = val]]>>
                /\ ref = 1
       ELSE commits = <<>> /\ ref = NoCommit
    /\ proc = [p \in Procs |-> Idle]
    /\ seen = [p \in Procs |-> NoCommit]
    /\ acked = {} /\ rejected = {}

Write(p) ==
    \/ \E k \in Keys : Delete(p, k) \/ \E val \in Values : Put(p, k, val)
    \/ KeyExists(p) \/ CommitTree(p) \/ UpdateRef(p) \/ Return(p)

Next ==
    \/ \E p \in Writers : Write(p)
    \/ \E p \in Procs : (\E k \in Keys : Get(p, k)) \/ CatFile(p) \/ GitFails(p) \/ Crash(p)

Spec == Init /\ [][Next]_vars

-----------------------------------------------------------------------------
(* Properties *)

\* What a put returned is never lost: its version stays in the history of the
\* ref, and reading the key at that version gives the value that was put.
AckedPutDurable ==
    \A a \in acked : a.version \in Reachable /\ Read(a.key, a.version) = a.val

\* A write that returned an error has no effect: no later write builds on it.
RejectedNeverPublished == rejected \cap Reachable = {}

\* A process that has put or got a version never gets a version that does not
\* descend from it, whatever the other processes do in between.
SessionsNeverGoBack ==
    [][\A p \in Procs :
        LET before == seen[p] IN
        seen'[p] # before => before = NoCommit \/ before \in Ancestors(commits, seen[p])']_vars

\* For a key the store lists, `history` is not empty, and its newest version
\* holds what an unpinned `get` returns.
HistoryAgreesWithGet ==
    \A k \in ListKeys :
        \E c \in History(k) :
            /\ \A d \in History(k) : d <= c
            /\ Read(k, c) = Read(k, ref)

\* What each published version holds, as `get` with that version reads it.
Snapshots == [c \in Reachable |-> commits[c].tree]

\* Racing writers implement the contract in its weak form: each successful
\* write publishes one new version, which is some published version with one
\* key edited; no version disappears or changes.
WeakContract ==
    INSTANCE RefStore WITH
        Serial <- FALSE, Versions <- 1..MaxCommits, latest <- Tree(ref),
        snapshots <- Snapshots

ImplementsWeakContract == WeakContract!Spec

\* With one writer, crashes and failing children included, every write edits
\* the latest map: the contract of ref_store.zig.
Contract ==
    INSTANCE RefStore WITH
        Serial <- TRUE, Versions <- 1..MaxCommits, latest <- Tree(ref),
        snapshots <- Snapshots

ImplementsContract == Contract!Spec

\* What git-ref-storage-spec.md 4.5 says of concurrent writers: the loser is
\* rejected, so a commit changes no key but the one it writes.
CommitChangesOnlyItsKey ==
    \A c \in Reachable : \A k \in Keys \ {commits[c].key} : ~Touches(c, k)

-----------------------------------------------------------------------------
(* The inductive invariants behind the theorems of GitRefStoreProofs *)

\* The arguments of a call stay with it, and so does the commit it created.
CallsOK ==
    \A p \in Procs :
        LET me == proc[p] IN
        /\ me.pc # "idle" => me.key \in Keys
        /\ me.op = "put" => me.val \in Values
        /\ me.pc \in {"keyExists", "commitTree", "updateRef", "return"} =>
                me.op \in {"put", "delete"}
        /\ me.pc \in {"updateRef", "return"} => me.commit \in 1..Len(commits)

TypeInv == TypeOK /\ CallsOK /\ GraphOK(commits)

\* A commit that waits for its update-ref belongs to one process, has a parent
\* for git to compare with, and is neither published nor given up.
PendingOK ==
    \A p \in Procs : proc[p].pc = "updateRef" =>
        /\ proc[p].commit \notin Reachable \cup rejected
        /\ commits[proc[p].commit].parent # NoCommit
        /\ \A q \in Procs \ {p} :
            proc[q].pc = "updateRef" => proc[q].commit # proc[p].commit

PublishedOK ==
    \A p \in Procs :
        /\ proc[p].pc = "return" => proc[p].commit \in Reachable
        /\ proc[p].pc = "catFile" => proc[p].base \in Reachable

\* The commit of a put holds the value put.
ValuesOK ==
    \A p \in Procs : proc[p].pc \in {"updateRef", "return"} /\ proc[p].op = "put" =>
        Read(proc[p].key, proc[p].commit) = proc[p].val

\* What a process is about to see descends from what it has seen.
SessionsOK ==
    \A p \in Procs : seen[p] # NoCommit =>
        /\ seen[p] \in Reachable
        /\ proc[p].pc = "catFile" => seen[p] \in Ancestors(commits, proc[p].base)
        /\ proc[p].pc \in {"updateRef", "return"} =>
            seen[p] \in Ancestors(commits, proc[p].commit)

SafetyInv ==
    /\ ref # NoCommit
    /\ PendingOK /\ PublishedOK /\ ValuesOK /\ SessionsOK
    /\ AckedPutDurable /\ RejectedNeverPublished

\* Every tree a writer reads was published, and so is the tree its new commit
\* is an edit of.
BasesOK ==
    \A p \in Procs :
        LET me == proc[p] IN
        /\ me.pc \in {"keyExists", "commitTree"} => me.base \in Reachable
        /\ me.pc = "updateRef" =>
            \E b \in Reachable :
                commits[me.commit].tree = EditedTree(b, me.op, me.key, me.val)

\* A lone writer: the ref stands still from the first child of its call to the
\* last, so its commit is an edit of the tip and a delete removes a live key.
LoneCallsOK ==
    \A p \in Procs :
        LET me == proc[p] IN
        /\ p \notin Writers => me.pc \in {"idle", "catFile"}
        /\ me.pc \in {"keyExists", "commitTree"} => me.base = ref
        /\ me.pc \in {"commitTree", "updateRef"} /\ me.op = "delete" =>
                Tree(ref)[me.key] # Absent
        /\ me.pc = "updateRef" =>
            /\ me.commit \notin Reachable
            /\ commits[me.commit].parent = ref
            /\ commits[me.commit].tree = EditedTree(ref, me.op, me.key, me.val)
        /\ me.pc = "return" => me.commit \in Reachable

LoneWriterInv == LoneCallsOK /\ ValuesOK /\ AckedPutDurable

=============================================================================
