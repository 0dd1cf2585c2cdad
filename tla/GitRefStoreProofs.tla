------------------------- MODULE GitRefStoreProofs -------------------------
(***************************************************************************)
(* Theorems about GitRefStore, for every set of processes, keys and values *)
(* and every bound on the number of commits.                               *)
(***************************************************************************)
EXTENDS GitRefStore, WellFoundedInduction, TLAPS

-----------------------------------------------------------------------------
(* The commit graph: facts that hold for every sequence of commits *)

\* A commit is in its own log.
LEMMA AncestorsSelf ==
    ASSUME NEW g, NEW c \in DOMAIN g
    PROVE  c \in Ancestors(g, c)
BY DEF Ancestors

\* The log of a log entry is part of the log.
LEMMA AncestorsTransitive ==
    ASSUME NEW g, NEW c, NEW b \in Ancestors(g, c), NEW a \in Ancestors(g, b)
    PROVE  a \in Ancestors(g, c)
BY DEF Ancestors

\* The log of a commit is the commit and the log of its parent.
LEMMA AncestorsOfChild ==
    ASSUME NEW g, NEW c \in DOMAIN g, g[c].parent \in DOMAIN g, g[c].parent # NoCommit
    PROVE  Ancestors(g, c) = {c} \cup Ancestors(g, g[c].parent)
<1> DEFINE q == g[c].parent
<1>1. ASSUME NEW a \in Ancestors(g, q)
      PROVE  a \in Ancestors(g, c)
  BY <1>1 DEF Ancestors, ParentClosed
<1>2. ASSUME NEW a \in Ancestors(g, c), a # c
      PROVE  a \in Ancestors(g, q)
  <2> SUFFICES ASSUME NEW S \in SUBSET DOMAIN g, q \in S, ParentClosed(g, S)
               PROVE  a \in S
    BY <1>2 DEF Ancestors
  <2>1. S \cup {c} \in SUBSET DOMAIN g
    OBVIOUS
  <2>2. ParentClosed(g, S \cup {c})
    BY DEF ParentClosed
  <2>3. a \in S \cup {c}
    BY <1>2, <2>1, <2>2 DEF Ancestors
  <2> QED
    BY <1>2, <2>3
<1> QED
  BY <1>1, <1>2, AncestorsSelf

\* A new object changes the log of no commit that was there before.
LEMMA AncestorsStable ==
    ASSUME NEW X, NEW g \in Seq(X), NEW x \in X, GraphOK(g),
           NEW c \in DOMAIN g
    PROVE  Ancestors(Append(g, x), c) = Ancestors(g, c)
<1> DEFINE h == Append(g, x)
<1>1. DOMAIN g = 1..Len(g) /\ DOMAIN h = 1..(Len(g) + 1) /\ Len(g) \in Nat
  OBVIOUS
<1>2. \A i \in DOMAIN g : h[i] = g[i]
  OBVIOUS
<1>3. \A i \in DOMAIN g : g[i].parent # NoCommit => g[i].parent \in DOMAIN g
  BY <1>1 DEF GraphOK, NoCommit
<1> HIDE DEF h
<1>4. ASSUME NEW a \in Ancestors(h, c)
      PROVE  a \in Ancestors(g, c)
  <2>1. DOMAIN g \in SUBSET DOMAIN h
    BY <1>1
  <2>2. ParentClosed(h, DOMAIN g)
    BY <1>2, <1>3 DEF ParentClosed
  <2>3. a \in DOMAIN g
    BY <1>4, <2>1, <2>2 DEF Ancestors
  <2>4. ASSUME NEW S \in SUBSET DOMAIN g, c \in S, ParentClosed(g, S)
        PROVE  a \in S
    <3>1. ParentClosed(h, S)
      BY <2>4, <1>2 DEF ParentClosed
    <3>2. S \in SUBSET DOMAIN h
      BY <2>1
    <3> QED
      BY <3>1, <3>2, <1>4, <2>4 DEF Ancestors
  <2> QED
    BY <2>3, <2>4 DEF Ancestors
<1>5. ASSUME NEW a \in Ancestors(g, c)
      PROVE  a \in Ancestors(h, c)
  <2>1. a \in DOMAIN h
    BY <1>5, <1>1 DEF Ancestors
  <2>2. ASSUME NEW S \in SUBSET DOMAIN h, c \in S, ParentClosed(h, S)
        PROVE  a \in S
    <3>1. ParentClosed(g, S \cap DOMAIN g)
      BY <2>2, <1>2, <1>3 DEF ParentClosed
    <3> QED
      BY <3>1, <1>5, <2>2 DEF Ancestors
  <2> QED
    BY <2>1, <2>2 DEF Ancestors
<1> QED
  BY <1>4, <1>5 DEF h

-----------------------------------------------------------------------------
(* Types *)

LEMMA TreeType ==
    ASSUME TypeOK, NEW b \in 0..Len(commits)
    PROVE  Tree(b) \in Trees
<1>1. CASE b = NoCommit
  BY <1>1 DEF Tree, Trees, EmptyTree
<1>2. CASE b # NoCommit
  <2>1. commits[b] \in Commit
    BY <1>2 DEF TypeOK, NoCommit
  <2> QED
    BY <1>2, <2>1 DEF Tree, Commit
<1> QED
  BY <1>1, <1>2

LEMMA EditedTreeType ==
    ASSUME TypeOK, NEW b \in 0..Len(commits), NEW op, NEW k \in Keys,
           NEW val \in Values \cup {Absent}
    PROVE  EditedTree(b, op, k, val) \in Trees
BY GitAssumption, TreeType DEF EditedTree, Trees

LEMMA TypeInit == Init => TypeInv
<1> SUFFICES ASSUME Init PROVE TypeInv
  OBVIOUS
<1>1. proc \in [Procs -> Proc] /\ \A p \in Procs : proc[p] = Idle
  BY DEF Init, Idle, Proc, NoCommit
<1>2. CASE ~Seeded
  BY <1>1, <1>2, GitAssumption
     DEF Init, TypeInv, TypeOK, CallsOK, GraphOK, Idle, NoCommit
<1>3. CASE Seeded
  <2>1. PICK k \in Keys, val \in Values :
          /\ commits = <<[parent |-> NoCommit, op |-> "put", key |-> k,
                          tree |-> [EmptyTree EXCEPT ![k] = val]]>>
          /\ ref = 1
    BY <1>3 DEF Init
  <2>2. [parent |-> NoCommit, op |-> "put", key |-> k,
         tree |-> [EmptyTree EXCEPT ![k] = val]] \in Commit
    BY DEF Commit, Trees, EmptyTree, NoCommit
  <2>3. commits \in Seq(Commit) /\ Len(commits) = 1 /\ commits[1].parent = NoCommit
    BY <2>1, <2>2
  <2> QED
    BY <1>1, <2>1, <2>3, GitAssumption
       DEF Init, TypeInv, TypeOK, CallsOK, GraphOK, Idle, NoCommit
<1> QED
  BY <1>2, <1>3

\* Beginning a call, with arguments of the right types.
LEMMA TypeBegin ==
    ASSUME TypeInv, NEW p \in Procs, NEW k \in Keys, NEW b \in RevParse,
           NEW pc \in {"keyExists", "commitTree", "catFile"},
           NEW op \in {"put", "delete", "get"}, NEW val \in Values \cup {Absent},
           op = "put" => val \in Values, pc # "catFile" => op # "get",
           Begin(p, pc, op, k, val, b)
    PROVE  TypeInv'
<1>1. b \in 0..Len(commits)
  BY DEF TypeInv, TypeOK, RevParse, NoCommit
<1>2. proc' = [proc EXCEPT ![p] = [pc |-> pc, op |-> op, key |-> k, val |-> val,
                                   base |-> b, commit |-> NoCommit]]
  BY DEF Begin
<1>3. [pc |-> pc, op |-> op, key |-> k, val |-> val, base |-> b,
       commit |-> NoCommit] \in Proc
  BY <1>1 DEF Proc, NoCommit, TypeInv, TypeOK
<1> QED
  BY <1>1, <1>2, <1>3 DEF Begin, TypeInv, TypeOK, CallsOK, GraphOK, NoCommit

\* Leaving a call changes nothing else of what TypeInv speaks of.
LEMMA TypeIdle ==
    ASSUME TypeInv, NEW p \in Procs, proc' = [proc EXCEPT ![p] = Idle],
           UNCHANGED commits, ref' \in 0..Len(commits),
           seen' \in [Procs -> 0..Len(commits)],
           acked' \subseteq [version : 1..Len(commits), key : Keys, val : Values],
           rejected' \subseteq 1..Len(commits)
    PROVE  TypeInv'
<1>1. Idle \in Proc /\ Idle.base = NoCommit /\ Idle.commit = NoCommit
        /\ Idle.pc = "idle" /\ Idle.op = "none"
  BY DEF Idle, Proc, NoCommit
<1>2. proc' \in [Procs -> Proc] /\ proc'[p] = Idle
        /\ \A q \in Procs \ {p} : proc'[q] = proc[q]
  BY <1>1 DEF TypeInv, TypeOK
<1>3. TypeOK'
  BY <1>1, <1>2 DEF TypeInv, TypeOK, NoCommit
<1>4. CallsOK'
  BY <1>1, <1>2 DEF TypeInv, CallsOK
<1> QED
  BY <1>3, <1>4 DEF TypeInv, GraphOK

LEMMA TypeCommitTree ==
    ASSUME TypeInv, NEW p \in Procs, CommitTree(p)
    PROVE  TypeInv'
<1> DEFINE me == proc[p]
<1>1. PICK parent \in RevParse :
        commits' = Append(commits,
            [parent |-> parent, tree |-> EditedTree(me.base, me.op, me.key, me.val),
             op |-> me.op, key |-> me.key])
  BY DEF CommitTree
<1> DEFINE new == [parent |-> parent, tree |-> EditedTree(me.base, me.op, me.key, me.val),
                   op |-> me.op, key |-> me.key]
<1>2. me \in Proc /\ me.base \in 0..Len(commits) /\ me.key \in Keys
        /\ me.op \in {"put", "delete"} /\ Len(commits) \in Nat
  BY DEF CommitTree, TypeInv, TypeOK, CallsOK, Proc
<1>3. parent \in 0..Len(commits)
  BY DEF RevParse, TypeInv, TypeOK, NoCommit
<1>4. new \in Commit
  BY <1>2, <1>3, EditedTreeType DEF Commit, TypeInv, Proc
<1>5. /\ commits' \in Seq(Commit) /\ Len(commits') = Len(commits) + 1
      /\ \A c \in 1..Len(commits) : commits'[c] = commits[c]
      /\ commits'[Len(commits) + 1] = new
  BY <1>1, <1>4 DEF TypeInv, TypeOK
<1>6. GraphOK(commits')
  <2> SUFFICES ASSUME NEW c \in DOMAIN commits'
               PROVE  commits'[c].parent = NoCommit \/ commits'[c].parent \in 1..(c - 1)
    BY DEF GraphOK
  <2>1. CASE c \in 1..Len(commits)
    <3>1. c \in DOMAIN commits /\ commits'[c] = commits[c]
      BY <2>1, <1>5 DEF TypeInv, TypeOK
    <3> QED
      BY <3>1 DEF TypeInv, GraphOK
  <2>2. CASE c = Len(commits) + 1
    BY <2>2, <1>2, <1>3, <1>5 DEF NoCommit
  <2> QED
    BY <2>1, <2>2, <1>2, <1>5
<1>7. proc' = [proc EXCEPT ![p] = [pc |-> "updateRef", op |-> me.op, key |-> me.key,
                       val |-> me.val, base |-> NoCommit, commit |-> Len(commits) + 1]]
  BY DEF CommitTree, GoOn
<1>8. proc' \in [Procs -> Proc]
  BY <1>2, <1>7 DEF Proc, TypeInv, TypeOK, NoCommit
<1>9. \A q \in Procs : proc'[q].base <= Len(commits') /\ proc'[q].commit <= Len(commits')
  BY <1>2, <1>5, <1>7 DEF TypeInv, TypeOK, Proc, NoCommit
<1>10. CallsOK'
  BY <1>2, <1>5, <1>7 DEF TypeInv, TypeOK, CallsOK, Proc, CommitTree
<1> HIDE DEF new
<1>11. ref' \in 0..Len(commits') /\ seen' \in [Procs -> 0..Len(commits')]
        /\ rejected' \subseteq 1..Len(commits') /\ Len(commits') <= MaxCommits
        /\ acked' \subseteq [version : 1..Len(commits'), key : Keys, val : Values]
  BY <1>2, <1>5, GitAssumption DEF CommitTree, TypeInv, TypeOK
<1> QED
  BY <1>5, <1>6, <1>8, <1>9, <1>10, <1>11 DEF TypeInv, TypeOK

LEMMA TypeUpdateRef ==
    ASSUME TypeInv, NEW p \in Procs, UpdateRef(p)
    PROVE  TypeInv'
<1> DEFINE me == proc[p]
<1>1. me \in Proc /\ me.pc = "updateRef" /\ me.commit \in 1..Len(commits)
        /\ me.key \in Keys /\ me.op \in {"put", "delete"} /\ Len(commits) \in Nat
  BY DEF UpdateRef, TypeInv, TypeOK, CallsOK
<1>2. CASE MayMove(commits[me.commit].parent)
  <2>1. proc' = [proc EXCEPT ![p] = [pc |-> "return", op |-> me.op, key |-> me.key,
                     val |-> me.val, base |-> NoCommit, commit |-> me.commit]]
    BY <1>2 DEF UpdateRef, GoOn
  <2>2. proc' \in [Procs -> Proc]
    BY <1>1, <2>1 DEF Proc, TypeInv, TypeOK, NoCommit
  <2>3. \A q \in Procs : proc'[q].base <= Len(commits) /\ proc'[q].commit <= Len(commits)
    BY <1>1, <2>1 DEF TypeInv, TypeOK, NoCommit
  <2>4. ref' = me.commit /\ UNCHANGED <<commits, seen, acked, rejected>>
    BY <1>2 DEF UpdateRef
  <2>5. TypeOK'
    BY <1>1, <2>2, <2>3, <2>4 DEF TypeInv, TypeOK
  <2>6. CallsOK'
    BY <1>1, <2>1, <2>4 DEF TypeInv, TypeOK, CallsOK
  <2> QED
    BY <2>4, <2>5, <2>6 DEF TypeInv, GraphOK
<1>3. CASE ~MayMove(commits[me.commit].parent)
  BY <1>1, <1>3, TypeIdle DEF UpdateRef, TypeInv, TypeOK
<1> QED
  BY <1>2, <1>3

LEMMA TypeKeyExists ==
    ASSUME TypeInv, NEW p \in Procs, KeyExists(p)
    PROVE  TypeInv'
<1> DEFINE me == proc[p]
<1>1. UNCHANGED <<ref, commits, seen, acked, rejected>> /\ me \in Proc
        /\ me.pc = "keyExists" /\ me.key \in Keys
  BY DEF KeyExists, TypeInv, TypeOK, CallsOK
<1>2. CASE proc' = [proc EXCEPT ![p] = Idle]
  BY <1>1, <1>2, TypeIdle DEF TypeInv, TypeOK
<1>3. CASE proc' = [proc EXCEPT ![p] = GoOn(me, "commitTree", me.base, NoCommit)]
  <2>1. proc' = [proc EXCEPT ![p] = [pc |-> "commitTree", op |-> me.op, key |-> me.key,
                     val |-> me.val, base |-> me.base, commit |-> NoCommit]]
    BY <1>3 DEF GoOn
  <2>2. proc' \in [Procs -> Proc]
    BY <1>1, <2>1 DEF Proc, TypeInv, TypeOK, NoCommit
  <2>3. \A q \in Procs : proc'[q].base <= Len(commits) /\ proc'[q].commit <= Len(commits)
    BY <1>1, <2>1 DEF TypeInv, TypeOK, NoCommit
  <2>4. CallsOK'
    BY <1>1, <2>1 DEF TypeInv, TypeOK, CallsOK
  <2> QED
    BY <1>1, <2>2, <2>3, <2>4 DEF TypeInv, TypeOK, GraphOK
<1> QED
  BY <1>2, <1>3 DEF KeyExists

\* Every step keeps the types.
LEMMA TypeStep == TypeInv /\ [Next]_vars => TypeInv'
<1> SUFFICES ASSUME TypeInv, [Next]_vars PROVE TypeInv'
  OBVIOUS
<1>1. ASSUME NEW p \in Writers, NEW k \in Keys, Delete(p, k)
      PROVE  TypeInv'
  BY <1>1, GitAssumption, TypeBegin DEF Delete
<1>2. ASSUME NEW p \in Writers, NEW k \in Keys, NEW val \in Values, Put(p, k, val)
      PROVE  TypeInv'
  BY <1>2, GitAssumption, TypeBegin DEF Put
<1>3. ASSUME NEW p \in Writers, KeyExists(p)
      PROVE  TypeInv'
  BY <1>3, GitAssumption, TypeKeyExists
<1>4. ASSUME NEW p \in Writers, CommitTree(p)
      PROVE  TypeInv'
  BY <1>4, GitAssumption, TypeCommitTree
<1>5. ASSUME NEW p \in Writers, UpdateRef(p)
      PROVE  TypeInv'
  BY <1>5, GitAssumption, TypeUpdateRef
<1>6. ASSUME NEW p \in Writers, Return(p)
      PROVE  TypeInv'
  <2>1. p \in Procs /\ proc[p].commit \in 1..Len(commits) /\ proc[p].key \in Keys
          /\ (proc[p].op = "put" => proc[p].val \in Values)
    BY <1>6, GitAssumption DEF Return, TypeInv, CallsOK
  <2>2. seen' \in [Procs -> 0..Len(commits)]
    BY <1>6, <2>1 DEF Return, TypeInv, TypeOK
  <2>3. acked' \subseteq [version : 1..Len(commits), key : Keys, val : Values]
    BY <1>6, <2>1 DEF Return, TypeInv, TypeOK
  <2> QED
    BY <1>6, <2>1, <2>2, <2>3, TypeIdle DEF Return, TypeInv, TypeOK
<1>7. ASSUME NEW p \in Procs, NEW k \in Keys, Get(p, k)
      PROVE  TypeInv'
  BY <1>7, TypeBegin DEF Get
<1>8. ASSUME NEW p \in Procs, CatFile(p)
      PROVE  TypeInv'
  <2>1. proc[p].base \in 0..Len(commits)
    BY DEF TypeInv, TypeOK, Proc
  <2>2. seen' \in [Procs -> 0..Len(commits)]
    BY <1>8, <2>1 DEF CatFile, TypeInv, TypeOK
  <2> QED
    BY <1>8, <2>2, TypeIdle DEF CatFile, TypeInv, TypeOK
<1>9. ASSUME NEW p \in Procs, GitFails(p)
      PROVE  TypeInv'
  <2>1. proc[p].pc = "updateRef" => proc[p].commit \in 1..Len(commits)
    BY DEF TypeInv, CallsOK
  <2> QED
    BY <1>9, <2>1, TypeIdle DEF GitFails, TypeInv, TypeOK
<1>10. ASSUME NEW p \in Procs, Crash(p)
       PROVE  TypeInv'
  BY <1>10, TypeIdle DEF Crash, TypeInv, TypeOK
<1>11. CASE UNCHANGED vars
  BY <1>11 DEF vars, TypeInv, TypeOK, CallsOK, GraphOK
<1> QED
  BY <1>1, <1>2, <1>3, <1>4, <1>5, <1>6, <1>7, <1>8, <1>9, <1>10, <1>11 DEF Next, Write

\* Type correctness, whatever the constants: fault injection and an empty
\* repository included.
THEOREM TypeCorrect == Spec => []TypeOK
<1>1. Spec => []TypeInv
  BY TypeInit, TypeStep, PTL DEF Spec
<1>2. TypeInv => TypeOK
  BY DEF TypeInv
<1> QED
  BY <1>1, <1>2, PTL

-----------------------------------------------------------------------------
(* Safety, once the ref exists and rev-parse answers *)

LEMMA SafetyInit ==
    ASSUME Seeded, Init
    PROVE  SafetyInv
<1>1. ref = 1 /\ commits # <<>> /\ acked = {} /\ rejected = {}
        /\ \A p \in Procs : proc[p] = Idle /\ seen[p] = NoCommit
  BY DEF Init
<1> QED
  BY <1>1 DEF SafetyInv, PendingOK, PublishedOK, ValuesOK, SessionsOK, Idle, NoCommit,
              AckedPutDurable, RejectedNeverPublished

LEMMA ReachableIsCreated ==
    ASSUME TypeInv
    PROVE  /\ Reachable \subseteq DOMAIN commits
           /\ DOMAIN commits = 1..Len(commits)
           /\ Len(commits) \in Nat
           /\ ref # NoCommit => ref \in DOMAIN commits
BY DEF TypeInv, TypeOK, Reachable, ReachableFrom, Ancestors, NoCommit

\* A step that moves no ref and creates no commit: the process forgets a
\* pending commit or not, and may begin to read the tip.
LEMMA SafetyLocal ==
    ASSUME TypeInv, SafetyInv, NEW p \in Procs, NEW x \in Proc,
           proc' = [proc EXCEPT ![p] = x], ref' = ref, commits' = commits,
           x.pc \notin {"updateRef", "return"}, x.pc = "catFile" => x.base = ref,
           NEW s \in {seen[p]} \cup Reachable, seen' = [seen EXCEPT ![p] = s],
           x.pc = "catFile" => s = seen[p],
           AckedPutDurable',
           rejected' \subseteq rejected \cup
               (IF proc[p].pc = "updateRef" THEN {proc[p].commit} ELSE {})
    PROVE  SafetyInv'
<1>1. Reachable' = Reachable
  BY DEF Reachable
<1>2. /\ proc'[p] = x /\ seen'[p] = s
      /\ \A q \in Procs \ {p} : proc'[q] = proc[q] /\ seen'[q] = seen[q]
  BY DEF TypeInv, TypeOK
<1>3. ref \in Reachable /\ Reachable = Ancestors(commits, ref)
  BY ReachableIsCreated, AncestorsSelf DEF SafetyInv, Reachable, ReachableFrom
<1>4. PendingOK'
  BY <1>1, <1>2 DEF SafetyInv, PendingOK
<1>5. PublishedOK'
  BY <1>1, <1>2, <1>3 DEF SafetyInv, PublishedOK
<1>6. ValuesOK'
  BY <1>2 DEF SafetyInv, ValuesOK, Read, Tree
<1>7. SessionsOK'
  BY <1>1, <1>2, <1>3 DEF SafetyInv, SessionsOK
<1>8. RejectedNeverPublished'
  BY <1>1 DEF SafetyInv, PendingOK, RejectedNeverPublished
<1> QED
  BY <1>4, <1>5, <1>6, <1>7, <1>8 DEF SafetyInv

\* Leaving a call without moving the ref.
LEMMA SafetyLeaves ==
    ASSUME TypeInv, SafetyInv, NEW p \in Procs, proc' = [proc EXCEPT ![p] = Idle],
           UNCHANGED <<ref, commits, seen, acked>>,
           rejected' \subseteq rejected \cup
               (IF proc[p].pc = "updateRef" THEN {proc[p].commit} ELSE {})
    PROVE  SafetyInv'
<1>1. Idle \in Proc /\ Idle.pc = "idle"
  BY DEF Idle, Proc, NoCommit
<1>2. seen' = [seen EXCEPT ![p] = seen[p]] /\ ref' = ref /\ commits' = commits
  BY DEF TypeInv, TypeOK
<1>3. AckedPutDurable'
  BY DEF SafetyInv, AckedPutDurable, Reachable, Read, Tree
<1> QED
  BY <1>1, <1>2, <1>3, SafetyLocal

\* Beginning a call.  A get begins with the tip it is going to read.
LEMMA SafetyBegin ==
    ASSUME TypeInv, SafetyInv, ~RevParseMayFail,
           NEW p \in Procs, NEW k \in Keys, NEW b \in RevParse,
           NEW pc \in {"keyExists", "commitTree", "catFile"},
           NEW op \in {"put", "delete", "get"}, NEW val \in Values \cup {Absent},
           Begin(p, pc, op, k, val, b)
    PROVE  SafetyInv'
<1> DEFINE x == [pc |-> pc, op |-> op, key |-> k, val |-> val, base |-> b,
                 commit |-> NoCommit]
<1>1. b = ref /\ b \in Nat
  BY DEF RevParse, TypeInv, TypeOK
<1>2. x \in Proc /\ x.pc = pc /\ x.base = ref
  BY <1>1 DEF Proc, NoCommit
<1>3. /\ proc' = [proc EXCEPT ![p] = x] /\ ref' = ref /\ commits' = commits
      /\ seen' = [seen EXCEPT ![p] = seen[p]] /\ acked' = acked /\ rejected' = rejected
  BY DEF Begin, TypeInv, TypeOK
<1>4. AckedPutDurable'
  BY <1>3 DEF SafetyInv, AckedPutDurable, Reachable, Read, Tree
<1> HIDE DEF x
<1> QED
  BY <1>2, <1>3, <1>4, SafetyLocal

\* A new commit is published to nobody until its update-ref.
LEMMA SafetyCommitTree ==
    ASSUME TypeInv, SafetyInv, ~RevParseMayFail, NEW p \in Procs, CommitTree(p)
    PROVE  SafetyInv'
<1> DEFINE me == proc[p]
           c  == Len(commits) + 1
           new == [parent |-> ref, tree |-> EditedTree(me.base, me.op, me.key, me.val),
                   op |-> me.op, key |-> me.key]
<1>1. commits' = Append(commits, new)
  BY DEF CommitTree, RevParse
<1>2. /\ me \in Proc /\ me.base \in 0..Len(commits) /\ me.key \in Keys
      /\ me.op \in {"put", "delete"} /\ Len(commits) \in Nat
      /\ ref \in DOMAIN commits /\ ref # NoCommit
  BY ReachableIsCreated DEF CommitTree, TypeInv, TypeOK, CallsOK, Proc, SafetyInv
<1>3. EditedTree(me.base, me.op, me.key, me.val) \in Trees
  BY <1>2, EditedTreeType DEF TypeInv, Proc
<1>4. new \in Commit
  BY <1>2, <1>3 DEF Commit, TypeInv, TypeOK
<1>5. /\ DOMAIN commits = 1..Len(commits) /\ DOMAIN commits' = 1..c
      /\ \A d \in DOMAIN commits : commits'[d] = commits[d]
      /\ commits'[c] = new
  BY <1>1, <1>4 DEF TypeInv, TypeOK
<1>6. \A d \in DOMAIN commits : Ancestors(commits', d) = Ancestors(commits, d)
  BY <1>1, <1>4, AncestorsStable DEF TypeInv, TypeOK
<1>7. Reachable' = Reachable /\ Reachable = Ancestors(commits, ref)
  BY <1>2, <1>6 DEF CommitTree, Reachable, ReachableFrom
<1>8. Ancestors(commits', c) = {c} \cup Reachable
  BY <1>2, <1>5, <1>6, <1>7, AncestorsOfChild
<1>9. /\ proc'[p] = [pc |-> "updateRef", op |-> me.op, key |-> me.key, val |-> me.val,
                     base |-> NoCommit, commit |-> c]
      /\ \A q \in Procs \ {p} : proc'[q] = proc[q]
      /\ ref' = ref /\ seen' = seen /\ acked' = acked /\ rejected' = rejected
  BY DEF CommitTree, GoOn, TypeInv, TypeOK
<1>10. c \notin Reachable \cup rejected /\ \A d \in Reachable : d \in DOMAIN commits
  BY <1>2, <1>5, ReachableIsCreated DEF TypeInv, TypeOK
<1>11. \A q \in Procs : proc[q].pc \in {"updateRef", "return"} =>
                            proc[q].commit \in DOMAIN commits /\ proc[q].commit # c
  BY <1>2, <1>5 DEF TypeInv, CallsOK
<1>12. \A d \in DOMAIN commits : \A k \in Keys : Read(k, d)' = Read(k, d)
  BY <1>5 DEF Read, Tree
<1> HIDE DEF new, c
<1>13. PendingOK'
  <2> SUFFICES ASSUME NEW q \in Procs, proc'[q].pc = "updateRef"
               PROVE  /\ proc'[q].commit \notin Reachable \cup rejected
                      /\ commits'[proc'[q].commit].parent # NoCommit
                      /\ \A r \in Procs \ {q} : proc'[r].pc = "updateRef" =>
                                                    proc'[r].commit # proc'[q].commit
    BY <1>7, <1>9 DEF PendingOK
  <2>1. CASE q = p
    BY <2>1, <1>2, <1>5, <1>9, <1>10, <1>11 DEF new
  <2>2. CASE q # p
    BY <2>2, <1>5, <1>9, <1>11 DEF SafetyInv, PendingOK
  <2> QED
    BY <2>1, <2>2
<1>14. PublishedOK'
  BY <1>7, <1>9 DEF SafetyInv, PublishedOK
<1>15. ValuesOK'
  <2> SUFFICES ASSUME NEW q \in Procs, proc'[q].pc \in {"updateRef", "return"},
                      proc'[q].op = "put"
               PROVE  Read(proc[q].key, proc[q].commit)' = proc'[q].val
    BY DEF ValuesOK
  <2>1. CASE q = p
    <3>1. proc'[q].key = me.key /\ proc'[q].commit = c /\ proc'[q].val = me.val
            /\ me.op = "put"
      BY <2>1, <1>9
    <3>2. Tree(me.base) \in Trees
      BY <1>2, TreeType DEF TypeInv
    <3>3. EditedTree(me.base, me.op, me.key, me.val)[me.key] = me.val
      BY <3>1, <3>2, <1>2 DEF EditedTree, Trees
    <3>4. c # NoCommit
      BY <1>2 DEF c, NoCommit
    <3>5. new.tree[me.key] = me.val
      BY <3>3 DEF new
    <3> QED
      BY <3>1, <3>4, <3>5, <1>5 DEF Read, Tree
  <2>2. CASE q # p
    <3>1. proc'[q] = proc[q] /\ proc[q].commit \in DOMAIN commits /\ proc[q].key \in Keys
      BY <2>2, <1>9, <1>11 DEF TypeInv, CallsOK
    <3> QED
      BY <3>1, <1>12 DEF SafetyInv, ValuesOK
  <2> QED
    BY <2>1, <2>2
<1>16. SessionsOK'
  <2> SUFFICES ASSUME NEW q \in Procs, seen[q] # NoCommit
               PROVE  /\ seen[q] \in Reachable
                      /\ proc'[q].pc = "catFile" =>
                            seen[q] \in Ancestors(commits', proc'[q].base)
                      /\ proc'[q].pc \in {"updateRef", "return"} =>
                            seen[q] \in Ancestors(commits', proc'[q].commit)
    BY <1>7, <1>9 DEF SessionsOK
  <2>1. seen[q] \in Reachable
    BY DEF SafetyInv, SessionsOK
  <2>2. CASE q = p
    BY <2>1, <2>2, <1>8, <1>9
  <2>3. CASE q # p
    <3>1. proc'[q] = proc[q]
      BY <2>3, <1>9
    <3>2. proc[q].pc = "catFile" => proc[q].base \in DOMAIN commits
      BY <1>10 DEF SafetyInv, PublishedOK
    <3> QED
      BY <2>1, <3>1, <3>2, <1>6, <1>11 DEF SafetyInv, SessionsOK
  <2> QED
    BY <2>2, <2>3
<1>17. AckedPutDurable'
  <2> SUFFICES ASSUME NEW a \in acked
               PROVE  a.version \in Reachable /\ Read(a.key, a.version)' = a.val
    BY <1>7, <1>9 DEF AckedPutDurable
  <2>1. a.version \in Reachable /\ Read(a.key, a.version) = a.val /\ a.key \in Keys
    BY DEF SafetyInv, AckedPutDurable, TypeInv, TypeOK
  <2> QED
    BY <2>1, <1>10, <1>12
<1>18. RejectedNeverPublished'
  BY <1>7, <1>9 DEF SafetyInv, RejectedNeverPublished
<1> QED
  BY <1>9, <1>13, <1>14, <1>15, <1>16, <1>17, <1>18 DEF SafetyInv

\* update-ref compares with the parent, which every pending commit has: what
\* it publishes is the pending commit on top of the whole history.
LEMMA PublishesOneCommit ==
    ASSUME TypeInv, SafetyInv, NEW p \in Procs, UpdateRef(p),
           MayMove(commits[proc[p].commit].parent)
    PROVE  /\ Reachable' = {proc[p].commit} \cup Reachable
           /\ proc[p].commit \in DOMAIN commits \ Reachable
<1> DEFINE c == proc[p].commit
<1>1. /\ c \in DOMAIN commits /\ c # NoCommit /\ c \notin Reachable
      /\ commits[c].parent # NoCommit
  BY ReachableIsCreated DEF UpdateRef, TypeInv, CallsOK, SafetyInv, PendingOK, NoCommit
<1>2. ref' = c /\ commits' = commits
  BY DEF UpdateRef
<1>3. commits[c].parent = ref /\ ref \in DOMAIN commits /\ ref # NoCommit
  BY <1>1, ReachableIsCreated DEF MayMove, SafetyInv
<1>4. Ancestors(commits, c) = {c} \cup Ancestors(commits, ref)
  BY <1>1, <1>3, AncestorsOfChild
<1> QED
  BY <1>1, <1>2, <1>3, <1>4 DEF Reachable, ReachableFrom

\* A successful update-ref adds one commit to the history; a lost one adds
\* one to the rejected commits.
LEMMA SafetyUpdateRef ==
    ASSUME TypeInv, SafetyInv, NEW p \in Procs, UpdateRef(p)
    PROVE  SafetyInv'
<1> DEFINE me == proc[p]
           c  == me.commit
<1>1. /\ me \in Proc /\ me.pc = "updateRef" /\ me.op \in {"put", "delete"}
      /\ c \in DOMAIN commits /\ c # NoCommit
      /\ commits[c].parent # NoCommit /\ c \notin Reachable \cup rejected
  BY ReachableIsCreated
     DEF UpdateRef, TypeInv, TypeOK, CallsOK, SafetyInv, PendingOK, NoCommit
<1>2. CASE MayMove(commits[c].parent)
  <2>1. /\ proc'[p] = [pc |-> "return", op |-> me.op, key |-> me.key, val |-> me.val,
                       base |-> NoCommit, commit |-> c]
        /\ \A q \in Procs \ {p} : proc'[q] = proc[q]
        /\ ref' = c /\ UNCHANGED <<commits, seen, acked, rejected>>
    BY <1>2 DEF UpdateRef, GoOn, TypeInv, TypeOK
  <2>2. Reachable' = {c} \cup Reachable
    BY <1>2, PublishesOneCommit
  <2>3. PendingOK'
    BY <1>1, <2>1, <2>2 DEF SafetyInv, PendingOK
  <2>4. PublishedOK'
    BY <2>1, <2>2 DEF SafetyInv, PublishedOK
  <2>5. ValuesOK'
    BY <1>1, <2>1 DEF SafetyInv, ValuesOK, Read, Tree
  <2>6. SessionsOK'
    BY <1>1, <2>1, <2>2 DEF SafetyInv, SessionsOK
  <2>7. AckedPutDurable'
    BY <2>1, <2>2 DEF SafetyInv, AckedPutDurable, Read, Tree
  <2>8. RejectedNeverPublished'
    BY <1>1, <2>1, <2>2 DEF SafetyInv, RejectedNeverPublished
  <2> QED
    BY <1>1, <2>1, <2>3, <2>4, <2>5, <2>6, <2>7, <2>8 DEF SafetyInv
<1>3. CASE ~MayMove(commits[c].parent)
  <2>1. /\ proc' = [proc EXCEPT ![p] = Idle]
        /\ UNCHANGED <<ref, commits, seen, acked>> /\ rejected' = rejected \cup {c}
    BY <1>3 DEF UpdateRef
  <2> QED
    BY <1>1, <2>1, SafetyLeaves
<1> QED
  BY <1>2, <1>3

\* A put hands over its version, which is published and holds its value.
LEMMA SafetyReturn ==
    ASSUME TypeInv, SafetyInv, NEW p \in Procs, Return(p)
    PROVE  SafetyInv'
<1> DEFINE me == proc[p]
<1>1. /\ me.pc = "return" /\ me.commit \in Reachable
      /\ proc' = [proc EXCEPT ![p] = Idle] /\ UNCHANGED <<ref, commits, rejected>>
  BY DEF Return, SafetyInv, PublishedOK
<1>2. Idle \in Proc /\ Idle.pc = "idle"
  BY DEF Idle, Proc, NoCommit
<1>3. CASE me.op = "put"
  <2>1. /\ seen' = [seen EXCEPT ![p] = me.commit]
        /\ acked' = acked \cup {[version |-> me.commit, key |-> me.key, val |-> me.val]}
    BY <1>3 DEF Return
  <2>2. Read(me.key, me.commit) = me.val
    BY <1>1, <1>3 DEF SafetyInv, ValuesOK
  <2>3. AckedPutDurable'
    BY <1>1, <2>1, <2>2 DEF SafetyInv, AckedPutDurable, Reachable, Read, Tree
  <2> QED
    BY <1>1, <1>2, <2>1, <2>3, SafetyLocal
<1>4. CASE me.op # "put"
  BY <1>1, <1>4, SafetyLeaves DEF Return
<1> QED
  BY <1>3, <1>4

\* Every step keeps the safety invariant.
LEMMA SafetyStep ==
    ASSUME ~RevParseMayFail
    PROVE  TypeInv /\ SafetyInv /\ [Next]_vars => SafetyInv'
<1> SUFFICES ASSUME TypeInv, SafetyInv, [Next]_vars PROVE SafetyInv'
  OBVIOUS
<1>1. ASSUME NEW p \in Writers, NEW k \in Keys, Delete(p, k)
      PROVE  SafetyInv'
  BY <1>1, GitAssumption, SafetyBegin DEF Delete
<1>2. ASSUME NEW p \in Writers, NEW k \in Keys, NEW val \in Values, Put(p, k, val)
      PROVE  SafetyInv'
  BY <1>2, GitAssumption, SafetyBegin DEF Put
<1>3. ASSUME NEW p \in Writers, KeyExists(p)
      PROVE  SafetyInv'
  <2> DEFINE x == GoOn(proc[p], "commitTree", proc[p].base, NoCommit)
  <2>1. p \in Procs /\ proc[p] \in Proc /\ UNCHANGED <<ref, commits, seen, acked, rejected>>
    BY <1>3, GitAssumption DEF KeyExists, TypeInv, TypeOK
  <2>2. CASE proc' = [proc EXCEPT ![p] = Idle]
    BY <2>1, <2>2, SafetyLeaves
  <2>3. CASE proc' = [proc EXCEPT ![p] = x]
    <3>1. x \in Proc /\ x.pc = "commitTree"
      BY <2>1 DEF GoOn, Proc, NoCommit
    <3>2. seen' = [seen EXCEPT ![p] = seen[p]] /\ ref' = ref /\ commits' = commits
      BY <2>1 DEF TypeInv, TypeOK
    <3>3. AckedPutDurable'
      BY <2>1 DEF SafetyInv, AckedPutDurable, Reachable, Read, Tree
    <3> HIDE DEF x
    <3> QED
      BY <2>1, <2>3, <3>1, <3>2, <3>3, SafetyLocal
  <2> QED
    BY <1>3, <2>2, <2>3 DEF KeyExists
<1>4. ASSUME NEW p \in Writers, CommitTree(p)
      PROVE  SafetyInv'
  BY <1>4, GitAssumption, SafetyCommitTree
<1>5. ASSUME NEW p \in Writers, UpdateRef(p)
      PROVE  SafetyInv'
  BY <1>5, GitAssumption, SafetyUpdateRef
<1>6. ASSUME NEW p \in Writers, Return(p)
      PROVE  SafetyInv'
  BY <1>6, GitAssumption, SafetyReturn
<1>7. ASSUME NEW p \in Procs, NEW k \in Keys, Get(p, k)
      PROVE  SafetyInv'
  BY <1>7, SafetyBegin DEF Get
<1>8. ASSUME NEW p \in Procs, CatFile(p)
      PROVE  SafetyInv'
  <2> DEFINE s == IF Read(proc[p].key, proc[p].base) = Absent THEN seen[p]
                  ELSE proc[p].base
  <2>1. s \in {seen[p]} \cup Reachable
    BY <1>8 DEF CatFile, SafetyInv, PublishedOK
  <2>2. Idle \in Proc /\ Idle.pc = "idle"
    BY DEF Idle, Proc, NoCommit
  <2>3. /\ proc' = [proc EXCEPT ![p] = Idle] /\ ref' = ref /\ commits' = commits
        /\ seen' = [seen EXCEPT ![p] = s] /\ acked' = acked /\ rejected' = rejected
    BY <1>8 DEF CatFile
  <2>4. AckedPutDurable'
    BY <2>3 DEF SafetyInv, AckedPutDurable, Reachable, Read, Tree
  <2> HIDE DEF s
  <2> QED
    BY <2>1, <2>2, <2>3, <2>4, SafetyLocal
<1>9. ASSUME NEW p \in Procs, GitFails(p)
      PROVE  SafetyInv'
  BY <1>9, SafetyLeaves DEF GitFails
<1>10. ASSUME NEW p \in Procs, Crash(p)
       PROVE  SafetyInv'
  BY <1>10, SafetyLeaves DEF Crash
<1>11. CASE UNCHANGED vars
  BY <1>11 DEF vars, SafetyInv, PendingOK, PublishedOK, ValuesOK, SessionsOK,
               AckedPutDurable, RejectedNeverPublished, Reachable, Read, Tree
<1> QED
  BY <1>1, <1>2, <1>3, <1>4, <1>5, <1>6, <1>7, <1>8, <1>9, <1>10, <1>11 DEF Next, Write

LEMMA SafetyCorrect ==
    ASSUME Seeded, ~RevParseMayFail
    PROVE  Spec => [](TypeInv /\ SafetyInv)
<1>1. Init => TypeInv /\ SafetyInv
  BY TypeInit, SafetyInit
<1>2. TypeInv /\ SafetyInv /\ [Next]_vars => (TypeInv /\ SafetyInv)'
  BY TypeStep, SafetyStep
<1> QED
  BY <1>1, <1>2, PTL DEF Spec

\* Once the ref exists and while rev-parse answers, a put that returned is
\* never lost, however its writers race, fail and crash.
THEOREM AckedPutsAreDurable ==
    ASSUME Seeded, ~RevParseMayFail
    PROVE  Spec => []AckedPutDurable
<1>1. TypeInv /\ SafetyInv => AckedPutDurable
  BY DEF SafetyInv
<1> QED
  BY <1>1, SafetyCorrect, PTL

\* Under the same conditions a write that returned GitInvocationFailed never
\* becomes part of the history.
THEOREM RejectedWritesStayOut ==
    ASSUME Seeded, ~RevParseMayFail
    PROVE  Spec => []RejectedNeverPublished
<1>1. TypeInv /\ SafetyInv => RejectedNeverPublished
  BY DEF SafetyInv
<1> QED
  BY <1>1, SafetyCorrect, PTL

\* Every process reads its own writes, and reads go forward only.
THEOREM SessionsGoForward ==
    ASSUME Seeded, ~RevParseMayFail
    PROVE  Spec => SessionsNeverGoBack
<1> DEFINE Forward ==
        \A p \in Procs :
            LET before == seen[p] IN
            seen'[p] # before =>
                before = NoCommit \/ before \in Ancestors(commits, seen[p])'
<1>1. TypeInv /\ SafetyInv /\ [Next]_vars => [Forward]_vars
  <2> SUFFICES ASSUME TypeInv, SafetyInv, Next,
                      NEW p \in Procs, seen'[p] # seen[p], seen[p] # NoCommit
               PROVE  seen[p] \in Ancestors(commits, seen[p])'
    OBVIOUS
  <2>1. ASSUME NEW q \in Procs, Return(q)
        PROVE  seen[p] \in Ancestors(commits, seen[p])'
    <3>1. q = p /\ seen'[p] = proc[p].commit /\ proc[p].pc = "return"
      BY <2>1 DEF Return, TypeInv, TypeOK
    <3>2. commits' = commits
      BY <2>1 DEF Return
    <3> QED
      BY <3>1, <3>2 DEF SafetyInv, SessionsOK
  <2>2. ASSUME NEW q \in Procs, CatFile(q)
        PROVE  seen[p] \in Ancestors(commits, seen[p])'
    <3>1. q = p /\ seen'[p] = proc[p].base /\ proc[p].pc = "catFile"
      BY <2>2 DEF CatFile, TypeInv, TypeOK
    <3>2. commits' = commits
      BY <2>2 DEF CatFile
    <3> QED
      BY <3>1, <3>2 DEF SafetyInv, SessionsOK
  <2> QED
    BY <2>1, <2>2, GitAssumption
       DEF Next, Write, Put, Delete, Get, Begin, KeyExists, CommitTree, UpdateRef,
           GitFails, Crash
<1> QED
  BY <1>1, SafetyCorrect, PTL DEF Spec, SessionsNeverGoBack

-----------------------------------------------------------------------------
(* The log is a chain: what it says of `history`, whoever wrote it *)

\* A first commit is alone in its log.
LEMMA AncestorsOfRoot ==
    ASSUME NEW g, NEW c \in DOMAIN g, g[c].parent = NoCommit
    PROVE  Ancestors(g, c) = {c}
<1>1. ParentClosed(g, {c})
  BY DEF ParentClosed
<1>. QED
  BY <1>1, AncestorsSelf DEF Ancestors

\* A parent is older than its child.
LEMMA ParentIsOlder ==
    ASSUME NEW X, NEW g \in Seq(X), GraphOK(g),
           NEW c \in DOMAIN g, g[c].parent # NoCommit
    PROVE  /\ g[c].parent \in DOMAIN g
           /\ g[c].parent < c /\ g[c].parent \in Nat /\ c \in Nat
BY DEF GraphOK, NoCommit

\* The log of a commit holds no younger one.
LEMMA AncestorsAreOlder ==
    ASSUME NEW X, NEW g \in Seq(X), GraphOK(g),
           NEW c \in DOMAIN g, NEW a \in Ancestors(g, c)
    PROVE  a <= c /\ a \in Nat /\ c \in Nat
<1> DEFINE S == {d \in DOMAIN g : d <= c}
<1>1. \A d \in DOMAIN g : d \in Nat
  OBVIOUS
<1>2. ASSUME NEW d \in S, g[d].parent # NoCommit
      PROVE  g[d].parent \in S
  BY <1>1, <1>2, ParentIsOlder
<1>3. S \in SUBSET DOMAIN g /\ c \in S /\ ParentClosed(g, S)
  BY <1>1, <1>2 DEF ParentClosed
<1>4. a \in S
  BY <1>3 DEF Ancestors
<1>. QED
  BY <1>1, <1>4

\* With a commit, its parent is in the log.
LEMMA AncestorsHoldParents ==
    ASSUME NEW X, NEW g \in Seq(X), GraphOK(g), NEW r,
           NEW c \in Ancestors(g, r), g[c].parent # NoCommit
    PROVE  g[c].parent \in Ancestors(g, r)
<1>1. c \in DOMAIN g /\ g[c].parent \in DOMAIN g
  BY ParentIsOlder DEF Ancestors
<1>. QED
  BY <1>1 DEF Ancestors, ParentClosed

\* Of two commits of one log, one is in the log of the other.
LEMMA LogIsAChain ==
    ASSUME NEW X, NEW g \in Seq(X), GraphOK(g), NEW r \in DOMAIN g,
           NEW c \in Ancestors(g, r), NEW d \in Ancestors(g, r)
    PROVE  d \in Ancestors(g, c) \/ c \in Ancestors(g, d)
<1> DEFINE S == {a \in DOMAIN g : a \in Ancestors(g, c) \/ c \in Ancestors(g, a)}
<1>1. ASSUME NEW a \in S, g[a].parent # NoCommit
      PROVE  g[a].parent \in S
  <2>1. g[a].parent \in DOMAIN g
    BY <1>1, ParentIsOlder
  <2>2. CASE a \in Ancestors(g, c)
    BY <1>1, <2>1, <2>2, AncestorsHoldParents
  <2>3. CASE c \in Ancestors(g, a) /\ c # a
    <3>1. c \in Ancestors(g, g[a].parent)
      BY <1>1, <2>1, <2>3, AncestorsOfChild
    <3>. QED
      BY <2>1, <3>1
  <2>4. CASE c = a
    BY <1>1, <2>2, <2>4, AncestorsSelf
  <2>. QED
    BY <1>1, <2>2, <2>3, <2>4
<1>2. S \in SUBSET DOMAIN g /\ r \in S /\ ParentClosed(g, S)
  BY <1>1 DEF ParentClosed
<1>3. d \in S
  BY <1>2 DEF Ancestors
<1>. QED
  BY <1>3

\* What the log of the ref is made of.
LEMMA LogFacts ==
    ASSUME TypeInv, ref # NoCommit
    PROVE  /\ ref \in Reachable
           /\ \A c \in Reachable : c \in Nat /\ c # NoCommit /\ c \in DOMAIN commits
           /\ \A c, d \in Reachable : d < c => d \in Ancestors(commits, c)
           /\ \A c \in Reachable : c <= ref
           /\ \A c \in Reachable : commits[c].parent # NoCommit =>
                 /\ commits[c].parent \in Reachable
                 /\ commits[c].parent < c
                 /\ \A d \in Reachable : d < c => d <= commits[c].parent
           /\ \A c \in Reachable : commits[c].parent = NoCommit =>
                 \A d \in Reachable : ~(d < c)
<1>1. commits \in Seq(Commit) /\ GraphOK(commits) /\ ref \in DOMAIN commits
  BY ReachableIsCreated DEF TypeInv, TypeOK
<1>2. Reachable = Ancestors(commits, ref)
  BY DEF Reachable, ReachableFrom
<1>3. \A c \in Reachable : c \in DOMAIN commits /\ c \in Nat /\ c # NoCommit
  BY ReachableIsCreated DEF NoCommit
<1>4. ASSUME NEW c \in Reachable, NEW d \in Reachable, d < c
      PROVE  d \in Ancestors(commits, c)
  <2>1. CASE c \in Ancestors(commits, d)
    <3>1. c <= d
      BY <1>1, <1>3, <2>1, AncestorsAreOlder
    <3>. QED
      BY <1>3, <1>4, <3>1
  <2>. QED
    BY <1>1, <1>2, <2>1, LogIsAChain
<1>5. ASSUME NEW c \in Reachable, commits[c].parent # NoCommit
      PROVE  /\ commits[c].parent \in Reachable
             /\ commits[c].parent < c
             /\ \A d \in Reachable : d < c => d <= commits[c].parent
  <2>1. commits[c].parent \in Reachable
    BY <1>1, <1>2, <1>5, AncestorsHoldParents
  <2>2. commits[c].parent < c
    BY <1>1, <1>3, <1>5, ParentIsOlder
  <2>3. ASSUME NEW d \in Reachable, d < c
        PROVE  d <= commits[c].parent
    <3>1. d \in Ancestors(commits, c)
      BY <1>4, <2>3
    <3>2. d # c
      BY <1>3, <2>3
    <3>3. d \in Ancestors(commits, commits[c].parent)
      BY <1>3, <1>5, <2>1, <3>1, <3>2, AncestorsOfChild
    <3>. QED
      BY <1>1, <1>3, <2>1, <3>3, AncestorsAreOlder
  <2>. QED
    BY <2>1, <2>2, <2>3
<1>6. ASSUME NEW c \in Reachable, commits[c].parent = NoCommit, NEW d \in Reachable
      PROVE  ~(d < c)
  BY <1>3, <1>4, <1>6, AncestorsOfRoot
<1>7. \A c \in Reachable : c <= ref
  BY <1>1, <1>2, <1>3, AncestorsAreOlder
<1>8. ref \in Reachable
  BY <1>1, <1>2, AncestorsSelf
<1>. QED
  BY <1>3, <1>4, <1>5, <1>6, <1>7, <1>8

\* The oldest commit since which the key has held what it holds at the tip.
LEMMA LastChange ==
    ASSUME TypeInv, ref # NoCommit, NEW k
    PROVE  \E c \in Reachable :
              /\ \A d \in Reachable : d >= c => Read(k, d) = Read(k, ref)
              /\ commits[c].parent # NoCommit => Read(k, commits[c].parent) # Read(k, ref)
<1> DEFINE T == {c \in Reachable : \A d \in Reachable : d >= c => Read(k, d) = Read(k, ref)}
<1>1. ref \in T
  BY LogFacts
<1>2. T \subseteq Nat
  BY LogFacts
<1>3. PICK c \in T : \A t \in T : ~(<<t, c>> \in OpToRel(<, Nat))
  BY <1>1, <1>2, NatLessThanWellFounded, WFMin, Zenon
<1>4. ASSUME commits[c].parent # NoCommit, Read(k, commits[c].parent) = Read(k, ref)
      PROVE  FALSE
  <2>1. PICK p \in Reachable : p = commits[c].parent
    BY <1>4, LogFacts
  <2>2. p < c /\ \A d \in Reachable : d < c => d <= p
    BY <1>4, <2>1, LogFacts
  <2>3. \A d \in Reachable : d >= p => d >= c \/ d = p
    BY <2>2, LogFacts
  <2>4. \A d \in Reachable : d >= c => Read(k, d) = Read(k, ref)
    OBVIOUS
  <2>5. p \in T
    BY <1>4, <2>1, <2>3, <2>4
  <2>6. p \in Nat /\ c \in Nat
    BY <1>2, <2>5
  <2>. QED
    BY <1>3, <2>2, <2>5, <2>6 DEF OpToRel
<1>. QED
  BY <1>4

LEMMA HistoryFollows == TypeInv => HistoryAgreesWithGet
<1> SUFFICES ASSUME TypeInv, NEW k \in ListKeys
             PROVE  \E c \in History(k) :
                       /\ \A d \in History(k) : d <= c
                       /\ Read(k, c) = Read(k, ref)
  BY DEF HistoryAgreesWithGet
<1>1. k \in Keys /\ Read(k, ref) # Absent
  BY DEF ListKeys, Read
<1>2. ref # NoCommit
  BY <1>1 DEF Read, Tree, EmptyTree
<1>3. PICK c \in Reachable :
        /\ \A d \in Reachable : d >= c => Read(k, d) = Read(k, ref)
        /\ commits[c].parent # NoCommit => Read(k, commits[c].parent) # Read(k, ref)
  BY <1>2, LastChange
<1>4. Read(k, c) = Read(k, ref)
  BY <1>2, <1>3, LogFacts
<1>5. c \in History(k)
  <2>1. CASE commits[c].parent = NoCommit
    <3>1. Tree(commits[c].parent)[k] = Absent
      BY <1>1, <2>1 DEF Tree, EmptyTree
    <3>. QED
      BY <1>1, <1>4, <3>1 DEF History, Touches
  <2>2. CASE commits[c].parent # NoCommit
    BY <1>1, <1>3, <1>4, <2>2 DEF History, Touches, Read
  <2>. QED
    BY <2>1, <2>2
<1>6. ASSUME NEW d \in History(k), ~(d <= c)
      PROVE  FALSE
  <2>1. d \in Reachable /\ Touches(d, k)
    BY DEF History
  <2>2. d \in Nat /\ c \in Nat /\ c < d
    BY <1>2, <1>6, <2>1, LogFacts
  <2>3. commits[d].parent # NoCommit
    BY <1>2, <2>1, <2>2, LogFacts
  <2>4. PICK q \in Reachable : q = commits[d].parent
    BY <1>2, <2>1, <2>3, LogFacts
  <2>5. q \in Nat /\ q >= c
    BY <1>2, <2>1, <2>2, <2>3, <2>4, LogFacts
  <2>6. Read(k, q) = Read(k, ref) /\ Read(k, d) = Read(k, ref)
    BY <1>3, <2>1, <2>2, <2>5
  <2>. QED
    BY <2>1, <2>4, <2>6 DEF Touches, Read
<1>. QED
  BY <1>4, <1>5, <1>6

\* `history` and `get` agree, whoever raced, failed or crashed and whatever
\* the repository held: the newest version `git log` keeps for a listed key
\* holds what an unpinned `get` reads.
THEOREM NewestHistoryIsWhatGetReads == Spec => []HistoryAgreesWithGet
<1>1. Spec => []TypeInv
  BY TypeInit, TypeStep, PTL DEF Spec
<1>. QED
  BY <1>1, HistoryFollows, PTL

-----------------------------------------------------------------------------
(* Racing subprocess stores implement the weak contract of RefStore: the   *)
(* only step a client of the contract can see is a successful update-ref.  *)

LEMMA BasesInit == Init => BasesOK
BY DEF Init, BasesOK, Idle

\* Neither the history nor a commit changes: BasesOK follows for the process
\* that moved, if it holds for its new record.
LEMMA BasesLocal ==
    ASSUME TypeInv, BasesOK, NEW p \in Procs, NEW x,
           proc' = [proc EXCEPT ![p] = x], UNCHANGED <<ref, commits>>,
           x.pc \in {"keyExists", "commitTree"} => x.base \in Reachable,
           x.pc # "updateRef"
    PROVE  BasesOK'
<1>1. Reachable' = Reachable /\ proc'[p] = x
        /\ \A q \in Procs \ {p} : proc'[q] = proc[q]
  BY DEF Reachable, TypeInv, TypeOK
<1> QED
  BY <1>1 DEF BasesOK, EditedTree, Tree

LEMMA BasesBegin ==
    ASSUME TypeInv, SafetyInv, BasesOK, ~RevParseMayFail,
           NEW p \in Procs, NEW k, NEW b \in RevParse,
           NEW pc \in {"keyExists", "commitTree", "catFile"},
           NEW op, NEW val, Begin(p, pc, op, k, val, b)
    PROVE  BasesOK'
<1> DEFINE x == [pc |-> pc, op |-> op, key |-> k, val |-> val, base |-> b,
                 commit |-> NoCommit]
<1>1. ref \in Reachable
  BY ReachableIsCreated, AncestorsSelf DEF SafetyInv, Reachable, ReachableFrom
<1>2. x.pc = pc /\ x.base \in Reachable
  BY <1>1 DEF RevParse
<1>3. proc' = [proc EXCEPT ![p] = x] /\ UNCHANGED <<ref, commits>>
  BY DEF Begin
<1> HIDE DEF x
<1> QED
  BY <1>2, <1>3, BasesLocal

LEMMA BasesIdle ==
    ASSUME TypeInv, BasesOK, NEW p \in Procs,
           proc' = [proc EXCEPT ![p] = Idle], UNCHANGED <<ref, commits>>
    PROVE  BasesOK'
<1>1. Idle.pc = "idle"
  BY DEF Idle
<1> QED
  BY <1>1, BasesLocal

LEMMA BasesCommitTree ==
    ASSUME TypeInv, SafetyInv, BasesOK, ~RevParseMayFail,
           NEW p \in Procs, CommitTree(p)
    PROVE  BasesOK'
<1> DEFINE me == proc[p]
           c  == Len(commits) + 1
           new == [parent |-> ref, tree |-> EditedTree(me.base, me.op, me.key, me.val),
                   op |-> me.op, key |-> me.key]
<1>1. commits' = Append(commits, new)
  BY DEF CommitTree, RevParse
<1>2. me \in Proc /\ me.base \in Reachable /\ me.key \in Keys
        /\ me.base \in 0..Len(commits) /\ me.op \in {"put", "delete"}
  <2>1. me \in Proc /\ me.pc = "commitTree" /\ me.base <= Len(commits)
    BY DEF CommitTree, TypeInv, TypeOK
  <2>2. me.base \in Nat /\ Len(commits) \in Nat
    BY <2>1 DEF Proc, TypeInv, TypeOK
  <2> QED
    BY <2>1, <2>2 DEF BasesOK, TypeInv, CallsOK
<1>3. new \in Commit
  BY <1>2, EditedTreeType DEF Commit, TypeInv, TypeOK, Proc
<1>4. /\ Len(commits) \in Nat /\ DOMAIN commits = 1..Len(commits)
      /\ \A d \in DOMAIN commits : commits'[d] = commits[d]
      /\ commits'[c] = new
  BY <1>1, <1>3 DEF TypeInv, TypeOK
<1>5. \A d \in DOMAIN commits : Ancestors(commits', d) = Ancestors(commits, d)
  BY <1>1, <1>3, AncestorsStable DEF TypeInv, TypeOK
<1>6. Reachable' = Reachable /\ Reachable \subseteq DOMAIN commits
  BY <1>5, ReachableIsCreated DEF CommitTree, SafetyInv, Reachable, ReachableFrom
<1>7. \A b \in Reachable : Tree(b)' = Tree(b)
  BY <1>4, <1>6 DEF Tree
<1>8. \A b \in Reachable : \A op, k, val : EditedTree(b, op, k, val)' = EditedTree(b, op, k, val)
  BY <1>7 DEF EditedTree
<1>9. /\ proc'[p] = [pc |-> "updateRef", op |-> me.op, key |-> me.key, val |-> me.val,
                     base |-> NoCommit, commit |-> c]
      /\ \A q \in Procs \ {p} : proc'[q] = proc[q]
  BY DEF CommitTree, GoOn, TypeInv, TypeOK
<1>10. new.tree = EditedTree(me.base, me.op, me.key, me.val)
  OBVIOUS
<1> HIDE DEF new, c
<1> SUFFICES ASSUME NEW q \in Procs
             PROVE  /\ proc'[q].pc \in {"keyExists", "commitTree"} =>
                            proc'[q].base \in Reachable
                    /\ proc'[q].pc = "updateRef" =>
                        \E b \in Reachable :
                            commits'[proc'[q].commit].tree =
                                EditedTree(b, proc[q].op, proc[q].key, proc[q].val)
  BY <1>6, <1>8, <1>9 DEF BasesOK
<1>11. CASE q = p
  BY <1>2, <1>4, <1>9, <1>10, <1>11
<1>12. CASE q # p
  <2>1. proc'[q] = proc[q] /\ (proc[q].pc = "updateRef" => proc[q].commit \in DOMAIN commits)
    BY <1>4, <1>9, <1>12 DEF TypeInv, CallsOK
  <2> QED
    BY <2>1, <1>4 DEF BasesOK
<1> QED
  BY <1>11, <1>12

LEMMA BasesUpdateRef ==
    ASSUME TypeInv, SafetyInv, BasesOK, NEW p \in Procs, UpdateRef(p)
    PROVE  BasesOK'
<1>1. CASE MayMove(commits[proc[p].commit].parent)
  <2>1. Reachable' = {proc[p].commit} \cup Reachable
    BY <1>1, PublishesOneCommit
  <2>2. /\ proc'[p].pc = "return" /\ commits' = commits
        /\ \A q \in Procs \ {p} : proc'[q] = proc[q]
    BY <1>1 DEF UpdateRef, GoOn, TypeInv, TypeOK
  <2> QED
    BY <2>1, <2>2 DEF BasesOK, EditedTree, Tree
<1>2. CASE ~MayMove(commits[proc[p].commit].parent)
  BY <1>2, BasesIdle DEF UpdateRef
<1> QED
  BY <1>1, <1>2

LEMMA BasesStep ==
    ASSUME ~RevParseMayFail
    PROVE  TypeInv /\ SafetyInv /\ BasesOK /\ [Next]_vars => BasesOK'
<1> SUFFICES ASSUME TypeInv, SafetyInv, BasesOK, [Next]_vars PROVE BasesOK'
  OBVIOUS
<1>1. ASSUME NEW p \in Writers, NEW k \in Keys, Delete(p, k)
      PROVE  BasesOK'
  BY <1>1, GitAssumption, BasesBegin DEF Delete
<1>2. ASSUME NEW p \in Writers, NEW k \in Keys, NEW val \in Values, Put(p, k, val)
      PROVE  BasesOK'
  BY <1>2, GitAssumption, BasesBegin DEF Put
<1>3. ASSUME NEW p \in Writers, KeyExists(p)
      PROVE  BasesOK'
  <2> DEFINE x == GoOn(proc[p], "commitTree", proc[p].base, NoCommit)
  <2>1. p \in Procs /\ UNCHANGED <<ref, commits>> /\ proc[p].base \in Reachable
    BY <1>3, GitAssumption DEF KeyExists, BasesOK
  <2>2. CASE proc' = [proc EXCEPT ![p] = Idle]
    BY <2>1, <2>2, BasesIdle
  <2>3. CASE proc' = [proc EXCEPT ![p] = x]
    <3>1. x.pc = "commitTree" /\ x.base \in Reachable
      BY <2>1 DEF GoOn
    <3> HIDE DEF x
    <3> QED
      BY <2>1, <2>3, <3>1, BasesLocal
  <2> QED
    BY <1>3, <2>2, <2>3 DEF KeyExists
<1>4. ASSUME NEW p \in Writers, CommitTree(p)
      PROVE  BasesOK'
  BY <1>4, GitAssumption, BasesCommitTree
<1>5. ASSUME NEW p \in Writers, UpdateRef(p)
      PROVE  BasesOK'
  BY <1>5, GitAssumption, BasesUpdateRef
<1>6. ASSUME NEW p \in Writers, Return(p)
      PROVE  BasesOK'
  BY <1>6, GitAssumption, BasesIdle DEF Return
<1>7. ASSUME NEW p \in Procs, NEW k \in Keys, Get(p, k)
      PROVE  BasesOK'
  BY <1>7, BasesBegin DEF Get
<1>8. ASSUME NEW p \in Procs, CatFile(p) \/ GitFails(p) \/ Crash(p)
      PROVE  BasesOK'
  BY <1>8, BasesIdle DEF CatFile, GitFails, Crash
<1>9. CASE UNCHANGED vars
  BY <1>9 DEF vars, BasesOK, Reachable, EditedTree, Tree
<1> QED
  BY <1>1, <1>2, <1>3, <1>4, <1>5, <1>6, <1>7, <1>8, <1>9 DEF Next, Write

-----------------------------------------------------------------------------

\* A repository with one commit of an earlier run.
LEMMA SeededInit ==
    ASSUME Seeded, Init
    PROVE  \E m \in WeakContract!Maps, v \in 1..MaxCommits :
              Tree(ref) = m /\ Snapshots = [w \in {v} |-> m]
<1>1. PICK k \in Keys, val \in Values :
        /\ commits = <<[parent |-> NoCommit, op |-> "put", key |-> k,
                        tree |-> [EmptyTree EXCEPT ![k] = val]]>>
        /\ ref = 1
  BY DEF Init
<1> DEFINE m == [EmptyTree EXCEPT ![k] = val]
<1>2. m \in WeakContract!Maps
  BY DEF WeakContract!Maps, EmptyTree
<1>3. DOMAIN commits = {1} /\ commits[1].tree = m /\ commits[1].parent = NoCommit
  <2> DEFINE r == [parent |-> NoCommit, op |-> "put", key |-> k, tree |-> m]
  <2>1. commits = <<r>>
    BY <1>1
  <2>2. r.tree = m /\ r.parent = NoCommit
    OBVIOUS
  <2> HIDE DEF r
  <2> QED
    BY <2>1, <2>2
<1> HIDE DEF m
<1>4. Reachable = {1}
  BY <1>1, <1>3, AncestorsSelf DEF Reachable, ReachableFrom, Ancestors, NoCommit
<1>5. Tree(ref) = m /\ Snapshots = [w \in {1} |-> m]
  BY <1>1, <1>3, <1>4 DEF Tree, Snapshots, NoCommit
<1>6. 1 \in 1..MaxCommits
  BY GitAssumption
<1> QED
  BY <1>2, <1>5, <1>6

LEMMA RefinesInit ==
    ASSUME Seeded, Init
    PROVE  WeakContract!Init
BY SeededInit DEF WeakContract!Init

\* Any step that leaves the ref in place and no published commit changed is a
\* stutter for the contract.
LEMMA RefinesStutter ==
    ASSUME TypeInv, ref' = ref, commits' = commits
    PROVE  UNCHANGED <<Tree(ref), Snapshots>>
BY DEF Tree, Snapshots, Reachable

LEMMA RefinesCommitTree ==
    ASSUME TypeInv, NEW p \in Procs, CommitTree(p)
    PROVE  UNCHANGED <<Tree(ref), Snapshots>>
<1> DEFINE me == proc[p]
<1>1. PICK parent \in RevParse :
        commits' = Append(commits,
            [parent |-> parent, tree |-> EditedTree(me.base, me.op, me.key, me.val),
             op |-> me.op, key |-> me.key])
  BY DEF CommitTree
<1> DEFINE new == [parent |-> parent, tree |-> EditedTree(me.base, me.op, me.key, me.val),
                   op |-> me.op, key |-> me.key]
<1>2. new \in Commit
  <2>1. /\ me \in Proc /\ me.key \in Keys /\ me.op \in {"put", "delete"}
        /\ me.base \in 0..Len(commits) /\ parent \in Nat
    BY DEF CommitTree, TypeInv, TypeOK, CallsOK, Proc, RevParse, NoCommit
  <2> QED
    BY <2>1, EditedTreeType DEF Commit, TypeInv, TypeOK, Proc
<1>3. ref' = ref /\ (ref # NoCommit => ref \in DOMAIN commits)
  BY ReachableIsCreated DEF CommitTree
<1>4. \A d \in DOMAIN commits : commits'[d] = commits[d]
  BY <1>1 DEF TypeInv, TypeOK
<1> HIDE DEF new
<1>5. ref # NoCommit => Ancestors(commits', ref) = Ancestors(commits, ref)
  BY <1>1, <1>2, <1>3, AncestorsStable DEF TypeInv, TypeOK, new
<1>6. Reachable' = Reachable /\ Reachable \subseteq DOMAIN commits
  BY <1>3, <1>5, ReachableIsCreated DEF Reachable, ReachableFrom
<1> QED
  BY <1>3, <1>4, <1>6 DEF Tree, Snapshots

\* update-ref publishes an edit of a published map, or nothing.
LEMMA RefinesUpdateRef ==
    ASSUME TypeInv, SafetyInv, BasesOK, NEW p \in Procs, UpdateRef(p)
    PROVE  WeakContract!Next \/ UNCHANGED <<Tree(ref), Snapshots>>
<1> DEFINE me == proc[p]
           c  == me.commit
<1>1. CASE MayMove(commits[c].parent)
  <2>1. /\ Reachable' = {c} \cup Reachable /\ c \notin Reachable
        /\ c \in DOMAIN commits /\ c # NoCommit /\ c \in 1..MaxCommits
    BY <1>1, PublishesOneCommit, ReachableIsCreated, GitAssumption
       DEF TypeInv, TypeOK, NoCommit
  <2>2. ref' = c /\ commits' = commits
    BY <1>1 DEF UpdateRef
  <2>3. PICK b \in Reachable : commits[c].tree = EditedTree(b, me.op, me.key, me.val)
    BY DEF UpdateRef, BasesOK
  <2>4. me \in Proc /\ me.key \in Keys /\ me.op \in {"put", "delete"}
          /\ (me.op = "put" => me.val \in Values)
    BY DEF UpdateRef, TypeInv, TypeOK, CallsOK
  <2> DEFINE v == IF me.op = "put" THEN me.val ELSE Worktree[me.key]
             m == [Snapshots[b] EXCEPT ![me.key] = v]
  <2>5. b # NoCommit /\ Snapshots[b] = Tree(b)
    BY ReachableIsCreated DEF Snapshots, Tree, NoCommit
  <2>6. commits[c].tree = m
    BY <2>3, <2>5 DEF EditedTree
  <2>7. v \in Values \cup {Absent}
    BY <2>4, GitAssumption
  <2>8. Tree(ref)' = m
    BY <2>1, <2>2, <2>6 DEF Tree
  <2>9. Snapshots' = [w \in DOMAIN Snapshots \cup {c} |->
                        IF w = c THEN m ELSE Snapshots[w]]
    BY <2>1, <2>2, <2>6 DEF Snapshots
  <2>10. c \in (1..MaxCommits) \ DOMAIN Snapshots
    BY <2>1 DEF Snapshots
  <2>11. WeakContract!Publish(m)
    BY <2>8, <2>9, <2>10 DEF WeakContract!Publish
  <2>12. Snapshots[b] \in WeakContract!Bases
    BY DEF WeakContract!Bases, Snapshots
  <2>13. CASE v \in Values
    <3>1. WeakContract!Put(me.key, v)
      BY <2>11, <2>12 DEF WeakContract!Put
    <3> QED
      BY <2>4, <2>13, <3>1 DEF WeakContract!Next
  <2>14. CASE v = Absent
    <3>1. WeakContract!Delete(me.key)
      BY <2>11, <2>12, <2>14 DEF WeakContract!Delete
    <3> QED
      BY <2>4, <3>1 DEF WeakContract!Next
  <2> QED
    BY <2>7, <2>13, <2>14
<1>2. CASE ~MayMove(commits[c].parent)
  BY <1>2, RefinesStutter DEF UpdateRef
<1> QED
  BY <1>1, <1>2

LEMMA RefinesStep ==
    ASSUME TypeInv, SafetyInv, BasesOK, [Next]_vars
    PROVE  WeakContract!Next \/ UNCHANGED <<Tree(ref), Snapshots>>
<1>1. ASSUME NEW p \in Writers, CommitTree(p)
      PROVE  UNCHANGED <<Tree(ref), Snapshots>>
  BY <1>1, GitAssumption, RefinesCommitTree
<1>2. ASSUME NEW p \in Writers, UpdateRef(p)
      PROVE  WeakContract!Next \/ UNCHANGED <<Tree(ref), Snapshots>>
  BY <1>2, GitAssumption, RefinesUpdateRef
<1>3. CASE ref' = ref /\ commits' = commits
  BY <1>3, RefinesStutter
<1> QED
  BY <1>1, <1>2, <1>3
     DEF Next, Write, vars, Put, Delete, Get, Begin, KeyExists, Return, CatFile,
         GitFails, Crash

\* Whatever the number of racing writers, every successful write publishes one
\* fresh version, an edit of a published one, and nothing published changes.
THEOREM RacingWritersRefineWeakContract ==
    ASSUME Seeded, ~RevParseMayFail
    PROVE  Spec => ImplementsWeakContract
<1>1. Init => TypeInv /\ SafetyInv /\ BasesOK /\ WeakContract!Init
  BY TypeInit, SafetyInit, BasesInit, RefinesInit
<1>2. TypeInv /\ SafetyInv /\ BasesOK /\ [Next]_vars => (TypeInv /\ SafetyInv /\ BasesOK)'
  BY TypeStep, SafetyStep, BasesStep
<1>3. TypeInv /\ SafetyInv /\ BasesOK /\ [Next]_vars =>
        [WeakContract!Next]_(WeakContract!vars)
  BY RefinesStep DEF WeakContract!vars
<1> QED
  BY <1>1, <1>2, <1>3, PTL DEF Spec, ImplementsWeakContract, WeakContract!Spec

-----------------------------------------------------------------------------
(* One writer implements the contract itself, from an empty repository on: *)
(* readers, failing children and crashes included.                         *)

LoneWriter == \A p, q \in Writers : p = q

LEMMA LoneInit == Init => LoneWriterInv
<1> SUFFICES ASSUME Init PROVE LoneWriterInv
  OBVIOUS
<1>1. acked = {} /\ \A p \in Procs : proc[p] = Idle
  BY DEF Init
<1>. QED
  BY <1>1 DEF LoneWriterInv, LoneCallsOK, ValuesOK, AckedPutDurable, Idle

\* A step of one process that moves no ref and creates no commit.
LEMMA LoneLocal ==
    ASSUME TypeInv, LoneWriterInv, NEW p \in Procs, NEW x,
           proc' = [proc EXCEPT ![p] = x], ref' = ref, commits' = commits,
           p \notin Writers => x.pc \in {"idle", "catFile"},
           x.pc \in {"keyExists", "commitTree"} => x.base = ref,
           x.pc = "commitTree" /\ x.op = "delete" => Tree(ref)[x.key] # Absent,
           x.pc \notin {"updateRef", "return"},
           AckedPutDurable'
    PROVE  LoneWriterInv'
<1>1. Reachable' = Reachable
  BY DEF Reachable
<1>2. proc'[p] = x /\ \A q \in Procs \ {p} : proc'[q] = proc[q]
  BY DEF TypeInv, TypeOK
<1>3. ValuesOK'
  BY <1>2 DEF LoneWriterInv, ValuesOK, Read, Tree
<1>4. LoneCallsOK'
  BY <1>1, <1>2 DEF LoneWriterInv, LoneCallsOK, EditedTree, Tree
<1>. QED
  BY <1>3, <1>4 DEF LoneWriterInv

\* Leaving a call without moving the ref.
LEMMA LoneLeaves ==
    ASSUME TypeInv, LoneWriterInv, NEW p \in Procs,
           proc' = [proc EXCEPT ![p] = Idle], ref' = ref, commits' = commits,
           AckedPutDurable'
    PROVE  LoneWriterInv'
<1>1. Idle.pc = "idle"
  BY DEF Idle
<1>. QED
  BY <1>1, LoneLocal

\* What returned stays where it is.
LEMMA LoneKeepsAcked ==
    ASSUME LoneWriterInv, ref' = ref, commits' = commits, acked' = acked
    PROVE  AckedPutDurable'
BY DEF LoneWriterInv, AckedPutDurable, Reachable, Read, Tree

LEMMA LoneBegin ==
    ASSUME TypeInv, LoneWriterInv, ~RevParseMayFail,
           NEW p \in Procs, NEW k, NEW b \in RevParse, NEW op, NEW val,
           NEW pc \in {"keyExists", "commitTree", "catFile"},
           p \notin Writers => pc = "catFile", pc = "commitTree" => op = "put",
           Begin(p, pc, op, k, val, b)
    PROVE  LoneWriterInv'
<1> DEFINE x == [pc |-> pc, op |-> op, key |-> k, val |-> val, base |-> b,
                 commit |-> NoCommit]
<1>1. x.pc = pc /\ x.op = op /\ x.base = ref
  BY DEF RevParse
<1>2. proc' = [proc EXCEPT ![p] = x] /\ ref' = ref /\ commits' = commits /\ acked' = acked
  BY DEF Begin
<1>3. AckedPutDurable'
  BY <1>2, LoneKeepsAcked
<1> HIDE DEF x
<1>. QED
  BY <1>1, <1>2, <1>3, LoneLocal

LEMMA LoneKeyExists ==
    ASSUME TypeInv, LoneWriterInv, NEW p \in Procs, KeyExists(p)
    PROVE  LoneWriterInv'
<1> DEFINE me == proc[p]
           x == GoOn(me, "commitTree", me.base, NoCommit)
<1>1. me.pc = "keyExists" /\ ref' = ref /\ commits' = commits /\ acked' = acked
  BY DEF KeyExists
<1>2. AckedPutDurable'
  BY <1>1, LoneKeepsAcked
<1>3. CASE proc' = [proc EXCEPT ![p] = Idle]
  BY <1>1, <1>2, <1>3, LoneLeaves
<1>4. CASE proc' = [proc EXCEPT ![p] = x] /\ Tree(ref)[me.key] # Absent
  <2>1. x.pc = "commitTree" /\ x.op = me.op /\ x.key = me.key /\ x.base = me.base
    BY DEF GoOn
  <2>2. me.base = ref /\ p \in Writers
    BY <1>1 DEF LoneWriterInv, LoneCallsOK
  <2> HIDE DEF x
  <2>. QED
    BY <1>1, <1>2, <1>4, <2>1, <2>2, LoneLocal
<1>. QED
  BY <1>3, <1>4 DEF KeyExists

\* A new commit is the tip's child and an edit of the tip's tree.
LEMMA LoneCommitTree ==
    ASSUME TypeInv, LoneWriterInv, ~RevParseMayFail, NEW p \in Procs, CommitTree(p)
    PROVE  LoneWriterInv'
<1> DEFINE me == proc[p]
           c  == Len(commits) + 1
           new == [parent |-> ref, tree |-> EditedTree(me.base, me.op, me.key, me.val),
                   op |-> me.op, key |-> me.key]
<1>1. commits' = Append(commits, new)
  BY DEF CommitTree, RevParse
<1>2. /\ me \in Proc /\ me.pc = "commitTree" /\ me.base = ref /\ me.key \in Keys
      /\ me.op \in {"put", "delete"} /\ p \in Writers
      /\ me.base \in 0..Len(commits) /\ Len(commits) \in Nat /\ ref' = ref
  BY DEF CommitTree, TypeInv, TypeOK, CallsOK, LoneWriterInv, LoneCallsOK
<1>3. new \in Commit
  BY <1>2, EditedTreeType DEF Commit, TypeInv, TypeOK, Proc
<1>4. /\ DOMAIN commits = 1..Len(commits)
      /\ \A d \in DOMAIN commits : commits'[d] = commits[d]
      /\ commits'[c] = new
  BY <1>1, <1>3 DEF TypeInv, TypeOK
<1>5. \A d \in DOMAIN commits : Ancestors(commits', d) = Ancestors(commits, d)
  BY <1>1, <1>3, AncestorsStable DEF TypeInv, TypeOK
<1>6. Reachable' = Reachable /\ Reachable \subseteq DOMAIN commits /\ c \notin Reachable
  BY <1>2, <1>4, <1>5, ReachableIsCreated DEF Reachable, ReachableFrom
<1>7. \A b \in DOMAIN commits \cup {NoCommit} : Tree(b)' = Tree(b)
  BY <1>4 DEF Tree
<1>8. ref \in DOMAIN commits \cup {NoCommit}
  BY ReachableIsCreated
<1>9. Tree(ref)' = Tree(ref)
  BY <1>2, <1>7, <1>8 DEF Tree
<1>10. \A op, k, val : EditedTree(ref, op, k, val)' = EditedTree(ref, op, k, val)
  BY <1>9 DEF EditedTree
<1>11. /\ proc'[p] = [pc |-> "updateRef", op |-> me.op, key |-> me.key, val |-> me.val,
                      base |-> NoCommit, commit |-> c]
       /\ \A q \in Procs \ {p} : proc'[q] = proc[q]
       /\ acked' = acked
  BY DEF CommitTree, GoOn, TypeInv, TypeOK
<1>12. new.tree = EditedTree(ref, me.op, me.key, me.val) /\ new.parent = ref
  BY <1>2
<1>13. new.tree \in Trees /\ (me.op = "put" => new.tree[me.key] = me.val)
  <2>1. Tree(ref) \in Trees /\ new.tree \in Trees
    BY <1>2, <1>3, TreeType DEF TypeInv, Commit
  <2>. QED
    BY <1>2, <1>12, <2>1 DEF EditedTree, Trees
<1>14. c \in Nat \ {NoCommit}
  BY <1>2 DEF NoCommit
<1> HIDE DEF new, c
<1>15. LoneCallsOK'
  <2> SUFFICES ASSUME NEW q \in Procs
               PROVE  LET you == proc'[q] IN
                      /\ q \notin Writers => you.pc \in {"idle", "catFile"}
                      /\ you.pc \in {"keyExists", "commitTree"} => you.base = ref
                      /\ you.pc \in {"commitTree", "updateRef"} /\ you.op = "delete" =>
                            Tree(ref)[you.key] # Absent
                      /\ you.pc = "updateRef" =>
                            /\ you.commit \notin Reachable
                            /\ commits'[you.commit].parent = ref
                            /\ commits'[you.commit].tree =
                                    EditedTree(ref, you.op, you.key, you.val)
                      /\ you.pc = "return" => you.commit \in Reachable
    BY <1>2, <1>6, <1>9, <1>10 DEF LoneCallsOK
  <2>1. CASE q = p
    BY <1>2, <1>4, <1>6, <1>11, <1>12, <2>1 DEF LoneWriterInv, LoneCallsOK
  <2>2. CASE q # p
    <3>1. proc'[q] = proc[q] /\ (proc[q].pc = "updateRef" => proc[q].commit \in DOMAIN commits)
      BY <1>4, <1>11, <2>2 DEF TypeInv, CallsOK
    <3>. QED
      BY <1>4, <3>1 DEF LoneWriterInv, LoneCallsOK
  <2>. QED
    BY <2>1, <2>2
<1>16. ValuesOK'
  <2> SUFFICES ASSUME NEW q \in Procs, proc'[q].pc \in {"updateRef", "return"},
                      proc'[q].op = "put"
               PROVE  Read(proc[q].key, proc[q].commit)' = proc'[q].val
    BY DEF ValuesOK
  <2>1. CASE q = p
    BY <1>4, <1>11, <1>13, <1>14, <2>1 DEF Read, Tree
  <2>2. CASE q # p
    <3>1. proc'[q] = proc[q] /\ proc[q].commit \in DOMAIN commits
      BY <1>4, <1>11, <2>2 DEF TypeInv, CallsOK
    <3>. QED
      BY <1>4, <3>1 DEF LoneWriterInv, ValuesOK, Read, Tree
  <2>. QED
    BY <2>1, <2>2
<1>17. AckedPutDurable'
  BY <1>4, <1>6, <1>11 DEF LoneWriterInv, AckedPutDurable, Read, Tree
<1>. QED
  BY <1>15, <1>16, <1>17 DEF LoneWriterInv

\* update-ref finds the ref where its call found it, and extends the history.
LEMMA LonePublishes ==
    ASSUME TypeInv, LoneWriterInv, NEW p \in Procs, UpdateRef(p)
    PROVE  /\ MayMove(commits[proc[p].commit].parent) /\ p \in Writers
           /\ proc[p].commit \in DOMAIN commits \ Reachable
           /\ Reachable' = {proc[p].commit} \cup Reachable
<1> DEFINE c == proc[p].commit
<1>1. /\ c \in DOMAIN commits \ Reachable /\ c # NoCommit /\ p \in Writers
      /\ commits[c].parent = ref
  BY ReachableIsCreated DEF UpdateRef, TypeInv, CallsOK, LoneWriterInv, LoneCallsOK, NoCommit
<1>2. MayMove(commits[c].parent)
  BY <1>1 DEF MayMove
<1>3. ref' = c /\ commits' = commits
  BY <1>2 DEF UpdateRef
<1>4. CASE ref = NoCommit
  BY <1>1, <1>2, <1>3, <1>4, AncestorsOfRoot DEF Reachable, ReachableFrom
<1>5. CASE ref # NoCommit
  <2>1. Ancestors(commits, c) = {c} \cup Ancestors(commits, ref)
    BY <1>1, <1>5, ReachableIsCreated, AncestorsOfChild
  <2>. QED
    BY <1>1, <1>2, <1>3, <1>5, <2>1 DEF Reachable, ReachableFrom
<1>. QED
  BY <1>1, <1>2, <1>4, <1>5

LEMMA LoneUpdateRef ==
    ASSUME LoneWriter, TypeInv, LoneWriterInv, NEW p \in Procs, UpdateRef(p)
    PROVE  LoneWriterInv'
<1> DEFINE me == proc[p]
<1>1. /\ MayMove(commits[me.commit].parent) /\ p \in Writers
      /\ me.commit \in DOMAIN commits \ Reachable
      /\ Reachable' = {me.commit} \cup Reachable
  BY LonePublishes
<1>2. /\ proc'[p] = [pc |-> "return", op |-> me.op, key |-> me.key, val |-> me.val,
                     base |-> NoCommit, commit |-> me.commit]
      /\ \A q \in Procs \ {p} : proc'[q] = proc[q]
      /\ commits' = commits /\ acked' = acked /\ me.pc = "updateRef"
  BY <1>1 DEF UpdateRef, GoOn, TypeInv, TypeOK
<1>3. \A q \in Procs \ {p} : proc'[q].pc \in {"idle", "catFile"}
  BY <1>1, <1>2 DEF LoneWriter, LoneWriterInv, LoneCallsOK
<1>4. LoneCallsOK'
  BY <1>1, <1>2, <1>3 DEF LoneCallsOK
<1>5. ValuesOK'
  BY <1>2 DEF LoneWriterInv, ValuesOK, Read, Tree
<1>6. AckedPutDurable'
  BY <1>1, <1>2 DEF LoneWriterInv, AckedPutDurable, Read, Tree
<1>. QED
  BY <1>4, <1>5, <1>6 DEF LoneWriterInv

LEMMA LoneReturn ==
    ASSUME TypeInv, LoneWriterInv, NEW p \in Procs, Return(p)
    PROVE  LoneWriterInv'
<1> DEFINE me == proc[p]
<1>1. /\ me.commit \in Reachable /\ proc' = [proc EXCEPT ![p] = Idle]
      /\ ref' = ref /\ commits' = commits
  BY DEF Return, LoneWriterInv, LoneCallsOK
<1>2. CASE me.op = "put"
  <2>1. acked' = acked \cup {[version |-> me.commit, key |-> me.key, val |-> me.val]}
    BY <1>2 DEF Return
  <2>2. Read(me.key, me.commit) = me.val
    BY <1>2 DEF Return, LoneWriterInv, ValuesOK
  <2>3. AckedPutDurable'
    BY <1>1, <2>1, <2>2 DEF LoneWriterInv, AckedPutDurable, Reachable, Read, Tree
  <2>. QED
    BY <1>1, <2>3, LoneLeaves
<1>3. CASE me.op # "put"
  <2>1. acked' = acked
    BY <1>3 DEF Return
  <2>. QED
    BY <1>1, <2>1, LoneKeepsAcked, LoneLeaves
<1>. QED
  BY <1>2, <1>3

\* Every step keeps the invariant of the lone writer.
LEMMA LoneStep ==
    ASSUME LoneWriter, ~RevParseMayFail
    PROVE  TypeInv /\ LoneWriterInv /\ [Next]_vars => LoneWriterInv'
<1> SUFFICES ASSUME TypeInv, LoneWriterInv, [Next]_vars PROVE LoneWriterInv'
  OBVIOUS
<1>1. ASSUME NEW p \in Writers, NEW k \in Keys, Delete(p, k)
      PROVE  LoneWriterInv'
  BY <1>1, GitAssumption, LoneBegin DEF Delete
<1>2. ASSUME NEW p \in Writers, NEW k \in Keys, NEW val \in Values, Put(p, k, val)
      PROVE  LoneWriterInv'
  BY <1>2, GitAssumption, LoneBegin DEF Put
<1>3. ASSUME NEW p \in Writers, KeyExists(p)
      PROVE  LoneWriterInv'
  BY <1>3, GitAssumption, LoneKeyExists
<1>4. ASSUME NEW p \in Writers, CommitTree(p)
      PROVE  LoneWriterInv'
  BY <1>4, GitAssumption, LoneCommitTree
<1>5. ASSUME NEW p \in Writers, UpdateRef(p)
      PROVE  LoneWriterInv'
  BY <1>5, GitAssumption, LoneUpdateRef
<1>6. ASSUME NEW p \in Writers, Return(p)
      PROVE  LoneWriterInv'
  BY <1>6, GitAssumption, LoneReturn
<1>7. ASSUME NEW p \in Procs, NEW k \in Keys, Get(p, k)
      PROVE  LoneWriterInv'
  BY <1>7, LoneBegin DEF Get
<1>8. ASSUME NEW p \in Procs, CatFile(p) \/ GitFails(p) \/ Crash(p)
      PROVE  LoneWriterInv'
  <2>1. proc' = [proc EXCEPT ![p] = Idle] /\ ref' = ref /\ commits' = commits /\ acked' = acked
    BY <1>8 DEF CatFile, GitFails, Crash
  <2>. QED
    BY <2>1, LoneKeepsAcked, LoneLeaves
<1>9. CASE UNCHANGED vars
  BY <1>9 DEF vars, LoneWriterInv, LoneCallsOK, ValuesOK, AckedPutDurable, Reachable,
              EditedTree, Read, Tree
<1>. QED
  BY <1>1, <1>2, <1>3, <1>4, <1>5, <1>6, <1>7, <1>8, <1>9 DEF Next, Write

LEMMA LoneCorrect ==
    ASSUME LoneWriter, ~RevParseMayFail
    PROVE  Spec => [](TypeInv /\ LoneWriterInv)
<1>1. Init => TypeInv /\ LoneWriterInv
  BY TypeInit, LoneInit
<1>2. TypeInv /\ LoneWriterInv /\ [Next]_vars => (TypeInv /\ LoneWriterInv)'
  BY TypeStep, LoneStep
<1>. QED
  BY <1>1, <1>2, PTL DEF Spec

\* With one writer a put that returned is never lost, the one that creates the
\* ref included.
THEOREM LoneWritersPutsAreDurable ==
    ASSUME LoneWriter, ~RevParseMayFail
    PROVE  Spec => []AckedPutDurable
<1>1. TypeInv /\ LoneWriterInv => AckedPutDurable
  BY DEF LoneWriterInv
<1>. QED
  BY <1>1, LoneCorrect, PTL

LEMMA ContractInit ==
    ASSUME Init
    PROVE  Contract!Init
<1>1. CASE ~Seeded
  <2>1. ref = NoCommit
    BY <1>1 DEF Init
  <2>2. Tree(ref) = EmptyTree /\ Reachable = {}
    BY <2>1 DEF Tree, Reachable, ReachableFrom
  <2>3. Snapshots = [v \in {} |-> Contract!EmptyMap] /\ EmptyTree = Contract!EmptyMap
    BY <2>2 DEF Snapshots, Contract!EmptyMap, EmptyTree
  <2>. QED
    BY <2>2, <2>3 DEF Contract!Init
<1>2. CASE Seeded
  <2>1. PICK m \in WeakContract!Maps, v \in 1..MaxCommits :
          Tree(ref) = m /\ Snapshots = [w \in {v} |-> m]
    BY <1>2, SeededInit
  <2>2. m \in Contract!Maps
    BY DEF WeakContract!Maps, Contract!Maps
  <2>. QED
    BY <2>1, <2>2 DEF Contract!Init
<1>. QED
  BY <1>1, <1>2

\* The lone writer's update-ref is a put or a delete of the contract.
LEMMA ContractUpdateRef ==
    ASSUME Worktree = [k \in Keys |-> Absent],
           TypeInv, LoneWriterInv, NEW p \in Procs, UpdateRef(p)
    PROVE  Contract!Next
<1> DEFINE me == proc[p]
           c  == me.commit
           v == IF me.op = "put" THEN me.val ELSE Absent
           m == [Tree(ref) EXCEPT ![me.key] = v]
<1>1. /\ MayMove(commits[c].parent) /\ c \in DOMAIN commits \ Reachable
      /\ Reachable' = {c} \cup Reachable
  BY LonePublishes
<1>2. ref' = c /\ commits' = commits
  BY <1>1 DEF UpdateRef
<1>3. /\ me.key \in Keys /\ me.op \in {"put", "delete"}
      /\ (me.op = "put" => me.val \in Values) /\ c # NoCommit /\ c \in 1..MaxCommits
  BY <1>1, ReachableIsCreated, GitAssumption DEF UpdateRef, TypeInv, TypeOK, CallsOK, NoCommit
<1>4. commits[c].tree = EditedTree(ref, me.op, me.key, me.val)
  BY DEF UpdateRef, LoneWriterInv, LoneCallsOK
<1>5. commits[c].tree = m
  BY <1>3, <1>4 DEF EditedTree
<1>6. Tree(ref)' = m
  BY <1>2, <1>3, <1>5 DEF Tree
<1> HIDE DEF m
<1>7. Snapshots' = [w \in DOMAIN Snapshots \cup {c} |-> IF w = c THEN m ELSE Snapshots[w]]
  BY <1>1, <1>2, <1>5 DEF Snapshots
<1>8. c \in (1..MaxCommits) \ DOMAIN Snapshots
  BY <1>1, <1>3 DEF Snapshots
<1>9. Contract!Publish(m) /\ Tree(ref) \in Contract!Bases
  BY <1>6, <1>7, <1>8 DEF Contract!Publish, Contract!Bases
<1>10. CASE me.op = "put"
  <2>1. Contract!Put(me.key, me.val)
    BY <1>9, <1>10 DEF Contract!Put, m
  <2>. QED
    BY <1>3, <1>10, <2>1 DEF Contract!Next
<1>11. CASE me.op = "delete"
  <2>1. Tree(ref)[me.key] # Absent
    BY <1>11 DEF UpdateRef, LoneWriterInv, LoneCallsOK
  <2>2. Contract!Delete(me.key)
    BY <1>9, <1>11, <2>1 DEF Contract!Delete, m
  <2>. QED
    BY <1>3, <2>2 DEF Contract!Next
<1>. QED
  BY <1>3, <1>10, <1>11

LEMMA ContractStep ==
    ASSUME Worktree = [k \in Keys |-> Absent], TypeInv, LoneWriterInv, [Next]_vars
    PROVE  Contract!Next \/ UNCHANGED <<Tree(ref), Snapshots>>
<1>1. ASSUME NEW p \in Writers, CommitTree(p)
      PROVE  UNCHANGED <<Tree(ref), Snapshots>>
  BY <1>1, GitAssumption, RefinesCommitTree
<1>2. ASSUME NEW p \in Writers, UpdateRef(p)
      PROVE  Contract!Next
  BY <1>2, GitAssumption, ContractUpdateRef
<1>3. CASE ref' = ref /\ commits' = commits
  BY <1>3, RefinesStutter
<1>. QED
  BY <1>1, <1>2, <1>3
     DEF Next, Write, vars, Put, Delete, Get, Begin, KeyExists, Return, CatFile,
         GitFails, Crash

\* With one writer, and no file of the user's at a stored path, the subprocess
\* store implements the contract of ref_store.zig: every write edits the latest
\* map, and a delete publishes only where the key is there.
THEOREM LoneWriterImplementsContract ==
    ASSUME LoneWriter, ~RevParseMayFail, Worktree = [k \in Keys |-> Absent]
    PROVE  Spec => ImplementsContract
<1>1. Init => Contract!Init
  BY ContractInit
<1>2. TypeInv /\ LoneWriterInv /\ [Next]_vars => [Contract!Next]_(Contract!vars)
  BY ContractStep DEF Contract!vars
<1>. QED
  BY <1>1, <1>2, LoneCorrect, PTL DEF Spec, ImplementsContract, Contract!Spec
=============================================================================
