----------------------- MODULE GitHubApiRefStoreProofs -----------------------
(***************************************************************************)
(* The GitHub store for any number of clients, keys, values, commits,      *)
(* retries and lost answers: it implements the strong contract of          *)
(* RefStore, counts every write once, reads nothing older than what was    *)
(* published when the call began, skips nothing of a history, and gives a  *)
(* put up only where others succeed.                                       *)
(***************************************************************************)
EXTENDS GitHubApiRefStore, FiniteSetTheorems, TLAPS

\* Past, of any row of commits.
PastIn(cs, c) == IF c = NoCommit THEN {} ELSE cs[c].past

\* A commit's past is itself and its parent's past, all of it older.
GraphInv ==
    /\ commits \in Seq(Commit) /\ Len(commits) <= MaxCommits
    /\ ref \in 0..Len(commits)
    /\ \A c \in 1..Len(commits) :
        /\ commits[c].parent \in 0..(c - 1)
        /\ commits[c].past = {c} \cup PastIn(commits, commits[c].parent)
        /\ commits[c].past \subseteq 1..c
        /\ \A d \in commits[c].past : commits[d].past \subseteq commits[c].past

\* A call is a record of these fields.
Fields == {"pc", "op", "key", "val", "start", "base", "commit", "write",
           "attempt", "sent", "skip", "listed"}

Shaped(me) == me = [f \in Fields |-> me[f]]

\* A write that waits for the ref to move edits one key of what was published
\* when it read the ref; a delete found its key there.
MoveOK(me) ==
    /\ me.commit \in 1..Len(commits)
    /\ commits[me.commit].parent = me.base
    /\ me.base \in {NoCommit} \cup Reachable
    /\ me.key \in Keys
    /\ commits[me.commit].tree = [Tree(me.base) EXCEPT ![me.key] = me.val]
    /\ \/ me.op = "put" /\ me.val \in Values
       \/ me.op = "delete" /\ me.val = Absent /\ Tree(me.base)[me.key] # Absent

CallOK(me) ==
    /\ Shaped(me)
    /\ me.pc = "moveRef" => MoveOK(me)
    /\ me.pc = "readRef" => me.op = "put" /\ me.key \in Keys /\ me.val \in Values

CallsInv == call = [p \in Clients |-> call[p]] /\ \A p \in Clients : CallOK(call[p])

Active(me) == me.pc \in {"readRef", "moveRef"}

\* The write a call in flight works on is its own, has not failed and, unless a
\* request was repeated after it had moved the ref, is not published.
WriteOK(p) ==
    LET me == call[p] IN
    /\ me.write \in 1..Len(commits)
    /\ me.write \notin failed
    /\ me.pc = "moveRef" => commits[me.commit].write = me.write
    /\ \A q \in Clients \ {p} : Active(call[q]) => call[q].write # me.write
    /\ ~unheard => \A c \in Reachable : commits[c].write # me.write

WriteInv ==
    /\ \A c \in 1..Len(commits) : commits[c].write \in 1..Len(commits)
    /\ failed \subseteq 1..Len(commits)
    /\ unheard \in BOOLEAN
    /\ \A p \in Clients : Active(call[p]) => WriteOK(p)
    /\ EveryWriteCountsOnce

IInv == GraphInv /\ CallsInv /\ WriteInv

-----------------------------------------------------------------------------
(* Commits *)

LEMMA PastTyped ==
    ASSUME GraphInv
    PROVE  /\ DOMAIN commits = 1..Len(commits) /\ Len(commits) \in Nat /\ ref \in Nat
           /\ \A c \in 1..Len(commits) :
                c # NoCommit /\ Past(c) = commits[c].past /\ Tree(c) = commits[c].tree
           /\ \A c \in 0..Len(commits) : Past(c) \subseteq 1..c /\ Tree(c) \in Trees
           /\ \A c \in 1..Len(commits) : c \in Past(c)
           /\ Reachable \subseteq 1..ref
<1>1. /\ DOMAIN commits = 1..Len(commits) /\ Len(commits) \in Nat /\ ref \in Nat
      /\ \A c \in 1..Len(commits) : commits[c] \in Commit /\ c # NoCommit
  BY DEF GraphInv, NoCommit
<1>2. \A c \in 1..Len(commits) : Past(c) = commits[c].past /\ Tree(c) = commits[c].tree
  BY <1>1 DEF Past, Tree
<1>3. \A c \in 1..Len(commits) : commits[c].tree \in Trees
  BY <1>1 DEF Commit
<1>4. EmptyTree \in Trees
  BY DEF EmptyTree, Trees
<1>5. \A c \in 0..Len(commits) : c = NoCommit \/ c \in 1..Len(commits)
  BY <1>1 DEF NoCommit
<1>6. \A c \in 0..Len(commits) : Past(c) \subseteq 1..c /\ Tree(c) \in Trees
  BY <1>2, <1>3, <1>4, <1>5 DEF GraphInv, Past, Tree
<1>7. \A c \in 1..Len(commits) : c \in Past(c)
  BY <1>2 DEF GraphInv
<1>. QED
  BY <1>1, <1>2, <1>6, <1>7 DEF GraphInv, Reachable

\* A new commit changes nothing of those before it.
LEMMA CommitAppended ==
    ASSUME GraphInv, NEW base \in 0..Len(commits), NEW me, NEW write \in Nat,
           me.key \in Keys, me.val \in Values \cup {Absent},
           Len(commits) + 1 <= MaxCommits, ref' = ref,
           commits' = Append(commits, NewCommit(me, base, write))
    PROVE  /\ GraphInv'
           /\ Len(commits') = Len(commits) + 1
           /\ \A c \in 1..Len(commits) : commits'[c] = commits[c]
           /\ \A c \in 0..Len(commits) : Past(c)' = Past(c) /\ Tree(c)' = Tree(c)
           /\ commits'[Len(commits) + 1].parent = base
           /\ commits'[Len(commits) + 1].write = write
           /\ commits'[Len(commits) + 1].tree = [Tree(base) EXCEPT ![me.key] = me.val]
<1> DEFINE n == Len(commits)
           new == NewCommit(me, base, write)
<1>1. n \in Nat /\ commits \in Seq(Commit) /\ ref \in 0..n
  BY DEF GraphInv
<1>2. /\ new.parent = base /\ new.write = write
      /\ new.past = Past(base) \cup {n + 1}
      /\ new.tree = [Tree(base) EXCEPT ![me.key] = me.val]
  BY DEF NewCommit
<1>3. new.tree \in Trees /\ new.past \in SUBSET Nat
  <2>1. Past(base) \subseteq 1..base /\ Tree(base) \in Trees
    BY PastTyped
  <2>. QED
    BY <1>1, <1>2, <2>1 DEF Trees
<1>4. new \in Commit
  BY <1>1, <1>2, <1>3 DEF NewCommit, Commit
<1> HIDE DEF new
<1>5. /\ commits' \in Seq(Commit) /\ Len(commits') = n + 1
      /\ \A c \in 1..n : commits'[c] = commits[c]
      /\ commits'[n + 1] = new
  <2>1. commits' = Append(commits, new)
    BY DEF new
  <2>. QED
    BY <1>1, <1>4, <2>1
<1>6. \A c \in 0..n : Past(c)' = Past(c) /\ Tree(c)' = Tree(c)
  <2>1. \A c \in 0..n : c = NoCommit \/ c \in 1..n
    BY <1>1 DEF NoCommit
  <2>. QED
    BY <1>5, <2>1 DEF Past, Tree
<1>7. ASSUME NEW c \in 1..(n + 1)
      PROVE  /\ commits'[c].parent \in 0..(c - 1)
             /\ commits'[c].past = {c} \cup PastIn(commits', commits'[c].parent)
             /\ commits'[c].past \subseteq 1..c
             /\ \A d \in commits'[c].past : commits'[d].past \subseteq commits'[c].past
  <2>1. CASE c \in 1..n
    <3>1. /\ commits'[c] = commits[c] /\ commits[c].past \subseteq 1..c
          /\ commits[c].past = {c} \cup PastIn(commits, commits[c].parent)
          /\ \A d \in commits[c].past : commits[d].past \subseteq commits[c].past
      BY <1>5, <2>1 DEF GraphInv
    <3>2. \A d \in commits[c].past : d \in 1..n /\ commits'[d] = commits[d]
      BY <1>1, <1>5, <2>1, <3>1
    <3>3. commits[c].parent \in 0..(c - 1)
      BY <2>1 DEF GraphInv
    <3>4. commits[c].parent = NoCommit \/ commits[c].parent \in 1..n
      BY <1>1, <2>1, <3>3 DEF NoCommit
    <3>5. PastIn(commits', commits[c].parent) = PastIn(commits, commits[c].parent)
      BY <1>5, <3>4 DEF PastIn
    <3>. QED
      BY <3>1, <3>2, <3>3, <3>5
  <2>2. CASE c = n + 1
    <3>1. commits'[c] = new /\ base \in 0..(c - 1) /\ (base = NoCommit \/ base \in 1..n)
      BY <1>1, <1>5, <2>2 DEF NoCommit
    <3>2. Past(base) \subseteq 1..base
      BY PastTyped
    <3>3. new.past = {c} \cup Past(base) /\ new.parent = base
      BY <1>2, <2>2
    <3>4. new.past \subseteq 1..c
      BY <1>1, <2>2, <3>2, <3>3
    <3>5. ASSUME NEW d \in Past(base) PROVE commits'[d].past \subseteq Past(base)
      <4>1. base # NoCommit /\ base \in 1..n /\ Past(base) = commits[base].past
        BY <3>1, <3>5 DEF Past
      <4>2. d \in 1..n /\ commits[d].past \subseteq commits[base].past
        BY <1>1, <3>2, <3>5, <4>1 DEF GraphInv
      <4>. QED
        BY <1>5, <4>1, <4>2
    <3>6. PastIn(commits', base) = Past(base)
      BY <1>5, <3>1 DEF PastIn, Past
    <3>7. \A d \in new.past : commits'[d].past \subseteq new.past
      BY <3>1, <3>3, <3>5
    <3>. QED
      BY <3>1, <3>3, <3>4, <3>6, <3>7
  <2>. QED
    BY <1>1, <2>1, <2>2
<1>8. GraphInv'
  <2>1. Len(commits') = n + 1 /\ n + 1 <= MaxCommits /\ ref' \in 0..(n + 1)
    BY <1>1, <1>5
  <2>. QED
    BY <1>5, <1>7, <2>1 DEF GraphInv
<1>. QED
  BY <1>2, <1>5, <1>6, <1>8

\* What the ref moves to when the server accepts it: the same commit, or the
\* one that edits what the ref pointed at.
LEMMA MovePublishes ==
    ASSUME GraphInv, NEW me, MoveOK(me), Accepts(me)
    PROVE  \/ ref = me.commit
           \/ /\ ref = me.base
              /\ me.commit \notin Reachable
              /\ Past(me.commit) = Reachable \cup {me.commit}
<1> DEFINE c == me.commit
           b == me.base
<1>1. /\ c \in 1..Len(commits) /\ commits[c].parent = b /\ b \in 0..(c - 1)
      /\ b = NoCommit \/ b \in Reachable
  BY DEF MoveOK, GraphInv
<1>2. Len(commits) \in Nat /\ ref \in Nat /\ Reachable \subseteq 1..ref
  BY PastTyped
<1>3. Past(c) = {c} \cup Past(b) /\ Past(b) \subseteq 1..b
  <2>1. commits[c].past = {c} \cup PastIn(commits, b)
    BY <1>1 DEF GraphInv
  <2>2. PastIn(commits, b) = Past(b)
    BY DEF PastIn, Past
  <2>3. b \in 0..Len(commits)
    BY <1>1, <1>2
  <2>. QED
    BY <1>1, <2>1, <2>2, <2>3, PastTyped
<1>4. CASE b = NoCommit
  <2>1. ref = NoCommit
    BY <1>1, <1>4 DEF Accepts
  <2>2. Reachable = {}
    BY <2>1 DEF Reachable, Past
  <2>. QED
    BY <1>3, <1>4, <2>1, <2>2 DEF Past
<1>5. CASE b # NoCommit
  <2>1. ref \in Past(c) /\ b \in 1..ref
    BY <1>1, <1>2, <1>5 DEF Accepts
  <2>2. CASE ref = c
    BY <2>2
  <2>3. CASE ref # c
    <3>1. ref \in 1..b
      BY <1>3, <2>1, <2>3
    <3>2. ref = b
      BY <1>1, <1>2, <2>1, <3>1
    <3>3. c \notin Reachable
      BY <1>1, <1>2, <3>2
    <3>. QED
      BY <1>3, <3>2, <3>3 DEF Reachable
  <2>. QED
    BY <2>2, <2>3
<1>. QED
  BY <1>4, <1>5

-----------------------------------------------------------------------------
(* The lists of commits *)

\* The places of the commits of a list are 1, 2, ... up to its length, ...
LEMMA PlaceTyped ==
    ASSUME NEW S \in SUBSET Nat, IsFiniteSet(S), NEW c \in S
    PROVE  Place(c, S) \in 1..Cardinality(S)
<1> DEFINE P == {d \in S : d >= c}
<1>1. IsFiniteSet(P) /\ Cardinality(P) <= Cardinality(S) /\ Cardinality(S) \in Nat
  BY FS_Subset, FS_CardinalityType
<1>2. Cardinality(P) \in Nat
  BY <1>1, FS_CardinalityType
<1>3. Cardinality(P) # 0
  <2>1. c \in P
    OBVIOUS
  <2>2. Cardinality(P) = 0 <=> P = {}
    BY <1>1, FS_EmptySet
  <2>. QED
    BY <2>1, <2>2
<1>. QED
  BY <1>1, <1>2, <1>3 DEF Place

\* ... an older commit's behind a newer one's, ...
LEMMA PlaceOrders ==
    ASSUME NEW S \in SUBSET Nat, IsFiniteSet(S), NEW c \in S, NEW d \in S, c < d
    PROVE  Place(d, S) < Place(c, S)
<1> DEFINE P == {e \in S : e >= c}
           Q == {e \in S : e >= d}
<1>1. IsFiniteSet(P) /\ Q \in SUBSET P /\ c \in P /\ c \notin Q
  <2>1. P \in SUBSET S
    OBVIOUS
  <2>2. IsFiniteSet(P)
    BY <2>1, FS_Subset
  <2>3. \A e \in Q : e \in P
    OBVIOUS
  <2>4. c \in P /\ c \notin Q
    OBVIOUS
  <2> HIDE DEF P, Q
  <2>. QED
    BY <2>2, <2>3, <2>4
<1> HIDE DEF P, Q
<1>2. /\ IsFiniteSet(Q) /\ Cardinality(Q) <= Cardinality(P)
      /\ Cardinality(P) = Cardinality(Q) => P = Q
  BY <1>1, FS_Subset
<1>3. Cardinality(P) \in Nat /\ Cardinality(Q) \in Nat /\ Cardinality(P) # Cardinality(Q)
  BY <1>1, <1>2, FS_CardinalityType
<1>4. Cardinality(Q) < Cardinality(P)
  BY <1>2, <1>3
<1>. QED
  BY <1>4 DEF Place, P, Q

\* ... so that every place is some commit's.
LEMMA PlacesAreTaken ==
    ASSUME NEW S \in SUBSET Nat, IsFiniteSet(S), NEW i \in 1..Cardinality(S)
    PROVE  \E c \in S : Place(c, S) = i
<1> DEFINE f == [c \in S |-> Place(c, S)]
           n == Cardinality(S)
<1>1. n \in Nat
  BY FS_CardinalityType
<1>2. IsFiniteSet(1..n) /\ Cardinality(1..n) = n
  BY <1>1, FS_Interval
<1>3. f \in [S -> 1..n]
  BY PlaceTyped
<1>4. ASSUME NEW c \in S, NEW d \in S, f[c] = f[d] PROVE c = d
  <2>1. Place(c, S) = Place(d, S) /\ Place(c, S) \in Int /\ c \in Int /\ d \in Int
    BY <1>1, <1>4, PlaceTyped
  <2>2. c < d => Place(d, S) < Place(c, S)
    BY PlaceOrders
  <2>3. d < c => Place(c, S) < Place(d, S)
    BY PlaceOrders
  <2>. QED
    BY <2>1, <2>2, <2>3
<1> HIDE DEF f
<1>5. f \in Injection(S, 1..n)
  BY <1>3, <1>4 DEF Injection, IsInjective
<1>6. f \in Surjection(S, 1..n)
  BY <1>2, <1>5, FS_Injection
<1>7. \E c \in S : f[c] = i
  BY <1>6 DEF Surjection
<1>. QED
  BY <1>7 DEF f

LEMMA NewestFirstLists ==
    ASSUME NEW S \in SUBSET Nat, IsFiniteSet(S)
    PROVE  /\ NewestFirst(S) \in Seq(Nat)
           /\ \A c \in S : \E i \in DOMAIN NewestFirst(S) : NewestFirst(S)[i] = c
<1> DEFINE n == Cardinality(S)
           s == NewestFirst(S)
<1>1. n \in Nat /\ DOMAIN s = 1..n
  BY FS_CardinalityType DEF NewestFirst
<1>2. ASSUME NEW i \in 1..n PROVE s[i] \in S /\ Place(s[i], S) = i
  <2>1. \E c \in S : Place(c, S) = i
    BY PlacesAreTaken
  <2>. QED
    BY <2>1 DEF NewestFirst
<1>3. s \in Seq(Nat)
  <2>1. s \in [1..n -> Nat]
    BY <1>2 DEF NewestFirst
  <2>. QED
    BY <1>1, <2>1
<1>4. ASSUME NEW c \in S PROVE \E i \in DOMAIN s : s[i] = c
  <2>1. PICK i \in 1..n : i = Place(c, S)
    BY PlaceTyped
  <2>2. s[i] \in S /\ Place(s[i], S) = Place(c, S)
    BY <1>2, <2>1
  <2>3. s[i] = c
    <3>1. s[i] \in Int /\ c \in Int /\ Place(c, S) \in Int
      <4>1. \A e \in S : e \in Int
        OBVIOUS
      <4>2. i \in Int
        OBVIOUS
      <4>. QED
        BY <2>1, <2>2, <4>1, <4>2
    <3>2. s[i] < c => Place(c, S) < Place(s[i], S)
      BY <2>2, PlaceOrders
    <3>3. c < s[i] => Place(s[i], S) < Place(c, S)
      BY <2>2, PlaceOrders
    <3>. QED
      BY <2>2, <3>1, <3>2, <3>3
  <2>. QED
    BY <1>1, <2>1, <2>3
<1>. QED
  BY <1>3, <1>4

\* A list that grows moves no commit forward.
LEMMA PlaceGrows ==
    ASSUME NEW T \in SUBSET Nat, IsFiniteSet(T), NEW S \in SUBSET T, NEW c
    PROVE  Place(c, S) <= Place(c, T) /\ Place(c, S) \in Nat /\ Place(c, T) \in Nat
<1> DEFINE P == {d \in S : d >= c}
           Q == {d \in T : d >= c}
<1>1. IsFiniteSet(Q) /\ P \in SUBSET Q
  BY FS_Subset
<1> HIDE DEF P, Q
<1>2. /\ IsFiniteSet(P) /\ Cardinality(P) <= Cardinality(Q)
      /\ Cardinality(P) \in Nat /\ Cardinality(Q) \in Nat
  BY <1>1, FS_Subset, FS_CardinalityType
<1>. QED
  BY <1>2 DEF Place, P, Q

-----------------------------------------------------------------------------
(* Calls *)

\* What an action changes of a call, field by field.
Same(x, me) ==
    /\ Shaped(x) /\ x.op = me.op /\ x.key = me.key /\ x.val = me.val

LEMMA RefusedCall ==
    ASSUME NEW me, Shaped(me), NEW pc, NEW attempt, NEW sent, NEW x,
           x = [me EXCEPT !.pc = pc, !.attempt = attempt, !.sent = sent]
    PROVE  Same(x, me) /\ x.pc = pc /\ x.commit = me.commit /\ x.write = me.write
BY DEF Shaped, Fields, Same

LEMMA SentCall ==
    ASSUME NEW me, Shaped(me), NEW sent, NEW x, x = [me EXCEPT !.sent = sent]
    PROVE  /\ Same(x, me) /\ x.pc = me.pc /\ x.base = me.base
           /\ x.commit = me.commit /\ x.write = me.write
BY DEF Shaped, Fields, Same

LEMMA IdleOK == CallOK(Idle) /\ ~Active(Idle) /\ Idle.pc = "idle"
<1>1. Shaped(Idle)
  BY DEF Idle, Shaped, Fields
<1>. QED
  BY <1>1 DEF Idle, CallOK, Active

LEMMA BegunOK ==
    ASSUME NEW op, NEW k, NEW val
    PROVE  LET me == Begun(op, k, val)
           IN  /\ Shaped(me) /\ me.op = op /\ me.key = k /\ me.val = val
               /\ me.pc = "idle" /\ me.write = NoCommit
BY DEF Begun, Idle, Shaped, Fields

\* A call that waits for the ref is not disturbed by other commits, nor by
\* other moves of the ref.
LEMMA MoveOKStable ==
    ASSUME GraphInv, NEW me, MoveOK(me),
           Len(commits) <= Len(commits)', Len(commits)' \in Nat,
           \A c \in 1..Len(commits) : commits'[c] = commits[c],
           Reachable \subseteq Reachable'
    PROVE  MoveOK(me)'
<1>1. /\ me.commit \in 1..Len(commits) /\ Len(commits) \in Nat
      /\ me.base \in {NoCommit} \cup Reachable
  BY PastTyped DEF MoveOK
<1>2. me.commit \in 1..Len(commits)' /\ commits'[me.commit] = commits[me.commit]
  BY <1>1
<1>3. me.base = NoCommit \/ me.base \in 1..Len(commits)
  BY <1>1, PastTyped DEF GraphInv
<1>4. Tree(me.base)' = Tree(me.base)
  BY <1>3 DEF Tree, NoCommit
<1>. QED
  BY <1>1, <1>2, <1>4 DEF MoveOK, NoCommit

\* A step of one client leaves the calls of the others as they should be.
LEMMA CallsStep ==
    ASSUME GraphInv, CallsInv, NEW p \in Clients,
           call' = [call EXCEPT ![p] = call'[p]], CallOK(call[p])',
           Len(commits) <= Len(commits)', Len(commits)' \in Nat,
           \A c \in 1..Len(commits) : commits'[c] = commits[c],
           Reachable \subseteq Reachable'
    PROVE  CallsInv'
<1>1. call' = [q \in Clients |-> IF q = p THEN call'[p] ELSE call[q]]
  BY DEF CallsInv
<1>2. ASSUME NEW q \in Clients PROVE CallOK(call[q])'
  <2>1. CASE q = p
    BY <2>1
  <2>2. CASE q # p
    <3>1. call'[q] = call[q] /\ CallOK(call[q])
      BY <1>1, <2>2 DEF CallsInv
    <3>2. ASSUME NEW m, CallOK(m) PROVE CallOK(m)'
      <4>1. m.pc = "moveRef" => MoveOK(m)'
        BY <3>2, MoveOKStable DEF CallOK
      <4>. QED
        BY <3>2, <4>1 DEF CallOK, Shaped
    <3>. QED
      BY <3>1, <3>2
  <2>. QED
    BY <2>1, <2>2
<1>3. call' = [q \in Clients |-> call'[q]]
  BY <1>1
<1>. QED
  BY <1>2, <1>3 DEF CallsInv

-----------------------------------------------------------------------------
(* Steps *)

\* What can be read of the store stays what it is ...
Still == ref' = ref /\ \A c \in 1..Len(commits) : commits'[c] = commits[c]

\* ... or the commit of one call is added to it, on top of the latest.
Publishes(me) ==
    /\ commits' = commits
    /\ MoveOK(me) /\ ref = me.base /\ ref' = me.commit
    /\ me.commit \notin Reachable
    /\ Reachable' = Reachable \cup {me.commit}

\* A step that creates no commit: it publishes the write of p at most, which p
\* then forgets unless the request is one that was repeated, or fails it.
LEMMA WritesStep ==
    ASSUME IInv, NEW p \in Clients, commits' = commits, GraphInv',
           call' = [call EXCEPT ![p] = call'[p]],
           Active(call'[p]) =>
                /\ Active(call[p]) /\ failed' = failed
                /\ call'[p].write = call[p].write /\ call'[p].commit = call[p].commit
                /\ call'[p].pc = "moveRef" => call[p].pc = "moveRef",
           \/ failed' = failed /\ Reachable' = Reachable
           \/ failed' = failed \cup {call[p].write} /\ Reachable' = Reachable /\ Active(call[p])
           \/ /\ failed' = failed
              /\ call[p].pc = "moveRef" /\ call[p].commit \notin Reachable
              /\ Reachable' = Reachable \cup {call[p].commit}
              /\ unheard' \/ ~Active(call'[p]),
           unheard' \in BOOLEAN, unheard => unheard'
    PROVE  WriteInv'
<1>1. \A q \in Clients \ {p} : call'[q] = call[q]
  BY DEF IInv, CallsInv
<1>2. /\ \A c \in 1..Len(commits) : commits[c].write \in 1..Len(commits)
      /\ failed \subseteq 1..Len(commits)
      /\ \A q \in Clients : Active(call[q]) => WriteOK(q)
      /\ Reachable' \subseteq 1..Len(commits)
      /\ EveryWriteCountsOnce
  <2>1. Reachable' \subseteq 1..Len(commits')
    <3>1. ref' = NoCommit \/ ref' \in 1..Len(commits')
      BY DEF GraphInv, NoCommit
    <3>2. ref' \in 1..Len(commits') => commits'[ref'].past \subseteq 1..Len(commits')
      BY DEF GraphInv
    <3>. QED
      BY <3>1, <3>2 DEF Reachable, Past
  <2>. QED
    BY <2>1 DEF IInv, WriteInv
<1>3. Active(call[p]) =>
        /\ call[p].write \in (1..Len(commits)) \ failed
        /\ \A q \in Clients \ {p} : Active(call[q]) => call[q].write # call[p].write
        /\ ~unheard => \A c \in Reachable : commits[c].write # call[p].write
        /\ call[p].pc = "moveRef" => commits[call[p].commit].write = call[p].write
  BY <1>2 DEF WriteOK
<1>4. failed' \subseteq 1..Len(commits) /\ (call[p].pc = "moveRef" => Active(call[p]))
  BY <1>2, <1>3 DEF Active
<1>5. ASSUME NEW q \in Clients, Active(call'[q]) PROVE WriteOK(q)'
  <2>1. CASE q = p
    BY <1>1, <1>2, <1>3, <1>5, <2>1 DEF WriteOK
  <2>2. CASE q # p
    <3>1. call'[q] = call[q] /\ WriteOK(q)
      BY <1>1, <1>2, <1>5, <2>2
    <3>2. call[q].write \notin failed'
      BY <1>3, <1>5, <2>2, <3>1 DEF WriteOK
    <3>3. \A o \in Clients \ {q} : Active(call'[o]) => call'[o].write # call[q].write
      BY <1>1, <1>3, <1>5, <2>2, <3>1 DEF WriteOK
    <3>4. ~unheard' => \A c \in Reachable' : commits[c].write # call[q].write
      BY <1>3, <1>4, <1>5, <2>2, <3>1 DEF WriteOK
    <3>. QED
      BY <3>1, <3>2, <3>3, <3>4 DEF WriteOK
  <2>. QED
    BY <2>1, <2>2
<1>6. EveryWriteCountsOnce'
  <2>1. ASSUME ~unheard', NEW c \in Reachable' PROVE commits[c].write \notin failed'
    BY <1>2, <1>3, <1>4, <2>1 DEF EveryWriteCountsOnce
  <2>2. ASSUME ~unheard', NEW c \in Reachable', NEW d \in Reachable' \ {c}
        PROVE  commits[c].write # commits[d].write
    BY <1>2, <1>3, <1>4, <2>2 DEF EveryWriteCountsOnce
  <2>. QED
    BY <2>1, <2>2 DEF EveryWriteCountsOnce
<1>. QED
  BY <1>2, <1>4, <1>5, <1>6 DEF WriteInv

\* A step that neither creates a commit nor moves the ref, after which p waits
\* for nothing of its own.
LEMMA QuietStep ==
    ASSUME IInv, NEW p \in Clients, UNCHANGED <<server, failed, unheard>>,
           call' = [call EXCEPT ![p] = call'[p]],
           Shaped(call'[p]), ~Active(call'[p])
    PROVE  IInv' /\ Still
<1>1. commits' = commits /\ ref' = ref /\ Reachable' = Reachable /\ GraphInv'
  BY DEF server, Reachable, Past, GraphInv, IInv
<1>2. CallOK(call[p])'
  BY DEF CallOK, Active
<1>3. Len(commits) \in Nat
  BY PastTyped DEF IInv
<1>4. CallsInv'
  BY <1>1, <1>2, <1>3, CallsStep DEF IInv
<1>5. WriteInv'
  BY <1>1, WritesStep DEF IInv, WriteInv
<1>. QED
  BY <1>1, <1>4, <1>5 DEF IInv, Still

\* A request that moves the ref, or may have: p goes on as it was or forgets it.
LEMMA MoveStep ==
    ASSUME IInv, NEW p \in Clients, call[p].pc = "moveRef", commits' = commits,
           failed' = failed, unheard' \in BOOLEAN, unheard => unheard',
           \/ ref' = ref
           \/ Accepts(call[p]) /\ ref' = call[p].commit,
           call' = [call EXCEPT ![p] = call'[p]],
           \/ call'[p] = Idle
           \/ /\ call'[p] = call[p] \/ call'[p] = [call[p] EXCEPT !.sent = 1]
              /\ ref' # ref => unheard'
    PROVE  IInv' /\ (Still \/ Publishes(call[p]))
<1>1. GraphInv /\ CallOK(call[p]) /\ MoveOK(call[p]) /\ Len(commits) \in Nat
  BY PastTyped DEF IInv, CallsInv, CallOK
<1>2. GraphInv'
  BY <1>1 DEF GraphInv, MoveOK
<1>3. \/ ref' = ref /\ Reachable' = Reachable
      \/ /\ ref = call[p].base /\ ref' = call[p].commit
         /\ call[p].commit \notin Reachable
         /\ Reachable' = Reachable \cup {call[p].commit}
  <2>1. CASE ref' = ref
    BY <2>1 DEF Reachable, Past
  <2>2. CASE Accepts(call[p]) /\ ref' = call[p].commit
    <3>1. Reachable' = Past(call[p].commit)
      BY <2>2 DEF Reachable, Past
    <3>2. \/ ref = call[p].commit
          \/ /\ ref = call[p].base /\ call[p].commit \notin Reachable
             /\ Past(call[p].commit) = Reachable \cup {call[p].commit}
      BY <1>1, <2>2, MovePublishes
    <3>. QED
      BY <2>1, <2>2, <3>1, <3>2
  <2>. QED
    BY <2>1, <2>2
<1>4. /\ CallOK(call'[p])
      /\ Active(call'[p]) =>
            /\ call'[p].pc = "moveRef" /\ Active(call[p])
            /\ call'[p].write = call[p].write /\ call'[p].commit = call[p].commit
  <2>1. CASE call'[p] = Idle
    BY <2>1, IdleOK
  <2>2. CASE call'[p] = call[p]
    BY <1>1, <2>2 DEF Active
  <2>3. CASE call'[p] = [call[p] EXCEPT !.sent = 1]
    <3>1. /\ Shaped(call'[p]) /\ call'[p].pc = call[p].pc /\ call'[p].base = call[p].base
          /\ call'[p].commit = call[p].commit /\ call'[p].write = call[p].write
          /\ call'[p].op = call[p].op /\ call'[p].key = call[p].key
          /\ call'[p].val = call[p].val
      <4>1. Shaped(call[p])
        BY <1>1 DEF CallOK
      <4>2. Same(call'[p], call[p])
        BY <2>3, <4>1, SentCall
      <4>3. /\ call'[p].pc = call[p].pc /\ call'[p].base = call[p].base
            /\ call'[p].commit = call[p].commit /\ call'[p].write = call[p].write
        BY <2>3, <4>1, SentCall
      <4>. QED
        BY <4>2, <4>3 DEF Same
    <3>. QED
      BY <1>1, <3>1 DEF CallOK, MoveOK, Active
  <2>. QED
    BY <2>1, <2>2, <2>3
<1>5. CallOK(call[p])'
  <2>1. ASSUME NEW m, CallOK(m) PROVE CallOK(m)'
    <3>1. Reachable \subseteq Reachable'
      BY <1>3
    <3>2. m.pc = "moveRef" => MoveOK(m)'
      BY <1>1, <2>1, <3>1, MoveOKStable DEF CallOK
    <3>. QED
      BY <2>1, <3>2 DEF CallOK
  <2>. QED
    BY <1>4, <2>1
<1>6. CallsInv'
  BY <1>1, <1>3, <1>5, CallsStep DEF IInv
<1>7. WriteInv'
  <2>1. Active(call'[p]) => ref' = ref \/ unheard'
    BY IdleOK
  <2>2. CASE ref' = ref
    <3>1. Reachable' = Reachable
      BY <2>2 DEF Reachable, Past
    <3>. QED
      BY <1>2, <1>4, <3>1, WritesStep
  <2>3. CASE ref' # ref
    BY <1>2, <1>3, <1>4, <2>1, <2>3, WritesStep
  <2>. QED
    BY <2>2, <2>3
<1>8. Still \/ Publishes(call[p])
  BY <1>1, <1>3 DEF Still, Publishes
<1>. QED
  BY <1>2, <1>6, <1>7, <1>8 DEF IInv

\* Blob, tree and commit are created: the commit is new, and so is the write
\* unless it is one the loop of put tries again.
LEMMA BuildStep ==
    ASSUME IInv, NEW p \in Clients, NEW me, Shaped(me), NEW base,
           base \in {NoCommit} \cup Reachable, me.key \in Keys,
           \/ me.op = "put" /\ me.val \in Values
           \/ me.op = "delete" /\ me.val = Absent /\ Tree(base)[me.key] # Absent,
           \/ me.write = NoCommit
           \/ Active(call[p]) /\ me.write = call[p].write,
           Build(p, me, base), UNCHANGED <<ref, failed, unheard>>
    PROVE  IInv' /\ Still
<1> DEFINE n == Len(commits)
           write == IF me.write = NoCommit THEN n + 1 ELSE me.write
<1>1. /\ GraphInv /\ n \in Nat /\ n + 1 \in Nat /\ base \in 0..n /\ Reachable \subseteq 1..n
      /\ ref' = ref /\ ref \in 0..n
  <2>1. GraphInv /\ n \in Nat /\ ref \in 0..n /\ Reachable \subseteq 1..ref /\ ref' = ref
    BY PastTyped DEF IInv, GraphInv
  <2>2. \A c \in 1..ref : c \in 1..n
    BY <2>1
  <2>3. Reachable \subseteq 1..n
    BY <2>1, <2>2, Zenon
  <2>4. n + 1 \in Nat /\ base \in 0..n
    BY <2>1, <2>3 DEF NoCommit
  <2>. QED
    BY <2>1, <2>3, <2>4, Zenon
<1>2. /\ write \in 1..(n + 1)
      /\ \/ write = n + 1
         \/ Active(call[p]) /\ write = call[p].write
  <2>1. Active(call[p]) => call[p].write \in 1..n
    BY DEF IInv, WriteInv, WriteOK
  <2>. QED
    BY <1>1, <2>1
<1> HIDE DEF write
<1>3. /\ n + 1 <= MaxCommits
      /\ commits' = Append(commits, NewCommit(me, base, write))
      /\ call' = [call EXCEPT ![p] = [me EXCEPT !.pc = "moveRef", !.base = base,
                                               !.commit = n + 1, !.write = write]]
  BY DEF Build, write
<1>4. /\ GraphInv' /\ Len(commits') = n + 1
      /\ \A c \in 1..n : commits'[c] = commits[c]
      /\ \A c \in 0..n : Past(c)' = Past(c) /\ Tree(c)' = Tree(c)
      /\ commits'[n + 1].parent = base /\ commits'[n + 1].write = write
      /\ commits'[n + 1].tree = [Tree(base) EXCEPT ![me.key] = me.val]
  <2>1. me.val \in Values \cup {Absent} /\ write \in Nat
    BY <1>1, <1>2
  <2>. QED
    BY <1>1, <1>3, <2>1, CommitAppended
<1>5. Reachable' = Reachable
  BY <1>1, <1>4 DEF Reachable
<1>6. call' = [q \in Clients |-> IF q = p THEN [me EXCEPT !.pc = "moveRef", !.base = base,
                                               !.commit = n + 1, !.write = write]
                                          ELSE call[q]]
  BY <1>3 DEF IInv, CallsInv
<1>7. /\ Same(call'[p], me) /\ call'[p].pc = "moveRef" /\ call'[p].base = base
      /\ call'[p].commit = n + 1 /\ call'[p].write = write
      /\ \A q \in Clients \ {p} : call'[q] = call[q]
      /\ call' = [call EXCEPT ![p] = call'[p]]
  <2>1. call'[p] = [me EXCEPT !.pc = "moveRef", !.base = base,
                              !.commit = n + 1, !.write = write]
    BY <1>6
  <2>2. /\ Same(call'[p], me) /\ call'[p].pc = "moveRef" /\ call'[p].base = base
        /\ call'[p].commit = n + 1 /\ call'[p].write = write
    <3>1. ASSUME NEW x, x = [me EXCEPT !.pc = "moveRef", !.base = base,
                                       !.commit = n + 1, !.write = write]
          PROVE  /\ Same(x, me) /\ x.pc = "moveRef" /\ x.base = base
                 /\ x.commit = n + 1 /\ x.write = write
      BY <3>1 DEF Shaped, Fields, Same
    <3>. QED
      BY <2>1, <3>1
  <2>3. call' = [call EXCEPT ![p] = call'[p]]
    BY <1>3, <2>1
  <2>. QED
    BY <1>6, <2>2, <2>3
<1>8. CallOK(call[p])'
  <2>1. Tree(base)' = Tree(base) /\ n + 1 \in 1..Len(commits')
    BY <1>1, <1>4
  <2>2. ASSUME NEW m, Same(m, me), m.pc = "moveRef", m.base = base, m.commit = n + 1
        PROVE  CallOK(m)'
    BY <1>4, <1>5, <2>1, <2>2 DEF CallOK, MoveOK, Same
  <2>. QED
    BY <1>7, <2>2
<1>9. CallsInv'
  <2>1. n <= Len(commits') /\ Len(commits') \in Nat /\ Reachable \subseteq Reachable'
    BY <1>1, <1>4, <1>5
  <2>. QED
    BY <1>1, <1>4, <1>7, <1>8, <2>1, CallsStep DEF IInv
<1>10. WriteInv'
  <2>1. /\ \A c \in 1..n : commits[c].write \in 1..n
        /\ failed \subseteq 1..n /\ failed' = failed
        /\ unheard \in BOOLEAN /\ unheard' = unheard
        /\ \A q \in Clients : Active(call[q]) => WriteOK(q)
    BY DEF IInv, WriteInv
  <2>2. \A c \in 1..Len(commits') : commits'[c].write \in 1..Len(commits')
    BY <1>1, <1>2, <1>4, <2>1
  <2>3. EveryWriteCountsOnce'
    BY <1>1, <1>4, <1>5, <2>1 DEF IInv, WriteInv, EveryWriteCountsOnce
  <2>4. /\ write \notin failed
        /\ \A q \in Clients \ {p} : Active(call[q]) => call[q].write # write
        /\ ~unheard => \A c \in Reachable : commits[c].write # write
    <3>1. CASE write = n + 1
      <4>1. \A q \in Clients : Active(call[q]) => call[q].write \in 1..n
        BY <2>1 DEF WriteOK
      <4>. QED
        BY <1>1, <2>1, <3>1, <4>1
    <3>2. CASE Active(call[p]) /\ write = call[p].write
      BY <2>1, <3>2 DEF WriteOK
    <3>. QED
      BY <1>2, <3>1, <3>2
  <2>5. WriteOK(p)'
    BY <1>1, <1>2, <1>4, <1>5, <1>7, <2>1, <2>4 DEF WriteOK
  <2>6. ASSUME NEW q \in Clients \ {p}, Active(call'[q]) PROVE WriteOK(q)'
    <3>1. call'[q] = call[q] /\ WriteOK(q) /\ CallOK(call[q])
      BY <1>7, <2>1, <2>6 DEF IInv, CallsInv
    <3>2. call[q].pc = "moveRef" => commits'[call[q].commit] = commits[call[q].commit]
      BY <1>4, <3>1 DEF CallOK, MoveOK
    <3>3. call[q].write \in 1..Len(commits') /\ call[q].write \notin failed'
      BY <1>1, <1>4, <2>1, <3>1 DEF WriteOK
    <3>4. \A o \in Clients \ {q} : Active(call'[o]) => call'[o].write # call[q].write
      BY <1>7, <2>4, <2>6, <3>1 DEF WriteOK
    <3>5. ~unheard' => \A c \in Reachable' : commits'[c].write # call[q].write
      BY <1>1, <1>4, <1>5, <2>1, <3>1 DEF WriteOK
    <3>. QED
      BY <3>1, <3>2, <3>3, <3>4, <3>5 DEF WriteOK
  <2>. QED
    BY <2>1, <2>2, <2>3, <2>5, <2>6, <1>1, <1>4 DEF WriteInv
<1>. QED
  BY <1>1, <1>4, <1>9, <1>10 DEF IInv, Still

LEMMA Returns ==
    ASSUME CallsInv, NEW p \in Clients, Return(p)
    PROVE  call'[p] = Idle /\ call' = [call EXCEPT ![p] = call'[p]]
BY DEF CallsInv, Return

LEMMA PutStep ==
    ASSUME IInv, NEW p \in Clients, NEW k \in Keys, NEW val \in Values, Put(p, k, val)
    PROVE  IInv' /\ Still
<1> DEFINE me == Begun("put", k, val)
<1>1. Build(p, me, ref) /\ UNCHANGED <<ref, failed, unheard>>
  BY DEF Put
<1>2. Shaped(me) /\ me.op = "put" /\ me.key = k /\ me.val = val /\ me.write = NoCommit
  BY BegunOK
<1>3. ref \in {NoCommit} \cup Reachable
  BY PastTyped DEF IInv, GraphInv, Reachable, NoCommit
<1> HIDE DEF me
<1>. QED
  BY <1>1, <1>2, <1>3, BuildStep

LEMMA PutAgainStep ==
    ASSUME IInv, NEW p \in Clients, PutAgain(p)
    PROVE  IInv' /\ Still
<1> DEFINE me == call[p]
<1>1. Build(p, me, ref) /\ UNCHANGED <<ref, failed, unheard>> /\ Active(call[p])
  BY DEF PutAgain, Active
<1>2. Shaped(me) /\ me.op = "put" /\ me.key \in Keys /\ me.val \in Values
  BY DEF IInv, CallsInv, CallOK, PutAgain
<1>3. ref \in {NoCommit} \cup Reachable
  BY PastTyped DEF IInv, GraphInv, Reachable, NoCommit
<1>4. me.write = call[p].write
  OBVIOUS
<1> HIDE DEF me
<1>. QED
  BY <1>1, <1>2, <1>3, <1>4, BuildStep

LEMMA DeleteStep ==
    ASSUME IInv, NEW p \in Clients, NEW k \in Keys, Delete(p, k)
    PROVE  IInv' /\ Still
<1> DEFINE me == Begun("delete", k, Absent)
<1>1. ReadTip(p) = ref
  BY DEF ReadTip
<1>2. CASE Tree(ref)[k] = Absent
  <2>1. Return(p) /\ UNCHANGED <<server, failed, unheard>>
    BY <1>1, <1>2 DEF Delete, server
  <2>2. Shaped(Idle) /\ ~Active(Idle)
    BY IdleOK DEF CallOK
  <2>. QED
    BY <2>1, <2>2, Returns, QuietStep DEF IInv
<1>3. CASE Tree(ref)[k] # Absent
  <2>1. Build(p, me, ref) /\ UNCHANGED <<ref, failed, unheard>>
    BY <1>1, <1>3 DEF Delete
  <2>2. Shaped(me) /\ me.op = "delete" /\ me.key = k /\ me.val = Absent /\ me.write = NoCommit
    BY BegunOK
  <2>3. ref \in {NoCommit} \cup Reachable
    BY PastTyped DEF IInv, GraphInv, Reachable, NoCommit
  <2> HIDE DEF me
  <2>. QED
    BY <1>3, <2>1, <2>2, <2>3, BuildStep
<1>. QED
  BY <1>2, <1>3

\* A call that reads: what it is then is no write.
LEMMA ReadStep ==
    ASSUME IInv, NEW p \in Clients, NEW x, Shaped(x), ~Active(x),
           call' = [call EXCEPT ![p] = x], UNCHANGED <<server, failed, unheard>>
    PROVE  IInv' /\ Still
<1>1. call'[p] = x
  BY DEF IInv, CallsInv
<1>2. call' = [call EXCEPT ![p] = call'[p]]
  BY <1>1
<1>. QED
  BY <1>1, <1>2, QuietStep

LEMMA PageStep ==
    ASSUME IInv, NEW p \in Clients, NEW me, Shaped(me), Page(p, me),
           UNCHANGED <<server, failed, unheard>>
    PROVE  IInv' /\ Still
<1>1. ASSUME NEW pc \in {"readPage", "readObjects"}, NEW skip, NEW listed
      PROVE  LET x == [me EXCEPT !.pc = pc, !.skip = skip, !.listed = listed]
             IN  Shaped(x) /\ ~Active(x)
  BY DEF Shaped, Fields, Active
<1>2. PICK pc \in {"readPage", "readObjects"} :
        \E skip, listed :
            call' = [call EXCEPT ![p] =
                        [me EXCEPT !.pc = pc, !.skip = skip, !.listed = listed]]
  BY DEF Page
<1>3. PICK skip, listed :
        call' = [call EXCEPT ![p] = [me EXCEPT !.pc = pc, !.skip = skip, !.listed = listed]]
  BY <1>2
<1>. QED
  BY <1>1, <1>3, ReadStep

LEMMA RefusedStep ==
    ASSUME IInv, NEW p \in Clients, MoveRefused(p)
    PROVE  IInv' /\ Still
<1> DEFINE me == call[p]
<1>1. /\ me.pc = "moveRef" /\ Active(me) /\ UNCHANGED <<ref, commits, unheard>>
      /\ GraphInv /\ CallOK(me) /\ MoveOK(me)
  BY DEF MoveRefused, server, Active, IInv, CallsInv, CallOK
<1>2. GraphInv' /\ Reachable' = Reachable /\ Still /\ Len(commits) \in Nat
  BY <1>1, PastTyped DEF GraphInv, Reachable, Past, Still
<1>3. /\ call' = [call EXCEPT ![p] = call'[p]] /\ CallOK(call[p])'
      /\ \/ call'[p] = Idle /\ failed' = failed \cup {me.write}
         \/ call'[p].pc = "readRef" /\ call'[p].write = me.write
            /\ call'[p].commit = me.commit /\ failed' = failed
  <2>1. CASE Conflict(me) /\ Tries(me)
    <3>1. /\ call' = [call EXCEPT ![p] = [me EXCEPT !.pc = "readRef",
                                                    !.attempt = @ + 1, !.sent = 0]]
          /\ failed' = failed
      BY <2>1 DEF MoveRefused
    <3>2. call'[p] = [me EXCEPT !.pc = "readRef", !.attempt = me.attempt + 1, !.sent = 0]
      BY <3>1 DEF IInv, CallsInv
    <3>3. ASSUME NEW x, x = [me EXCEPT !.pc = "readRef", !.attempt = me.attempt + 1, !.sent = 0]
          PROVE  /\ Shaped(x) /\ x.op = me.op /\ x.key = me.key /\ x.val = me.val
                 /\ x.pc = "readRef" /\ x.write = me.write /\ x.commit = me.commit
      <4>1. Shaped(me)
        BY <1>1 DEF CallOK
      <4>. QED
        BY <3>3, <4>1 DEF Shaped, Fields
    <3>4. me.op = "put" /\ me.key \in Keys /\ me.val \in Values
      BY <1>1, <2>1 DEF Tries, MoveOK
    <3>5. CallOK(call[p])'
      BY <3>2, <3>3, <3>4 DEF CallOK
    <3>6. call' = [call EXCEPT ![p] = call'[p]]
      BY <3>1, <3>2
    <3>. QED
      BY <3>1, <3>2, <3>3, <3>5, <3>6
  <2>2. CASE ~(Conflict(me) /\ Tries(me))
    <3>1. Return(p) /\ failed' = failed \cup {me.write}
      BY <2>2 DEF MoveRefused
    <3>2. call'[p] = Idle /\ call' = [call EXCEPT ![p] = call'[p]]
      BY <3>1, Returns DEF IInv
    <3>3. CallOK(call[p])'
      BY <3>2, IdleOK DEF CallOK
    <3>. QED
      BY <3>1, <3>2, <3>3
  <2>. QED
    BY <2>1, <2>2
<1>4. CallsInv'
  BY <1>1, <1>2, <1>3, CallsStep DEF IInv
<1>5. WriteInv'
  <2>1. unheard' \in BOOLEAN /\ unheard' = unheard
    BY <1>1 DEF IInv, WriteInv
  <2>2. CASE call'[p] = Idle /\ failed' = failed \cup {me.write}
    BY <1>1, <1>2, <1>3, <2>1, <2>2, IdleOK, WritesStep
  <2>3. CASE call'[p].pc = "readRef" /\ call'[p].write = me.write
             /\ call'[p].commit = me.commit /\ failed' = failed
    BY <1>1, <1>2, <1>3, <2>1, <2>3, WritesStep
  <2>. QED
    BY <1>3, <2>2, <2>3
<1>. QED
  BY <1>2, <1>4, <1>5 DEF IInv

\* The requests that move the ref, whatever becomes of their answers.
LEMMA MoveRefStep ==
    ASSUME IInv, NEW p \in Clients, MoveRef(p)
    PROVE  IInv' /\ (Still \/ Publishes(call[p]))
<1>1. /\ call[p].pc = "moveRef" /\ commits' = commits /\ failed' = failed
      /\ unheard' = unheard /\ Accepts(call[p]) /\ ref' = call[p].commit /\ Return(p)
  BY DEF MoveRef
<1>2. unheard' \in BOOLEAN
  BY <1>1 DEF IInv, WriteInv
<1>3. call'[p] = Idle /\ call' = [call EXCEPT ![p] = call'[p]]
  BY <1>1, Returns DEF IInv
<1>. QED
  BY <1>1, <1>2, <1>3, MoveStep

LEMMA ServerFailsStep ==
    ASSUME IInv, NEW p \in Clients, ServerFails(p)
    PROVE  IInv' /\ (Still \/ Publishes(call[p]))
<1> DEFINE me == call[p]
<1>1. /\ me.pc = "moveRef" /\ commits' = commits /\ failed' = failed
      /\ ref' = ref \/ (Accepts(me) /\ ref' = me.commit)
      /\ unheard' = (unheard \/ (me.sent = 0 /\ ref' # ref))
      /\ call' = [call EXCEPT ![p] = IF me.sent = 0 THEN [me EXCEPT !.sent = 1] ELSE Idle]
  BY DEF ServerFails, Unheard
<1>2. /\ unheard' \in BOOLEAN /\ (unheard => unheard')
      /\ me.sent = 0 => (ref' # ref => unheard')
  <2>1. unheard \in BOOLEAN
    BY DEF IInv, WriteInv
  <2>. QED
    BY <1>1, <2>1
<1>3. /\ call'[p] = IF me.sent = 0 THEN [me EXCEPT !.sent = 1] ELSE Idle
      /\ call' = [call EXCEPT ![p] = call'[p]]
  BY <1>1 DEF IInv, CallsInv
<1>. QED
  BY <1>1, <1>2, <1>3, MoveStep

LEMMA HostRepeatsStep ==
    ASSUME IInv, NEW p \in Clients, HostRepeats(p)
    PROVE  IInv' /\ (Still \/ Publishes(call[p]))
<1>1. /\ call[p].pc = "moveRef" /\ commits' = commits /\ failed' = failed
      /\ ref' = ref \/ (Accepts(call[p]) /\ ref' = call[p].commit)
      /\ unheard' = (unheard \/ ref' # ref) /\ call' = call
  BY DEF HostRepeats, Unheard
<1>2. unheard' \in BOOLEAN /\ (unheard => unheard') /\ (ref' # ref => unheard')
  <2>1. unheard \in BOOLEAN
    BY DEF IInv, WriteInv
  <2>. QED
    BY <1>1, <2>1
<1>3. call' = [call EXCEPT ![p] = call'[p]] /\ call'[p] = call[p]
  BY <1>1 DEF IInv, CallsInv
<1>. QED
  BY <1>1, <1>2, <1>3, MoveStep

LEMMA TransportFailsStep ==
    ASSUME IInv, NEW p \in Clients, TransportFails(p)
    PROVE  IInv' /\ (Still \/ Publishes(call[p]))
<1>1. /\ call[p].pc = "moveRef" /\ commits' = commits /\ failed' = failed
      /\ ref' = ref \/ (Accepts(call[p]) /\ ref' = call[p].commit)
      /\ unheard' = unheard /\ Return(p)
  BY DEF TransportFails, Unheard
<1>2. unheard' \in BOOLEAN
  BY <1>1 DEF IInv, WriteInv
<1>3. call'[p] = Idle /\ call' = [call EXCEPT ![p] = call'[p]]
  BY <1>1, Returns DEF IInv
<1>. QED
  BY <1>1, <1>2, <1>3, MoveStep

LEMMA NextStep ==
    ASSUME IInv, Next
    PROVE  IInv' /\ (Still \/ \E p \in Clients : Publishes(call[p]))
<1>1. PICK p \in Clients :
        \/ \E k \in Keys : Delete(p, k) \/ \E val \in Values : Put(p, k, val)
        \/ PutAgain(p) \/ Get(p) \/ ReadObjects(p)
        \/ (\E k \in Keys : History(p, k)) \/ HistoryGoesOn(p)
        \/ MoveRef(p) \/ MoveRefused(p)
        \/ ServerFails(p) \/ HostRepeats(p) \/ TransportFails(p) \/ Fails(p)
  BY DEF Next
<1>2. Shaped(Idle) /\ ~Active(Idle)
  BY IdleOK DEF CallOK
<1>3. CASE \E k \in Keys : Delete(p, k) \/ \E val \in Values : Put(p, k, val)
  BY <1>3, DeleteStep, PutStep
<1>4. CASE PutAgain(p)
  BY <1>4, PutAgainStep
<1>5. CASE Get(p)
  <2>1. ASSUME NEW b
        PROVE  LET x == [Begun("get", Absent, Absent) EXCEPT !.pc = "readObjects", !.base = b]
               IN  Shaped(x) /\ ~Active(x)
    BY DEF Begun, Idle, Shaped, Fields, Active
  <2>. QED
    BY <1>5, <2>1, ReadStep DEF Get
<1>6. CASE ReadObjects(p) \/ Fails(p)
  BY <1>2, <1>6, ReadStep DEF ReadObjects, Fails, Return
<1>7. CASE \E k \in Keys : History(p, k)
  BY <1>7, BegunOK, PageStep DEF History
<1>8. CASE HistoryGoesOn(p)
  <2>1. Shaped(call[p])
    BY DEF IInv, CallsInv, CallOK
  <2>. QED
    BY <1>8, <2>1, PageStep DEF HistoryGoesOn
<1>9. CASE MoveRefused(p)
  BY <1>9, RefusedStep
<1>10. CASE MoveRef(p) \/ ServerFails(p) \/ HostRepeats(p) \/ TransportFails(p)
  BY <1>10, MoveRefStep, ServerFailsStep, HostRepeatsStep, TransportFailsStep
<1>. QED
  BY <1>1, <1>3, <1>4, <1>5, <1>6, <1>7, <1>8, <1>9, <1>10

LEMMA InitStep == Init => IInv /\ Contract!Init
<1> SUFFICES ASSUME Init PROVE IInv /\ Contract!Init
  OBVIOUS
<1>1. CallsInv /\ \A p \in Clients : ~Active(call[p])
  <2>1. call = [p \in Clients |-> Idle]
    BY DEF Init
  <2>. QED
    BY <2>1, IdleOK DEF CallsInv
<1>2. failed = {} /\ unheard \in BOOLEAN
  <2>1. unheard = FALSE
    BY DEF Init
  <2>2. unheard \in BOOLEAN
    BY <2>1, Zenon
  <2>. QED
    BY <2>2 DEF Init
<1>3. CASE commits = <<>> /\ ref = NoCommit
  <2>1. Len(commits) = 0 /\ commits \in Seq(Commit) /\ 0 <= MaxCommits
    BY <1>3, GitHubAssumption
  <2>2. GraphInv
    BY <1>3, <2>1 DEF GraphInv, NoCommit
  <2>3. Reachable = {}
    BY <1>3 DEF Reachable, Past
  <2>4. WriteInv
    <3>1. EveryWriteCountsOnce
      BY <2>3 DEF EveryWriteCountsOnce
    <3>2. 1..Len(commits) = {}
      BY <2>1
    <3>. QED
      BY <1>1, <1>2, <3>1, <3>2 DEF WriteInv
  <2>5. Contract!Init
    BY <1>3, <2>3 DEF Contract!Init, Contract!EmptyMap, Snapshots, Tree, EmptyTree
  <2>. QED
    BY <1>1, <2>2, <2>4, <2>5 DEF IInv
<1>4. ASSUME NEW k \in Keys, NEW val \in Values, ref = 1,
             commits = <<[parent |-> NoCommit, past |-> {1}, write |-> 1,
                          tree |-> [EmptyTree EXCEPT ![k] = val]]>>
      PROVE  IInv /\ Contract!Init
  <2> DEFINE t == [EmptyTree EXCEPT ![k] = val]
             c1 == [parent |-> NoCommit, past |-> {1}, write |-> 1, tree |-> t]
  <2>1. t \in Trees
    BY DEF Trees, EmptyTree
  <2> HIDE DEF t
  <2>2. c1 \in Commit
    BY <2>1 DEF Commit, NoCommit
  <2>3. /\ c1.parent = NoCommit /\ c1.past = {1} /\ c1.write = 1 /\ c1.tree = t
        /\ commits = <<c1>>
    BY <1>4 DEF t
  <2> HIDE DEF c1
  <2>4. commits \in Seq(Commit) /\ Len(commits) = 1 /\ commits[1] = c1 /\ 1 <= MaxCommits
    BY <2>2, <2>3, GitHubAssumption
  <2>5. GraphInv
    BY <1>4, <2>3, <2>4 DEF GraphInv, PastIn, NoCommit
  <2>6. Reachable = {1} /\ Tree(ref) = t
    BY <1>4, <2>3, <2>4 DEF Reachable, Past, Tree, NoCommit
  <2>7. WriteInv
    <3>1. EveryWriteCountsOnce
      BY <1>2, <2>6 DEF EveryWriteCountsOnce
    <3>2. \A c \in 1..Len(commits) : commits[c].write \in 1..Len(commits)
      BY <2>3, <2>4
    <3>. QED
      BY <1>1, <1>2, <3>1, <3>2 DEF WriteInv
  <2>8. Contract!Init
    <3>1. Snapshots = [w \in {1} |-> t]
      BY <2>3, <2>4, <2>6 DEF Snapshots
    <3>2. 1 \in 1..MaxCommits /\ t \in [Keys -> Values \cup {Absent}]
      BY <2>1, <2>4, GitHubAssumption DEF Trees
    <3>. QED
      BY <2>6, <3>1, <3>2 DEF Contract!Init, Contract!Maps
  <2>. QED
    BY <1>1, <2>5, <2>7, <2>8 DEF IInv
<1>. QED
  BY <1>3, <1>4 DEF Init

-----------------------------------------------------------------------------
(* The contract *)

LEMMA StillStutters ==
    ASSUME IInv, Still
    PROVE  UNCHANGED Contract!vars
<1>1. /\ \A c \in 1..Len(commits) : commits'[c] = commits[c]
      /\ ref' = ref /\ (ref = NoCommit \/ ref \in 1..Len(commits))
      /\ Reachable \subseteq 1..Len(commits)
  <2>1. ref \in 0..Len(commits) /\ Len(commits) \in Nat /\ Reachable \subseteq 1..ref
    BY PastTyped DEF IInv, GraphInv
  <2>. QED
    BY <2>1 DEF Still, NoCommit
<1>2. Tree(ref)' = Tree(ref)
  BY <1>1 DEF Tree
<1>3. Reachable' = Reachable
  BY <1>1 DEF Reachable, Past
<1>4. Snapshots' = Snapshots
  BY <1>1, <1>3 DEF Snapshots
<1>. QED
  BY <1>2, <1>4 DEF Contract!vars

LEMMA PublishesIsAWrite ==
    ASSUME IInv, NEW p \in Clients, Publishes(call[p])
    PROVE  Contract!Next
<1> DEFINE me == call[p]
           c  == me.commit
           m  == [Tree(ref) EXCEPT ![me.key] = me.val]
<1>1. /\ commits' = commits /\ ref = me.base /\ ref' = c /\ c \notin Reachable
      /\ Reachable' = Reachable \cup {c}
      /\ c \in 1..Len(commits) /\ me.key \in Keys
      /\ commits[c].tree = [Tree(me.base) EXCEPT ![me.key] = me.val]
      /\ \/ me.op = "put" /\ me.val \in Values
         \/ me.op = "delete" /\ me.val = Absent /\ Tree(me.base)[me.key] # Absent
  BY DEF Publishes, MoveOK
<1>2. c \in 1..MaxCommits
  <2>1. Len(commits) \in Nat /\ Len(commits) <= MaxCommits /\ MaxCommits \in Nat
    BY PastTyped, GitHubAssumption DEF IInv, GraphInv
  <2>. QED
    BY <1>1, <2>1
<1>3. Tree(ref)' = m /\ commits[c].tree = m
  BY <1>1 DEF Tree, NoCommit
<1>4. Snapshots' = [w \in DOMAIN Snapshots \cup {c} |->
                        IF w = c THEN m ELSE Snapshots[w]]
  BY <1>1, <1>3 DEF Snapshots
<1>5. c \in (1..MaxCommits) \ DOMAIN Snapshots
  BY <1>1, <1>2 DEF Snapshots
<1>6. Contract!Publish(m)
  BY <1>3, <1>4, <1>5 DEF Contract!Publish
<1>7. CASE me.op = "put" /\ me.val \in Values
  BY <1>1, <1>6, <1>7 DEF Contract!Next, Contract!Put, Contract!Bases
<1>8. CASE me.val = Absent /\ Tree(me.base)[me.key] # Absent
  BY <1>1, <1>6, <1>8 DEF Contract!Next, Contract!Delete, Contract!Bases
<1>. QED
  BY <1>1, <1>7, <1>8

LEMMA Inductive == Spec => []IInv
<1>1. IInv /\ [Next]_vars => IInv'
  <2> SUFFICES ASSUME IInv, [Next]_vars PROVE IInv'
    OBVIOUS
  <2>1. CASE Next
    BY <2>1, NextStep
  <2>2. CASE UNCHANGED vars
    BY <2>2 DEF vars, server, IInv, GraphInv, CallsInv, CallOK, MoveOK, WriteInv, WriteOK,
                EveryWriteCountsOnce, Reachable, Past, Tree
  <2>. QED
    BY <2>1, <2>2
<1>. QED
  BY <1>1, InitStep, PTL DEF Spec

\* Any number of clients racing, retrying and losing answers implement the
\* strong contract of ref_store.zig: the compare-and-set of the server
\* (force: false) and the retry of put on a fresh read lose no update.
THEOREM GitHubImplementsContract == Spec => ImplementsContract
<1>1. IInv /\ [Next]_vars => [Contract!Next]_(Contract!vars)
  <2> SUFFICES ASSUME IInv, [Next]_vars PROVE [Contract!Next]_(Contract!vars)
    OBVIOUS
  <2>1. CASE Next
    BY <2>1, NextStep, StillStutters, PublishesIsAWrite
  <2>2. CASE UNCHANGED vars
    <3>1. Still
      BY <2>2 DEF vars, server, Still
    <3>. QED
      BY <3>1, StillStutters
  <2>. QED
    BY <2>1, <2>2
<1>. QED
  BY <1>1, InitStep, Inductive, PTL DEF Spec, ImplementsContract, Contract!Spec

\* Unless a request was repeated after it had moved the ref unheard, no write
\* of any client is published twice, or published and reported as failed.
THEOREM GitHubWritesCountOnce == Spec => []EveryWriteCountsOnce
<1>1. IInv => EveryWriteCountsOnce
  BY DEF IInv, WriteInv
<1>. QED
  BY <1>1, Inductive, PTL
-----------------------------------------------------------------------------
(* What the calls know *)

\* The versions a history has to come upon: those that had set its key when it
\* began.
Wanted(me) ==
    {c \in Past(me.start) :
        Tree(c)[me.key] \notin {Absent, Tree(commits[c].parent)[me.key]}}

\* Those it has not come upon are behind the pages it went through, however far
\* the commits of others have pushed them.
FoundSoFar(me) ==
    \A c \in Wanted(me) :
        c \in ToSet(me.listed) \/ Place(c, Changed(me.key)) > me.skip

ReadOK(me) ==
    /\ me \in Call
    /\ {me.start, me.base, me.commit, me.write} \subseteq 0..Len(commits)
    /\ Len(me.listed) <= HistoryLimit
    /\ me.start \in {NoCommit} \cup Reachable
    /\ me.start # NoCommit /\ me.base # NoCommit => me.start \in Past(me.base)
    /\ me.pc = "readPage" => me.op = "history" /\ me.key \in Keys /\ FoundSoFar(me)
    /\ me.op = "history" /\ me.pc = "readObjects" /\ Len(me.listed) < HistoryLimit =>
        \A c \in Wanted(me) : c \in ToSet(me.listed)

\* The commits of S that others published since the call began.
Ahead(me, S) == {c \in S \ Past(me.start) : commits[c].write # me.write}

\* As many of them as the call lost attempts; those of its own it knows of.
BudgetOK(me) ==
    /\ me.pc = "readRef" => Cardinality(Ahead(me, Reachable)) >= me.attempt
    /\ me.pc = "moveRef" =>
        /\ Cardinality(Ahead(me, Past(me.base))) >= me.attempt
        /\ \A c \in Reachable :
            commits[c].write = me.write => c \in Past(me.base) \cup {me.commit}

CallsKnow == \A p \in Clients : ReadOK(call[p]) /\ BudgetOK(call[p])

TipInv == tip \in [Clients -> 0..Len(commits)] /\ faults \in 0..MaxFaults

KnowInv == IInv /\ CallsKnow /\ TipInv

\* No step takes a commit away, or a version from the published ones.
Grown ==
    /\ Len(commits) <= Len(commits)' /\ Len(commits)' \in Nat
    /\ \A c \in 1..Len(commits) : commits'[c] = commits[c]
    /\ Reachable \subseteq Reachable'

LEMMA ReachableFacts ==
    ASSUME IInv
    PROVE  /\ Len(commits) \in Nat /\ ref \in 0..Len(commits)
           /\ Reachable \subseteq 1..Len(commits) /\ IsFiniteSet(Reachable)
           /\ \A c \in Reachable : Past(c) \subseteq Reachable
           /\ \A c \in 1..Len(commits) : commits[c].parent \in 0..Len(commits)
           /\ ref \in {NoCommit} \cup Reachable
<1>1. GraphInv
  BY DEF IInv
<1>2. Len(commits) \in Nat /\ ref \in 0..Len(commits) /\ Reachable \subseteq 1..ref
  BY <1>1, PastTyped DEF GraphInv
<1>3. Reachable \subseteq 1..Len(commits)
  BY <1>2
<1>4. IsFiniteSet(Reachable)
  <2>1. IsFiniteSet(1..ref)
    BY <1>2, FS_Interval
  <2>. QED
    BY <1>2, <2>1, FS_Subset
<1>5. ASSUME NEW c \in Reachable PROVE Past(c) \subseteq Reachable
  <2>1. ref # NoCommit /\ Reachable = commits[ref].past /\ ref \in 1..Len(commits)
    BY <1>2 DEF Reachable, Past, NoCommit
  <2>2. Past(c) = commits[c].past
    BY <1>3, <1>1, PastTyped
  <2>. QED
    BY <1>1, <2>1, <2>2 DEF GraphInv
<1>6. ASSUME NEW c \in 1..Len(commits) PROVE commits[c].parent \in 0..Len(commits)
  <2>1. commits[c].parent \in 0..(c - 1)
    BY <1>1 DEF GraphInv
  <2>. QED
    BY <1>2, <2>1
<1>7. ref \in {NoCommit} \cup Reachable
  BY <1>1, <1>2, PastTyped DEF Reachable, NoCommit
<1>. QED
  BY <1>2, <1>3, <1>4, <1>5, <1>6, <1>7

LEMMA OldCommitsStay ==
    ASSUME IInv, Grown
    PROVE  /\ 0..Len(commits) \subseteq 0..Len(commits)'
           /\ \A c \in 0..Len(commits) : Past(c)' = Past(c) /\ Tree(c)' = Tree(c)
           /\ \A c \in 1..Len(commits) : commits'[c] = commits[c]
<1>1. Len(commits) \in Nat
  BY ReachableFacts
<1>2. \A c \in 0..Len(commits) : c = NoCommit \/ c \in 1..Len(commits)
  BY <1>1 DEF NoCommit
<1>3. \A c \in 0..Len(commits) : Past(c)' = Past(c) /\ Tree(c)' = Tree(c)
  BY <1>2 DEF Past, Tree, Grown
<1>. QED
  BY <1>1, <1>3 DEF Grown

LEMMA ListGrows ==
    ASSUME IInv, IInv', Grown, NEW k
    PROVE  /\ Changed(k) \subseteq Changed(k)' /\ IsFiniteSet(Changed(k)')
           /\ Changed(k)' \in SUBSET Nat
<1>1. Reachable \subseteq 1..Len(commits) /\ Reachable \subseteq Reachable'
  BY ReachableFacts DEF Grown
<1>2. ASSUME NEW c \in Changed(k) PROVE c \in Changed(k)'
  <2>1. c \in Reachable /\ c \in 1..Len(commits)
    BY <1>1 DEF Changed
  <2>2. PICK b : b = commits[c].parent
    OBVIOUS
  <2>3. commits'[c] = commits[c] /\ c \in 0..Len(commits) /\ b \in 0..Len(commits)
    BY <2>1, <2>2, ReachableFacts, OldCommitsStay
  <2>4. Tree(c)' = Tree(c) /\ Tree(b)' = Tree(b)
    BY <2>3, OldCommitsStay
  <2>5. Tree(c)[k] # Tree(b)[k]
    BY <2>2 DEF Changed
  <2>6. (Tree(commits[c].parent))' = Tree(b)'
    BY <2>2, <2>3 DEF Tree
  <2>. QED
    BY <1>1, <2>1, <2>4, <2>5, <2>6 DEF Changed
<1>3. IsFiniteSet(Changed(k)') /\ Changed(k)' \in SUBSET Nat
  <2>1. ref' \in Nat /\ Reachable' \subseteq 1..ref'
    <3>1. GraphInv'
      BY DEF IInv
    <3>2. Len(commits') \in Nat /\ ref' \in 0..Len(commits')
      BY <3>1 DEF GraphInv
    <3>3. ref' # NoCommit => commits'[ref'].past \subseteq 1..ref'
      BY <3>1, <3>2 DEF GraphInv, NoCommit
    <3>. QED
      BY <3>2, <3>3 DEF Reachable, Past
  <2>2. IsFiniteSet(1..ref')
    <3>1. 1 \in Int /\ ref' \in Int
      BY <2>1
    <3>. QED
      BY <3>1, FS_Interval
  <2>3. Changed(k)' \subseteq Reachable'
    BY DEF Changed
  <2>4. Changed(k)' \in SUBSET (1..ref')
    BY <2>1, <2>3
  <2>. QED
    BY <2>1, <2>2, <2>4, FS_Subset
<1>. QED
  BY <1>2, <1>3

\* What a history has still to come upon stays behind the pages it went through.
LEMMA ReadKept ==
    ASSUME IInv, IInv', Grown, NEW me, ReadOK(me)
    PROVE  ReadOK(me)'
<1>1. /\ me \in Call /\ Len(me.listed) <= HistoryLimit
      /\ {me.start, me.base, me.commit, me.write} \subseteq 0..Len(commits)
      /\ me.start \in {NoCommit} \cup Reachable
      /\ me.start # NoCommit /\ me.base # NoCommit => me.start \in Past(me.base)
      /\ me.pc = "readPage" => me.op = "history" /\ me.key \in Keys /\ FoundSoFar(me)
      /\ me.op = "history" /\ me.pc = "readObjects" /\ Len(me.listed) < HistoryLimit =>
            \A c \in Wanted(me) : c \in ToSet(me.listed)
  BY DEF ReadOK
<1>2. /\ {me.start, me.base, me.commit, me.write} \subseteq 0..Len(commits)'
      /\ Past(me.start)' = Past(me.start) /\ Past(me.base)' = Past(me.base)
      /\ me.start \in {NoCommit} \cup Reachable'
  <2>1. /\ 0..Len(commits) \subseteq 0..Len(commits)'
        /\ \A c \in 0..Len(commits) : Past(c)' = Past(c)
    BY OldCommitsStay
  <2>. QED
    BY <1>1, <2>1 DEF Grown
<1>3. Wanted(me)' = Wanted(me)
  <2>1. ASSUME NEW c \in Past(me.start)
        PROVE  Tree(c)' = Tree(c) /\ (Tree(commits[c].parent))' = Tree(commits[c].parent)
    <3>1. c \in 1..Len(commits) /\ c \in 0..Len(commits)
      <4>1. me.start \in 0..Len(commits) /\ Len(commits) \in Nat
        BY <1>1, ReachableFacts
      <4>2. Past(me.start) \subseteq 1..me.start
        BY <4>1, PastTyped DEF IInv
      <4>. QED
        BY <4>1, <4>2
    <3>2. PICK b : b = commits[c].parent
      OBVIOUS
    <3>3. commits'[c] = commits[c] /\ b \in 0..Len(commits)
      BY <3>1, <3>2, ReachableFacts, OldCommitsStay
    <3>4. Tree(c)' = Tree(c) /\ Tree(b)' = Tree(b)
      BY <3>1, <3>3, OldCommitsStay
    <3>5. (Tree(commits[c].parent))' = Tree(b)'
      BY <3>2, <3>3 DEF Tree
    <3>. QED
      BY <3>2, <3>4, <3>5
  <2>. QED
    BY <1>2, <2>1 DEF Wanted
<1>4. FoundSoFar(me) => FoundSoFar(me)'
  <2>1. SUFFICES ASSUME FoundSoFar(me), NEW c \in Wanted(me), c \notin ToSet(me.listed)
                 PROVE  Place(c, Changed(me.key)') > me.skip
    BY <1>3 DEF FoundSoFar
  <2>2. Place(c, Changed(me.key)) > me.skip /\ me.skip \in Nat
    BY <1>1, <2>1 DEF FoundSoFar, Call
  <2>3. PICK k : k = me.key
    OBVIOUS
  <2>4. PICK S, T : S = Changed(k) /\ T = Changed(k)'
    OBVIOUS
  <2>5. T \in SUBSET Nat /\ IsFiniteSet(T) /\ S \in SUBSET T
    BY <2>4, ListGrows
  <2>6. Place(c, S) <= Place(c, T) /\ Place(c, S) \in Nat /\ Place(c, T) \in Nat
    BY <2>5, PlaceGrows
  <2>7. Place(c, T) > me.skip
    BY <2>2, <2>3, <2>4, <2>6
  <2>. QED
    BY <2>3, <2>4, <2>7
<1>. QED
  BY <1>1, <1>2, <1>3, <1>4 DEF ReadOK

\* The commits of others only add up; one that was not there before is another's
\* or the one the call itself waits for.
LEMMA BudgetKept ==
    ASSUME IInv, IInv', Grown, NEW me, ReadOK(me), BudgetOK(me),
           \A c \in Reachable' \ Reachable :
                me.pc = "moveRef" => commits'[c].write # me.write \/ c = me.commit
    PROVE  BudgetOK(me)'
<1>1. /\ me.start \in 0..Len(commits) /\ me.base \in 0..Len(commits)
      /\ me.attempt \in Nat
  BY GitHubAssumption DEF ReadOK, Call
<1>2. /\ Past(me.start)' = Past(me.start) /\ Past(me.base)' = Past(me.base)
      /\ Reachable \subseteq Reachable' /\ Reachable \subseteq 1..Len(commits)
      /\ \A c \in 1..Len(commits) : commits'[c] = commits[c]
  BY <1>1, OldCommitsStay, ReachableFacts DEF Grown
<1>3. ASSUME me.pc = "readRef"
      PROVE  Cardinality(Ahead(me, Reachable)') >= me.attempt
  <2>1. Ahead(me, Reachable) \subseteq Ahead(me, Reachable)'
    BY <1>2 DEF Ahead
  <2>2. IsFiniteSet(Ahead(me, Reachable)')
    <3>1. IsFiniteSet(Reachable')
      <4>1. Len(commits)' \in Nat /\ Reachable' \subseteq 1..Len(commits)'
        <5>1. GraphInv'
          BY DEF IInv
        <5>2. Len(commits)' \in Nat /\ ref' \in 0..Len(commits)'
          BY <5>1 DEF GraphInv
        <5>3. ref' # NoCommit => commits'[ref'].past \subseteq 1..ref'
          BY <5>1, <5>2 DEF GraphInv, NoCommit
        <5>. QED
          BY <5>2, <5>3 DEF Reachable, Past
      <4>2. IsFiniteSet(1..Len(commits)')
        <5>1. 1 \in Int /\ Len(commits)' \in Int
          BY <4>1
        <5>. QED
          BY <5>1, FS_Interval
      <4>. QED
        BY <4>1, <4>2, FS_Subset
    <3>2. Ahead(me, Reachable)' \in SUBSET Reachable'
      BY DEF Ahead
    <3>. QED
      BY <3>1, <3>2, FS_Subset
  <2>3. PICK S, T : S = Ahead(me, Reachable) /\ T = Ahead(me, Reachable)'
    OBVIOUS
  <2>4. /\ Cardinality(S) <= Cardinality(T)
        /\ Cardinality(S) \in Nat /\ Cardinality(T) \in Nat
    BY <2>1, <2>2, <2>3, FS_Subset, FS_CardinalityType
  <2>5. Cardinality(S) >= me.attempt
    BY <1>3, <2>3 DEF BudgetOK
  <2>. QED
    BY <1>1, <2>3, <2>4, <2>5
<1>4. ASSUME me.pc = "moveRef"
      PROVE  /\ Cardinality(Ahead(me, Past(me.base))') >= me.attempt
             /\ \A c \in Reachable' :
                    commits'[c].write = me.write => c \in Past(me.base)' \cup {me.commit}
  <2>1. Past(me.base) \subseteq 1..Len(commits)
    <3>1. Len(commits) \in Nat /\ Past(me.base) \subseteq 1..me.base
      BY <1>1, PastTyped DEF IInv
    <3>. QED
      BY <1>1, <3>1
  <2>2. Ahead(me, Past(me.base))' = Ahead(me, Past(me.base))
    BY <1>2, <2>1 DEF Ahead
  <2>3. Cardinality(Ahead(me, Past(me.base))) >= me.attempt
    BY <1>4 DEF BudgetOK
  <2>4. ASSUME NEW c \in Reachable', commits'[c].write = me.write
        PROVE  c \in Past(me.base)' \cup {me.commit}
    <3>1. CASE c \in Reachable
      BY <1>2, <1>4, <2>4, <3>1 DEF BudgetOK
    <3>2. CASE c \notin Reachable
      BY <1>4, <2>4, <3>2
    <3>. QED
      BY <3>1, <3>2
  <2>. QED
    BY <2>2, <2>3, <2>4
<1>. QED
  BY <1>3, <1>4 DEF BudgetOK

\* Field by field.
Typed(x) ==
    /\ x.pc \in {"idle", "readRef", "moveRef", "readObjects", "readPage"}
    /\ x.op \in {"put", "delete", "get", "history", "none"}
    /\ x.key \in Keys \cup {Absent} /\ x.val \in Values \cup {Absent}
    /\ x.start \in Nat /\ x.base \in Nat /\ x.commit \in Nat /\ x.write \in Nat
    /\ x.attempt \in 0..RetryBudget /\ x.sent \in 0..1 /\ x.skip \in Nat
    /\ x.listed \in Seq(Nat)

LEMMA CallFields ==
    ASSUME NEW x
    PROVE  x \in Call <=> Shaped(x) /\ Typed(x)
<1>1. ASSUME x \in Call PROVE Shaped(x)
  BY <1>1 DEF Call, Shaped, Fields
<1>2. ASSUME x \in Call PROVE Typed(x)
  BY <1>2 DEF Call, Typed
<1>3. ASSUME Shaped(x), Typed(x) PROVE x \in Call
  BY <1>3 DEF Call, Shaped, Fields, Typed
<1>. QED
  BY <1>1, <1>2, <1>3

\* What p goes on with, or Idle.
Leaves(p) ==
    \E x : call' = [call EXCEPT ![p] = x] /\ ReadOK(x)' /\ BudgetOK(x)'

LEMMA LeavesKnown ==
    ASSUME IInv, IInv', Grown, NEW p \in Clients, NEW x, ReadOK(x), BudgetOK(x),
           call' = [call EXCEPT ![p] = x],
           \A c \in Reachable' \ Reachable :
                x.pc = "moveRef" => commits'[c].write # x.write \/ c = x.commit
    PROVE  Leaves(p)
<1>1. ReadOK(x)' /\ BudgetOK(x)'
  BY ReadKept, BudgetKept
<1>. QED
  BY <1>1 DEF Leaves

LEMMA IdleKnows ==
    ASSUME IInv
    PROVE  ReadOK(Idle) /\ BudgetOK(Idle) /\ Idle.pc = "idle"
<1>1. Idle \in Call /\ Len(Idle.listed) = 0
  BY GitHubAssumption DEF Idle, Call, NoCommit
<1>2. /\ Idle.pc = "idle" /\ Idle.op = "none"
      /\ Idle.start = NoCommit /\ Idle.base = NoCommit
      /\ Idle.commit = NoCommit /\ Idle.write = NoCommit
  BY DEF Idle
<1>3. NoCommit \in 0..Len(commits) /\ Len(Idle.listed) <= HistoryLimit
  BY <1>1, ReachableFacts, GitHubAssumption DEF NoCommit
<1>. QED
  BY <1>1, <1>2, <1>3 DEF ReadOK, BudgetOK

LEMMA BegunKnows ==
    ASSUME IInv, NEW op \in {"put", "delete", "get", "history"},
           NEW k \in Keys \cup {Absent}, NEW val \in Values \cup {Absent}
    PROVE  LET me == Begun(op, k, val)
           IN  /\ ReadOK(me) /\ me.op = op /\ me.key = k /\ me.start = ref
               /\ me.base = NoCommit /\ me.write = NoCommit /\ me.attempt = 0
               /\ me.skip = 0 /\ me.pc = "idle"
<1> DEFINE me == Begun(op, k, val)
<1>1. PICK r : r = ref
  OBVIOUS
<1>2. me = [Idle EXCEPT !.op = op, !.key = k, !.val = val, !.start = r]
  BY <1>1 DEF Begun
<1>3. r \in 0..Len(commits) /\ r \in {NoCommit} \cup Reachable /\ Len(commits) \in Nat
  BY <1>1, ReachableFacts
<1>4. ASSUME NEW x, x = [Idle EXCEPT !.op = op, !.key = k, !.val = val, !.start = r]
      PROVE  /\ x \in Call /\ x.op = op /\ x.key = k /\ x.start = r
             /\ x.base = NoCommit /\ x.commit = NoCommit /\ x.write = NoCommit
             /\ x.attempt = 0 /\ x.skip = 0 /\ x.pc = "idle" /\ Len(x.listed) = 0
  <2>1. /\ Shaped(x) /\ x.op = op /\ x.key = k /\ x.val = val /\ x.start = r
        /\ x.base = NoCommit /\ x.commit = NoCommit /\ x.write = NoCommit
        /\ x.attempt = 0 /\ x.sent = 0 /\ x.skip = 0 /\ x.pc = "idle" /\ x.listed = <<>>
    BY <1>4 DEF Idle, Shaped, Fields
  <2>2. Len(x.listed) = 0 /\ x.listed \in Seq(Nat)
    BY <2>1
  <2>3. Typed(x)
    BY <1>3, <2>1, <2>2, GitHubAssumption DEF Typed, NoCommit
  <2>. QED
    BY <2>1, <2>2, <2>3, CallFields
<1> HIDE DEF me
<1>5. /\ me \in Call /\ me.op = op /\ me.key = k /\ me.start = r
      /\ me.base = NoCommit /\ me.commit = NoCommit /\ me.write = NoCommit
      /\ me.attempt = 0 /\ me.skip = 0 /\ me.pc = "idle" /\ Len(me.listed) = 0
  BY <1>2, <1>4
<1>6. NoCommit \in 0..Len(commits) /\ Len(me.listed) <= HistoryLimit
  BY <1>3, <1>5, GitHubAssumption DEF NoCommit
<1>7. ReadOK(me)
  BY <1>3, <1>5, <1>6 DEF ReadOK
<1>. QED
  BY <1>1, <1>5, <1>7 DEF me

\* A write that builds on the latest commit: all that others published since it
\* began is in the past of that.
LEMMA BuildKnows ==
    ASSUME IInv, IInv', Grown, NEW p \in Clients, NEW me, ReadOK(me),
           \/ me.attempt = 0
           \/ me.write # NoCommit /\ Cardinality(Ahead(me, Reachable)) >= me.attempt,
           Build(p, me, ref), ref' = ref
    PROVE  Leaves(p)
<1> DEFINE n == Len(commits)
           write == IF me.write = NoCommit THEN n + 1 ELSE me.write
<1>1. PICK r, w : r = ref /\ w = write
  OBVIOUS
<1>2. /\ n \in Nat /\ r \in 0..n /\ w \in 0..(n + 1) /\ me \in Call
      /\ {me.start, me.base, me.write} \subseteq 0..n
      /\ me.attempt \in Nat
  BY <1>1, ReachableFacts, GitHubAssumption DEF ReadOK, Call
<1>3. /\ commits' = Append(commits, NewCommit(me, r, w))
      /\ call' = [call EXCEPT ![p] = [me EXCEPT !.pc = "moveRef", !.base = r,
                                               !.commit = n + 1, !.write = w]]
  BY <1>1 DEF Build
<1>4. Len(commits') = n + 1
  <2>1. commits \in Seq(Commit)
    BY DEF IInv, GraphInv
  <2>. QED
    BY <1>3, <2>1
<1>5. PICK x : x = [me EXCEPT !.pc = "moveRef", !.base = r, !.commit = n + 1, !.write = w]
  OBVIOUS
<1>6. /\ x \in Call /\ x.pc = "moveRef" /\ x.base = r /\ x.commit = n + 1 /\ x.write = w
      /\ x.start = me.start /\ x.listed = me.listed /\ x.attempt = me.attempt
      /\ x.op = me.op /\ x.key = me.key
  <2>1. Shaped(me) /\ Typed(me)
    BY <1>2, CallFields
  <2>2. /\ Shaped(x) /\ x.pc = "moveRef" /\ x.base = r /\ x.commit = n + 1 /\ x.write = w
        /\ x.start = me.start /\ x.listed = me.listed /\ x.attempt = me.attempt
        /\ x.op = me.op /\ x.key = me.key /\ x.val = me.val /\ x.sent = me.sent
        /\ x.skip = me.skip
    BY <1>5, <2>1 DEF Shaped, Fields
  <2>3. Typed(x)
    BY <1>2, <2>1, <2>2 DEF Typed
  <2>. QED
    BY <2>2, <2>3, CallFields
<1>7. /\ Past(r)' = Reachable /\ Reachable' = Reachable /\ Past(me.start)' = Past(me.start)
      /\ \A c \in Reachable : commits'[c] = commits[c]
  <2>1. Past(r)' = Past(r) /\ Past(me.start)' = Past(me.start)
    BY <1>2, OldCommitsStay
  <2>2. Reachable' = Past(r)'
    BY <1>1 DEF Reachable, Past
  <2>3. \A c \in Reachable : commits'[c] = commits[c]
    BY ReachableFacts, OldCommitsStay
  <2>. QED
    BY <1>1, <2>1, <2>2, <2>3 DEF Reachable
<1>8. ReadOK(x)'
  <2>1. {x.start, x.base, x.commit, x.write} \subseteq 0..Len(commits)'
    BY <1>2, <1>4, <1>6
  <2>2. /\ Len(x.listed) <= HistoryLimit /\ x.start \in {NoCommit} \cup Reachable'
    BY <1>6, <1>7 DEF ReadOK
  <2>3. x.start # NoCommit => x.start \in Past(x.base)'
    BY <1>6, <1>7, <2>2
  <2>. QED
    BY <1>6, <2>1, <2>2, <2>3 DEF ReadOK
<1>9. BudgetOK(x)'
  <2>1. \A c \in Reachable' : c \in Past(x.base)'
    BY <1>6, <1>7
  <2>2. Cardinality(Ahead(x, Past(x.base))') >= x.attempt
    <3>1. CASE me.attempt = 0
      <4>1. Ahead(x, Past(x.base))' \in SUBSET Reachable
        BY <1>6, <1>7 DEF Ahead
      <4>2. IsFiniteSet(Reachable)
        BY ReachableFacts
      <4>3. Cardinality(Ahead(x, Past(x.base))') \in Nat
        BY <4>1, <4>2, FS_Subset, FS_CardinalityType
      <4>. QED
        BY <1>6, <3>1, <4>3
    <3>2. CASE me.write # NoCommit /\ Cardinality(Ahead(me, Reachable)) >= me.attempt
      <4>1. w = me.write
        BY <1>1, <3>2
      <4>2. Ahead(x, Past(x.base))' = Ahead(me, Reachable)
        BY <1>6, <1>7, <4>1 DEF Ahead
      <4>. QED
        BY <1>6, <3>2, <4>2
    <3>. QED
      BY <3>1, <3>2
  <2>. QED
    BY <1>6, <2>1, <2>2 DEF BudgetOK
<1>. QED
  BY <1>3, <1>5, <1>8, <1>9 DEF Leaves

LEMMA Joined ==
    ASSUME NEW s \in Seq(Nat), NEW t \in Seq(Nat)
    PROVE  /\ s \o t \in Seq(Nat)
           /\ \A c \in ToSet(s) : c \in ToSet(s \o t)
           /\ \A i \in DOMAIN t : t[i] \in ToSet(s \o t)
<1>1. /\ s \o t \in Seq(Nat) /\ Len(s \o t) = Len(s) + Len(t)
      /\ Len(s) \in Nat /\ Len(t) \in Nat
      /\ DOMAIN s = 1..Len(s) /\ DOMAIN t = 1..Len(t)
  OBVIOUS
<1>2. /\ \A i \in 1..Len(s) : (s \o t)[i] = s[i]
      /\ \A i \in 1..Len(t) : (s \o t)[Len(s) + i] = t[i]
  OBVIOUS
<1>3. PICK u : u = s \o t
  OBVIOUS
<1>4. DOMAIN u = 1..(Len(s) + Len(t))
  BY <1>1, <1>3
<1>5. \A i \in 1..Len(s) : i \in DOMAIN u /\ u[i] = s[i]
  BY <1>1, <1>2, <1>3, <1>4
<1>6. \A i \in 1..Len(t) : Len(s) + i \in DOMAIN u /\ u[Len(s) + i] = t[i]
  BY <1>1, <1>2, <1>3, <1>4
<1>7. \A c \in ToSet(s) : c \in ToSet(u)
  BY <1>1, <1>5 DEF ToSet
<1>8. \A i \in DOMAIN t : t[i] \in ToSet(u)
  BY <1>1, <1>6 DEF ToSet
<1>. QED
  BY <1>1, <1>3, <1>7, <1>8

LEMMA Truncated ==
    ASSUME NEW s \in Seq(Nat), NEW n \in Nat
    PROVE  LET t == SubSeq(s, 1, Min({n, Len(s)}))
           IN  /\ t \in Seq(Nat) /\ Len(t) <= n
               /\ Len(s) < n => t = s
               /\ Len(s) >= n => Len(t) = n
<1>1. Len(s) \in Nat
  OBVIOUS
<1>2. PICK m : m = Min({n, Len(s)})
  OBVIOUS
<1>3. m \in {n, Len(s)} /\ m <= n /\ m <= Len(s)
  <2>1. \E x \in {n, Len(s)} : \A y \in {n, Len(s)} : x <= y
    BY <1>1
  <2>. QED
    BY <1>1, <1>2, <2>1 DEF Min
<1>4. SubSeq(s, 1, m) \in Seq(Nat) /\ Len(SubSeq(s, 1, m)) = m
  BY <1>1, <1>3
<1>5. SubSeq(s, 1, Len(s)) = s
  OBVIOUS
<1>6. Len(s) < n => m = Len(s)
  BY <1>1, <1>3
<1>7. Len(s) >= n => m = n
  BY <1>1, <1>3
<1>. QED
  BY <1>1, <1>2, <1>3, <1>4, <1>5, <1>6, <1>7

\* A page comes upon every wanted version whose place is on it.
LEMMA PageKnows ==
    ASSUME IInv, IInv', Grown, UNCHANGED server, NEW p \in Clients, NEW me,
           ReadOK(me), me.op = "history", me.key \in Keys, FoundSoFar(me), Page(p, me)
    PROVE  Leaves(p)
<1> DEFINE list  == Changed(me.key)
           past  == me.skip + PerPage
           page  == {c \in list : Place(c, list) \in (me.skip + 1)..past}
           held  == {c \in page : Tree(c)[me.key] # Absent}
           found == NewestFirst(held)
           all   == me.listed \o found
           more  == Len(all) < HistoryLimit /\ past < Cardinality(list)
           kept  == SubSeq(all, 1, Min({HistoryLimit, Len(all)}))
<1>1. Shaped(me) /\ Typed(me) /\ me \in Call
  BY CallFields DEF ReadOK
<1>2. past \in Nat /\ HistoryLimit \in Nat /\ me.skip \in Nat
  BY <1>1, GitHubAssumption DEF Typed
<1>3. list \in SUBSET Nat /\ IsFiniteSet(list) /\ list \subseteq Reachable
  <2>1. Reachable \in SUBSET Nat /\ IsFiniteSet(Reachable)
    BY ReachableFacts
  <2>2. list \in SUBSET Reachable
    BY DEF Changed
  <2> HIDE DEF list
  <2>. QED
    BY <2>1, <2>2, FS_Subset
<1>4. Cardinality(list) \in Nat
  BY <1>3, FS_CardinalityType
<1>5. found \in Seq(Nat) /\ \A c \in held : \E i \in DOMAIN found : found[i] = c
  <2>1. held \in SUBSET list
    OBVIOUS
  <2> HIDE DEF held, list
  <2>2. held \in SUBSET Nat /\ IsFiniteSet(held)
    BY <1>3, <2>1, FS_Subset
  <2>. QED
    BY <2>2, NewestFirstLists
<1>6. /\ all \in Seq(Nat) /\ Len(all) \in Nat
      /\ \A c \in ToSet(me.listed) : c \in ToSet(all)
      /\ \A c \in held : c \in ToSet(all)
  <2>1. me.listed \in Seq(Nat)
    BY <1>1 DEF Typed
  <2> HIDE DEF found, held
  <2>2. /\ all \in Seq(Nat)
        /\ \A c \in ToSet(me.listed) : c \in ToSet(all)
        /\ \A i \in DOMAIN found : found[i] \in ToSet(all)
    BY <1>5, <2>1, Joined
  <2> HIDE DEF all
  <2>. QED
    BY <1>5, <2>2
<1>7. /\ kept \in Seq(Nat) /\ Len(kept) <= HistoryLimit
      /\ Len(all) < HistoryLimit => kept = all
      /\ Len(all) >= HistoryLimit => Len(kept) = HistoryLimit
  <2> HIDE DEF all
  <2>. QED
    BY <1>2, <1>6, Truncated
<1>8. PICK x : x = [me EXCEPT !.pc = IF more THEN "readPage" ELSE "readObjects",
                              !.skip = IF more THEN past ELSE @, !.listed = kept]
  OBVIOUS
<1>9. call' = [call EXCEPT ![p] = x]
  BY <1>8 DEF Page
<1> HIDE DEF list, page, held, found, all, kept
<1>10. /\ Shaped(x) /\ x.pc = (IF more THEN "readPage" ELSE "readObjects")
       /\ x.skip = (IF more THEN past ELSE me.skip) /\ x.listed = kept
       /\ x.op = me.op /\ x.key = me.key /\ x.val = me.val /\ x.start = me.start
       /\ x.base = me.base /\ x.commit = me.commit /\ x.write = me.write
       /\ x.attempt = me.attempt /\ x.sent = me.sent
  <2> HIDE DEF more, past
  <2>. QED
    BY <1>1, <1>8 DEF Shaped, Fields
<1>11. x \in Call /\ x.pc \in {"readPage", "readObjects"}
  <2>1. x.skip \in Nat
    BY <1>2, <1>10
  <2> HIDE DEF more, past
  <2>2. Typed(x)
    BY <1>1, <1>7, <1>10, <2>1 DEF Typed
  <2>. QED
    BY <1>10, <2>2, CallFields
<1>12. Wanted(x) = Wanted(me)
  BY <1>10 DEF Wanted
<1>13. ASSUME NEW c \in Wanted(me) PROVE c \in list
  <2>1. c \in Past(me.start) /\ Tree(c)[me.key] # Tree(commits[c].parent)[me.key]
    BY DEF Wanted
  <2>2. c \in Reachable
    <3>1. me.start \in Reachable
      BY <2>1 DEF ReadOK, Past
    <3>. QED
      BY <2>1, <3>1, ReachableFacts
  <2>. QED
    BY <2>1, <2>2 DEF list, Changed
<1>14. ASSUME NEW c \in Wanted(me), ~(c \in ToSet(all))
       PROVE  Place(c, list) > past
  <2>1. c \in list /\ Place(c, list) > me.skip
    BY <1>6, <1>13, <1>14 DEF FoundSoFar, list
  <2>2. Place(c, list) \in 1..Cardinality(list)
    BY <1>3, <2>1, PlaceTyped
  <2>3. Tree(c)[me.key] # Absent
    BY DEF Wanted
  <2>4. c \notin held
    BY <1>6, <1>14
  <2>5. c \notin page
    BY <2>3, <2>4 DEF held
  <2>6. Place(c, list) \notin (me.skip + 1)..past
    BY <2>1, <2>5 DEF page
  <2>. QED
    BY <1>2, <1>4, <2>1, <2>2, <2>6
<1>15. ReadOK(x)
  <2>1. /\ {x.start, x.base, x.commit, x.write} \subseteq 0..Len(commits)
        /\ Len(x.listed) <= HistoryLimit
        /\ x.start \in {NoCommit} \cup Reachable
        /\ x.start # NoCommit /\ x.base # NoCommit => x.start \in Past(x.base)
    BY <1>7, <1>10 DEF ReadOK
  <2>2. ASSUME x.pc = "readPage" PROVE x.op = "history" /\ x.key \in Keys /\ FoundSoFar(x)
    <3>1. more
      BY <1>10, <2>2
    <3>2. x.skip = past /\ x.listed = all
      BY <1>7, <1>10, <3>1
    <3>3. FoundSoFar(x)
      BY <1>10, <1>12, <1>14, <3>2 DEF FoundSoFar, list
    <3>. QED
      BY <1>10, <3>3
  <2>3. ASSUME x.pc = "readObjects", Len(x.listed) < HistoryLimit, NEW c \in Wanted(x)
        PROVE  c \in ToSet(x.listed)
    <3>1. ~more
      BY <1>10, <2>3
    <3>2. Len(all) < HistoryLimit /\ x.listed = all
      BY <1>2, <1>6, <1>7, <1>10, <2>3
    <3>3. past >= Cardinality(list)
      BY <1>2, <1>4, <3>1, <3>2
    <3>4. c \in list /\ Place(c, list) \in 1..Cardinality(list)
      BY <1>3, <1>12, <1>13, PlaceTyped
    <3>5. ~(Place(c, list) > past)
      BY <1>2, <1>4, <3>3, <3>4
    <3>. QED
      BY <1>12, <1>14, <3>2, <3>5
  <2>. QED
    BY <1>11, <2>1, <2>2, <2>3 DEF ReadOK
<1>16. BudgetOK(x)
  BY <1>11 DEF BudgetOK
<1>. QED
  BY <1>9, <1>11, <1>15, <1>16, LeavesKnown

\* A refused fast-forward is the sign of a commit of another's the call does not
\* know: an attempt is lost to it, and to no commit the call lost one to before.
LEMMA LostToAnother ==
    ASSUME IInv, NEW p \in Clients, call[p].pc = "moveRef",
           ReadOK(call[p]), BudgetOK(call[p]), Conflict(call[p])
    PROVE  Cardinality(Ahead(call[p], Reachable)) >= call[p].attempt + 1
<1> DEFINE me == call[p]
           b  == me.base
<1>1. GraphInv /\ MoveOK(me)
  BY DEF IInv, CallsInv, CallOK
<1>2. /\ me.commit \in 1..Len(commits) /\ commits[me.commit].parent = b
      /\ b # NoCommit /\ b \in Reachable /\ ref \notin Past(me.commit)
  BY <1>1 DEF MoveOK, Conflict, Accepts
<1>3. /\ Len(commits) \in Nat /\ b \in 1..Len(commits) /\ IsFiniteSet(Reachable)
      /\ Past(b) \subseteq Reachable /\ ref \in Reachable
  BY <1>2, ReachableFacts DEF Reachable, Past
<1>4. Past(me.commit) = {me.commit} \cup Past(b) /\ Past(b) = commits[b].past
  BY <1>1, <1>2, <1>3, PastTyped DEF GraphInv, PastIn
<1>5. ref \notin Past(b) /\ commits[ref].write # me.write
  <2>1. ref # me.commit /\ ref \notin Past(b)
    BY <1>2, <1>4
  <2>2. commits[ref].write = me.write => ref \in Past(b) \cup {me.commit}
    BY <1>3 DEF BudgetOK
  <2>. QED
    BY <2>1, <2>2
<1>6. ref \notin Past(me.start)
  <2>1. CASE me.start = NoCommit
    BY <2>1 DEF Past
  <2>2. CASE me.start # NoCommit
    <3>1. me.start \in Past(b)
      BY <1>2, <2>2 DEF ReadOK
    <3>2. commits[me.start].past \subseteq commits[b].past
      BY <1>1, <1>3, <1>4, <3>1 DEF GraphInv
    <3>3. Past(me.start) = commits[me.start].past
      BY <2>2 DEF Past
    <3>. QED
      BY <1>4, <1>5, <3>2, <3>3
  <2>. QED
    BY <2>1, <2>2
<1>7. PICK S, T : S = Ahead(me, Past(b)) /\ T = Ahead(me, Reachable)
  OBVIOUS
<1>8. S \in SUBSET Reachable /\ T \in SUBSET Reachable
  BY <1>3, <1>7 DEF Ahead
<1>9. ref \notin S /\ S \cup {ref} \in SUBSET T
  BY <1>3, <1>5, <1>6, <1>7 DEF Ahead
<1>10. IsFiniteSet(S) /\ IsFiniteSet(T)
  BY <1>3, <1>8, FS_Subset
<1>11. Cardinality(S) \in Nat /\ Cardinality(T) \in Nat
  BY <1>10, FS_CardinalityType
<1>12. Cardinality(S \cup {ref}) = Cardinality(S) + 1
  BY <1>9, <1>10, FS_AddElement
<1>13. Cardinality(S \cup {ref}) <= Cardinality(T)
  BY <1>9, <1>10, FS_Subset
<1>14. Cardinality(S) >= me.attempt
  BY <1>7 DEF BudgetOK
<1>15. me.attempt \in Nat
  BY GitHubAssumption DEF ReadOK, Call
<1>. QED
  BY <1>7, <1>11, <1>12, <1>13, <1>14, <1>15

LEMMA ReturnKnows ==
    ASSUME IInv, IInv', Grown, NEW p \in Clients, Return(p)
    PROVE  Leaves(p)
<1>1. ReadOK(Idle) /\ BudgetOK(Idle) /\ Idle.pc # "moveRef"
  BY IdleKnows
<1>2. call' = [call EXCEPT ![p] = Idle]
  BY DEF Return
<1>. QED
  BY <1>1, <1>2, LeavesKnown

LEMMA RefusedKnows ==
    ASSUME IInv, IInv', Grown, NEW p \in Clients, ReadOK(call[p]), BudgetOK(call[p]),
           MoveRefused(p)
    PROVE  Leaves(p)
<1> DEFINE me == call[p]
<1>1. me.pc = "moveRef"
  BY DEF MoveRefused
<1>2. CASE Conflict(me) /\ Tries(me)
  <2>1. PICK x : x = [me EXCEPT !.pc = "readRef", !.attempt = @ + 1, !.sent = 0]
    OBVIOUS
  <2>2. call' = [call EXCEPT ![p] = x]
    BY <1>2, <2>1 DEF MoveRefused
  <2>3. Shaped(me) /\ Typed(me) /\ me.op = "put" /\ me.attempt < RetryBudget
    BY <1>2, CallFields DEF ReadOK, Tries
  <2>4. /\ Shaped(x) /\ x.pc = "readRef" /\ x.attempt = me.attempt + 1 /\ x.sent = 0
        /\ x.op = me.op /\ x.key = me.key /\ x.val = me.val /\ x.start = me.start
        /\ x.base = me.base /\ x.commit = me.commit /\ x.write = me.write
        /\ x.skip = me.skip /\ x.listed = me.listed
    <3>1. PICK m, a : m = me /\ a = me.attempt + 1
      OBVIOUS
    <3>2. Shaped(m) /\ x = [m EXCEPT !.pc = "readRef", !.attempt = a, !.sent = 0]
      BY <2>1, <2>3, <3>1
    <3>3. /\ Shaped(x) /\ x.pc = "readRef" /\ x.attempt = a /\ x.sent = 0
          /\ x.op = m.op /\ x.key = m.key /\ x.val = m.val /\ x.start = m.start
          /\ x.base = m.base /\ x.commit = m.commit /\ x.write = m.write
          /\ x.skip = m.skip /\ x.listed = m.listed
      BY <3>2 DEF Shaped, Fields
    <3>. QED
      BY <3>1, <3>3
  <2>5. x.attempt \in 0..RetryBudget
    BY <2>3, <2>4, GitHubAssumption DEF Typed
  <2>6. x \in Call
    <3>1. Typed(x)
      BY <2>3, <2>4, <2>5 DEF Typed
    <3>. QED
      BY <2>4, <3>1, CallFields
  <2>7. ReadOK(x)
    BY <2>3, <2>4, <2>6 DEF ReadOK
  <2>8. BudgetOK(x)
    <3>1. Cardinality(Ahead(me, Reachable)) >= me.attempt + 1
      BY <1>1, <1>2, LostToAnother
    <3>2. Ahead(x, Reachable) = Ahead(me, Reachable)
      BY <2>4 DEF Ahead
    <3>. QED
      BY <2>4, <3>1, <3>2 DEF BudgetOK
  <2>9. x.pc # "moveRef"
    BY <2>4
  <2>. QED
    BY <2>2, <2>7, <2>8, <2>9, LeavesKnown
<1>3. CASE ~(Conflict(me) /\ Tries(me))
  BY <1>3, ReturnKnows DEF MoveRefused
<1>. QED
  BY <1>2, <1>3

\* The request is sent again, whether or not it has moved the ref.
LEMMA SentAgainKnows ==
    ASSUME IInv, IInv', Grown, NEW p \in Clients, ReadOK(call[p]), BudgetOK(call[p]),
           NEW x, x = call[p] \/ x = [call[p] EXCEPT !.sent = 1],
           call' = [call EXCEPT ![p] = x],
           \A c \in Reachable' \ Reachable : c = call[p].commit
    PROVE  Leaves(p)
<1> DEFINE me == call[p]
<1>1. Shaped(me) /\ Typed(me)
  BY CallFields DEF ReadOK
<1>2. /\ Shaped(x) /\ x.pc = me.pc /\ x.attempt = me.attempt /\ x.sent \in {me.sent, 1}
      /\ x.op = me.op /\ x.key = me.key /\ x.val = me.val /\ x.start = me.start
      /\ x.base = me.base /\ x.commit = me.commit /\ x.write = me.write
      /\ x.skip = me.skip /\ x.listed = me.listed
  <2>1. CASE x = me
    BY <1>1, <2>1
  <2>2. CASE x = [me EXCEPT !.sent = 1]
    BY <1>1, <2>2 DEF Shaped, Fields
  <2>. QED
    BY <2>1, <2>2
<1>3. x \in Call
  <2>1. Typed(x)
    BY <1>1, <1>2 DEF Typed
  <2>. QED
    BY <1>2, <2>1, CallFields
<1>4. Wanted(x) = Wanted(me)
  BY <1>2 DEF Wanted
<1>5. ReadOK(x)
  BY <1>2, <1>3, <1>4 DEF ReadOK, FoundSoFar
<1>6. BudgetOK(x)
  <2>1. Ahead(x, Reachable) = Ahead(me, Reachable) /\ Ahead(x, Past(me.base)) = Ahead(me, Past(me.base))
    BY <1>2 DEF Ahead
  <2>. QED
    BY <1>2, <2>1 DEF BudgetOK
<1>. QED
  BY <1>2, <1>5, <1>6, LeavesKnown

\* What a step of p makes of the published commits.
Reaches(p) ==
    \/ Reachable' = Reachable
    \/ call[p].pc = "moveRef" /\ Reachable' = Reachable \cup {call[p].commit}

LEMMA Grows ==
    ASSUME IInv, Next
    PROVE  IInv' /\ Grown
<1>1. IInv' /\ (Still \/ \E p \in Clients : Publishes(call[p]))
  BY NextStep
<1>2. commits' = commits \/ \E c : commits' = Append(commits, c)
  BY DEF Next, Put, PutAgain, Delete, Get, ReadObjects, History, HistoryGoesOn, MoveRef,
         MoveRefused, ServerFails, HostRepeats, TransportFails, Fails, Build, server
<1>3. /\ Len(commits) \in Nat /\ Len(commits') \in Nat /\ Len(commits) <= Len(commits')
  <2>1. commits \in Seq(Commit) /\ commits' \in Seq(Commit)
    BY <1>1 DEF IInv, GraphInv
  <2>. QED
    BY <1>2, <2>1
<1>4. \A c \in 1..Len(commits) : commits'[c] = commits[c]
  BY <1>1 DEF Still, Publishes
<1>5. Reachable \subseteq Reachable'
  <2>1. CASE Still
    <3>1. ref' = ref /\ (ref = NoCommit \/ ref \in 1..Len(commits))
      BY <1>3, <2>1, ReachableFacts DEF Still, NoCommit
    <3>. QED
      BY <1>4, <3>1 DEF Reachable, Past
  <2>2. CASE \E p \in Clients : Publishes(call[p])
    BY <2>2 DEF Publishes
  <2>. QED
    BY <1>1, <2>1, <2>2
<1>. QED
  BY <1>1, <1>3, <1>4, <1>5 DEF Grown

\* What the server does when a request to move the ref reaches it, or does not.
LEMMA UnheardReaches ==
    ASSUME IInv, NEW p \in Clients, call[p].pc = "moveRef", commits' = commits,
           ref' = ref \/ (Accepts(call[p]) /\ ref' = call[p].commit)
    PROVE  Reaches(p) /\ \A c \in Reachable' \ Reachable : c = call[p].commit
<1>1. CASE ref' = ref
  BY <1>1 DEF Reaches, Reachable, Past
<1>2. CASE Accepts(call[p]) /\ ref' = call[p].commit
  <2>1. GraphInv /\ MoveOK(call[p])
    BY DEF IInv, CallsInv, CallOK
  <2>2. \/ ref = call[p].commit
        \/ Past(call[p].commit) = Reachable \cup {call[p].commit}
    BY <1>2, <2>1, MovePublishes
  <2>3. Reachable' = Past(call[p].commit)
    BY <1>2 DEF Reachable, Past
  <2>. QED
    BY <2>2, <2>3 DEF Reaches, Reachable
<1>. QED
  BY <1>1, <1>2

LEMMA QuietReaches ==
    ASSUME IInv, Grown, ref' = ref, NEW p
    PROVE  Reaches(p)
<1>1. ref = NoCommit \/ ref \in 1..Len(commits)
  BY ReachableFacts DEF NoCommit
<1>. QED
  BY <1>1 DEF Grown, Reaches, Reachable, Past

LEMMA PublishKnows ==
    ASSUME IInv, IInv', Grown, NEW p \in Clients, ReadOK(call[p]), BudgetOK(call[p]),
           MoveRef(p) \/ ServerFails(p) \/ HostRepeats(p) \/ TransportFails(p)
    PROVE  Leaves(p) /\ Reaches(p)
<1>1. call[p].pc = "moveRef" /\ commits' = commits
  BY DEF MoveRef, ServerFails, HostRepeats, TransportFails
<1>2. ref' = ref \/ (Accepts(call[p]) /\ ref' = call[p].commit)
  BY DEF MoveRef, ServerFails, HostRepeats, TransportFails, Unheard
<1>3. Reaches(p) /\ \A c \in Reachable' \ Reachable : c = call[p].commit
  BY <1>1, <1>2, UnheardReaches
<1>4. CASE MoveRef(p) \/ TransportFails(p)
  BY <1>3, <1>4, ReturnKnows DEF MoveRef, TransportFails
<1>5. CASE HostRepeats(p)
  <2>1. call' = [call EXCEPT ![p] = call[p]]
    BY <1>5 DEF HostRepeats, IInv, CallsInv
  <2>. QED
    BY <1>3, <2>1, SentAgainKnows
<1>6. CASE ServerFails(p)
  <2>1. CASE call[p].sent = 0
    <3>1. PICK x : x = [call[p] EXCEPT !.sent = 1]
      OBVIOUS
    <3>2. call' = [call EXCEPT ![p] = x]
      BY <1>6, <2>1, <3>1 DEF ServerFails
    <3>. QED
      BY <1>3, <3>1, <3>2, SentAgainKnows
  <2>2. CASE call[p].sent # 0
    <3>1. Return(p)
      BY <1>6, <2>2 DEF ServerFails, Return
    <3>. QED
      BY <1>3, <3>1, ReturnKnows
  <2>. QED
    BY <2>1, <2>2
<1>. QED
  BY <1>3, <1>4, <1>5, <1>6

LEMMA WriterKnows ==
    ASSUME IInv, IInv', Grown, NEW p \in Clients, ReadOK(call[p]), BudgetOK(call[p]),
           NEW k \in Keys,
           Delete(p, k) \/ (\E val \in Values : Put(p, k, val)) \/ PutAgain(p)
    PROVE  Leaves(p) /\ Reaches(p)
<1>1. ref' = ref
  BY DEF Delete, Put, PutAgain
<1>2. Reaches(p)
  BY <1>1, QuietReaches
<1>3. ASSUME NEW val \in Values, Put(p, k, val) PROVE Leaves(p)
  <2>1. /\ ReadOK(Begun("put", k, val)) /\ Begun("put", k, val).attempt = 0
        /\ Build(p, Begun("put", k, val), ref)
    BY <1>3, BegunKnows DEF Put
  <2>. QED
    BY <1>1, <2>1, BuildKnows
<1>4. CASE Delete(p, k)
  <2>1. ReadTip(p) = ref
    BY DEF ReadTip
  <2>2. CASE Tree(ref)[k] = Absent
    <3>1. Return(p)
      BY <1>4, <2>1, <2>2 DEF Delete
    <3>. QED
      BY <1>2, <3>1, ReturnKnows
  <2>3. CASE Tree(ref)[k] # Absent
    <3>1. /\ ReadOK(Begun("delete", k, Absent)) /\ Begun("delete", k, Absent).attempt = 0
          /\ Build(p, Begun("delete", k, Absent), ref)
      BY <1>4, <2>1, <2>3, BegunKnows DEF Delete
    <3>. QED
      BY <1>1, <1>2, <3>1, BuildKnows
  <2>. QED
    BY <2>2, <2>3
<1>5. CASE PutAgain(p)
  <2>1. call[p].pc = "readRef" /\ Build(p, call[p], ref)
    BY <1>5 DEF PutAgain
  <2>2. call[p].write # NoCommit
    BY <2>1 DEF IInv, WriteInv, WriteOK, Active, NoCommit
  <2>3. Cardinality(Ahead(call[p], Reachable)) >= call[p].attempt
    BY <2>1 DEF BudgetOK
  <2>. QED
    BY <1>1, <1>2, <2>1, <2>2, <2>3, BuildKnows
<1>. QED
  BY <1>2, <1>3, <1>4, <1>5

\* The tip cache stands for the commit the server answers with, or for nothing:
\* a call that reads begins on what is published then.
LEMMA ReaderKnows ==
    ASSUME IInv, IInv', Grown, NEW p \in Clients, ReadOK(call[p]), BudgetOK(call[p]),
           \/ Get(p) \/ ReadObjects(p) \/ (\E k \in Keys : History(p, k))
           \/ HistoryGoesOn(p) \/ MoveRefused(p) \/ Fails(p)
    PROVE  Leaves(p) /\ Reaches(p)
<1>1. UNCHANGED server /\ ref' = ref
  BY DEF Get, ReadObjects, History, HistoryGoesOn, MoveRefused, Fails, server
<1>2. Reaches(p)
  BY <1>1, QuietReaches
<1>3. CASE Get(p)
  <2>1. PICK b, r : b = Begun("get", Absent, Absent) /\ r = ref
    OBVIOUS
  <2>2. PICK x : x = [b EXCEPT !.pc = "readObjects", !.base = r]
    OBVIOUS
  <2>3. call' = [call EXCEPT ![p] = x] /\ r # NoCommit
    BY <1>3, <2>1, <2>2 DEF Get, ReadTip
  <2>4. ReadOK(b) /\ b.op = "get" /\ b.start = r
    BY <2>1, BegunKnows
  <2>5. Shaped(b) /\ Typed(b)
    BY <2>4, CallFields DEF ReadOK
  <2>6. /\ Shaped(x) /\ x.pc = "readObjects" /\ x.base = r
        /\ x.op = b.op /\ x.key = b.key /\ x.val = b.val /\ x.start = b.start
        /\ x.commit = b.commit /\ x.write = b.write /\ x.attempt = b.attempt
        /\ x.sent = b.sent /\ x.skip = b.skip /\ x.listed = b.listed
    BY <2>2, <2>5 DEF Shaped, Fields
  <2>7. r \in 0..Len(commits) /\ r \in Nat /\ r \in Past(r) /\ r \in Reachable
    <3>1. r \in 0..Len(commits) /\ Len(commits) \in Nat /\ r \in {NoCommit} \cup Reachable
      BY <2>1, ReachableFacts
    <3>. QED
      BY <2>1, <2>3, <3>1 DEF Reachable
  <2>8. x \in Call
    <3>1. Typed(x)
      BY <2>5, <2>6, <2>7 DEF Typed
    <3>. QED
      BY <2>6, <3>1, CallFields
  <2>9. ReadOK(x) /\ BudgetOK(x)
    BY <2>4, <2>6, <2>7, <2>8 DEF ReadOK, BudgetOK
  <2>. QED
    BY <1>2, <2>3, <2>6, <2>9, LeavesKnown
<1>4. CASE ReadObjects(p) \/ Fails(p)
  BY <1>2, <1>4, ReturnKnows DEF ReadObjects, Fails
<1>5. ASSUME NEW k \in Keys, History(p, k) PROVE Leaves(p)
  <2>1. PICK b : b = Begun("history", k, Absent)
    OBVIOUS
  <2>2. Page(p, b) /\ ref # NoCommit
    BY <1>5, <2>1 DEF History
  <2>3. ReadOK(b) /\ b.op = "history" /\ b.key = k /\ b.start = ref /\ b.skip = 0
    BY <2>1, BegunKnows
  <2>4. FoundSoFar(b)
    <3>1. ASSUME NEW c \in Wanted(b) PROVE c \in Changed(k)
      BY <2>3 DEF Wanted, Changed, Reachable
    <3>2. PICK S : S = Changed(k)
      OBVIOUS
    <3>3. S \in SUBSET Nat /\ IsFiniteSet(S)
      <4>1. S \in SUBSET Reachable
        BY <3>2 DEF Changed
      <4>2. Reachable \in SUBSET Nat /\ IsFiniteSet(Reachable)
        BY ReachableFacts
      <4>. QED
        BY <4>1, <4>2, FS_Subset
    <3>4. \A c \in S : Place(c, S) > 0
      <4>1. Cardinality(S) \in Nat
        BY <3>3, FS_CardinalityType
      <4>2. \A c \in S : Place(c, S) \in 1..Cardinality(S)
        BY <3>3, PlaceTyped
      <4>. QED
        BY <4>1, <4>2
    <3>. QED
      BY <2>3, <3>1, <3>2, <3>4 DEF FoundSoFar
  <2>. QED
    BY <1>1, <2>2, <2>3, <2>4, PageKnows
<1>6. CASE HistoryGoesOn(p)
  <2>1. /\ Page(p, call[p]) /\ call[p].op = "history" /\ call[p].key \in Keys
        /\ FoundSoFar(call[p])
    BY <1>6 DEF HistoryGoesOn, ReadOK
  <2>. QED
    BY <1>1, <1>2, <2>1, PageKnows
<1>7. CASE MoveRefused(p)
  BY <1>2, <1>7, RefusedKnows
<1>. QED
  BY <1>2, <1>3, <1>4, <1>5, <1>6, <1>7

LEMMA ActorKnows ==
    ASSUME IInv, CallsKnow, Next
    PROVE  \E p \in Clients : Leaves(p) /\ Reaches(p)
<1>1. IInv' /\ Grown
  BY Grows
<1>2. PICK p \in Clients :
        \/ \E k \in Keys : Delete(p, k) \/ \E val \in Values : Put(p, k, val)
        \/ PutAgain(p) \/ Get(p) \/ ReadObjects(p)
        \/ (\E k \in Keys : History(p, k)) \/ HistoryGoesOn(p)
        \/ MoveRef(p) \/ MoveRefused(p)
        \/ ServerFails(p) \/ HostRepeats(p) \/ TransportFails(p) \/ Fails(p)
  BY DEF Next
<1>3. ReadOK(call[p]) /\ BudgetOK(call[p])
  BY DEF CallsKnow
<1>4. CASE \E k \in Keys : Delete(p, k) \/ \E val \in Values : Put(p, k, val)
  BY <1>1, <1>3, <1>4, WriterKnows
<1>5. CASE PutAgain(p)
  <2>1. \E k \in Keys : TRUE
    BY <1>5 DEF PutAgain, IInv, CallsInv, CallOK
  <2>. QED
    BY <1>1, <1>3, <1>5, <2>1, WriterKnows
<1>6. CASE \/ Get(p) \/ ReadObjects(p) \/ (\E k \in Keys : History(p, k))
           \/ HistoryGoesOn(p) \/ MoveRefused(p) \/ Fails(p)
  BY <1>1, <1>3, <1>6, ReaderKnows
<1>7. CASE MoveRef(p) \/ ServerFails(p) \/ HostRepeats(p) \/ TransportFails(p)
  BY <1>1, <1>3, <1>7, PublishKnows
<1>. QED
  BY <1>2, <1>4, <1>5, <1>6, <1>7

\* The call of another client: what p published is not its own write.
LEMMA CallsKnowStep ==
    ASSUME IInv, CallsKnow, Next
    PROVE  CallsKnow'
<1>1. IInv' /\ Grown
  BY Grows
<1>2. PICK p \in Clients : Leaves(p) /\ Reaches(p)
  BY ActorKnows
<1>3. PICK x : call' = [call EXCEPT ![p] = x] /\ ReadOK(x)' /\ BudgetOK(x)'
  BY <1>2 DEF Leaves
<1>4. call'[p] = x /\ \A q \in Clients \ {p} : call'[q] = call[q]
  BY <1>3 DEF IInv, CallsInv
<1>5. ASSUME NEW q \in Clients \ {p} PROVE ReadOK(call[q])' /\ BudgetOK(call[q])'
  <2>1. PICK y : y = call[q]
    OBVIOUS
  <2>2. ReadOK(y) /\ BudgetOK(y)
    BY <2>1 DEF CallsKnow
  <2>3. ASSUME NEW c \in Reachable' \ Reachable, y.pc = "moveRef"
        PROVE  commits'[c].write # y.write
    <3>1. call[p].pc = "moveRef" /\ c = call[p].commit
      BY <1>2 DEF Reaches
    <3>2. MoveOK(call[p]) /\ WriteOK(p)
      BY <3>1 DEF IInv, CallsInv, CallOK, WriteInv, Active
    <3>3. c \in 1..Len(commits) /\ commits[c].write = call[p].write
      BY <3>1, <3>2 DEF MoveOK, WriteOK
    <3>4. call[q].write # call[p].write
      BY <2>1, <2>3, <3>2 DEF WriteOK, Active
    <3>. QED
      BY <1>1, <2>1, <3>3, <3>4 DEF Grown
  <2>4. ReadOK(y)' /\ BudgetOK(y)'
    BY <1>1, <2>2, <2>3, ReadKept, BudgetKept
  <2>5. call'[q] = y
    BY <1>4, <2>1
  <2>. QED
    BY <2>4, <2>5
<1>6. ReadOK(call[p])' /\ BudgetOK(call[p])'
  BY <1>3, <1>4
<1>. QED
  BY <1>5, <1>6 DEF CallsKnow

LEMMA TipStep ==
    ASSUME IInv, TipInv, Next
    PROVE  TipInv'
<1>1. Grown
  BY Grows
<1>2. \/ tip' = tip
      \/ \E p \in Clients, v \in {NoCommit, ref} : tip' = [tip EXCEPT ![p] = v]
  BY DEF Next, Put, PutAgain, Delete, Get, ReadObjects, History, HistoryGoesOn, MoveRef,
         MoveRefused, ServerFails, HostRepeats, TransportFails, Fails, ReadTip, TipAfter
<1>3. faults' = faults \/ (faults < MaxFaults /\ faults' = faults + 1)
  BY DEF Next, Put, PutAgain, Delete, Get, ReadObjects, History, HistoryGoesOn, MoveRef,
         MoveRefused, ServerFails, HostRepeats, TransportFails, Fails, Fault
<1>4. faults' \in 0..MaxFaults
  BY <1>3, GitHubAssumption DEF TipInv
<1>5. /\ Len(commits) \in Nat /\ Len(commits)' \in Nat /\ Len(commits) <= Len(commits)'
      /\ ref \in 0..Len(commits)
  BY <1>1, ReachableFacts DEF Grown
<1>6. PICK n, m : n = Len(commits) /\ m = Len(commits)'
  OBVIOUS
<1>7. NoCommit \in 0..m /\ ref \in 0..m /\ 0..n \subseteq 0..m
  BY <1>5, <1>6 DEF NoCommit
<1>8. tip' \in [Clients -> 0..m]
  BY <1>2, <1>6, <1>7 DEF TipInv
<1>. QED
  BY <1>4, <1>6, <1>8 DEF TipInv

LEMMA KnowInductive == Spec => []KnowInv
<1>1. Init => KnowInv
  <2> SUFFICES ASSUME Init PROVE KnowInv
    OBVIOUS
  <2>1. IInv
    BY InitStep
  <2>2. CallsKnow
    BY <2>1, IdleKnows DEF Init, CallsKnow
  <2>3. Len(commits) \in Nat
    BY <2>1, ReachableFacts
  <2>4. TipInv
    BY <2>3, GitHubAssumption DEF Init, TipInv, NoCommit
  <2>. QED
    BY <2>1, <2>2, <2>4 DEF KnowInv
<1>2. KnowInv /\ [Next]_vars => KnowInv'
  <2> SUFFICES ASSUME KnowInv, [Next]_vars PROVE KnowInv'
    OBVIOUS
  <2>1. IInv /\ CallsKnow /\ TipInv
    BY DEF KnowInv
  <2>2. CASE Next
    BY <2>1, <2>2, Grows, CallsKnowStep, TipStep DEF KnowInv
  <2>3. CASE UNCHANGED vars
    <3>1. IInv'
      BY <2>1, <2>3 DEF vars, server, IInv, GraphInv, CallsInv, CallOK, MoveOK, WriteInv,
                        WriteOK, EveryWriteCountsOnce, Reachable, Past, Tree
    <3>2. TipInv'
      BY <2>1, <2>3 DEF vars, server, TipInv
    <3>3. call' = call /\ ref' = ref /\ commits' = commits
      BY <2>3 DEF vars, server
    <3>4. Grown /\ Reachable' = Reachable
      BY <2>1, <3>3, ReachableFacts DEF Grown, Reachable, Past
    <3>5. ASSUME NEW p \in Clients PROVE ReadOK(call[p])' /\ BudgetOK(call[p])'
      <4>1. PICK y : y = call[p]
        OBVIOUS
      <4>2. ReadOK(y) /\ BudgetOK(y)
        BY <2>1, <4>1 DEF CallsKnow
      <4>3. ReadOK(y)' /\ BudgetOK(y)'
        BY <2>1, <3>1, <3>4, <4>2, ReadKept, BudgetKept
      <4>4. call'[p] = y
        BY <3>3, <4>1
      <4>. QED
        BY <4>3, <4>4
    <3>. QED
      BY <3>1, <3>2, <3>5 DEF KnowInv, CallsKnow
  <2>. QED
    BY <2>2, <2>3
<1>. QED
  BY <1>1, <1>2, PTL DEF Spec

\* Every version the server, the tip caches and the calls in flight name is one
\* that exists, a call that waits has a commit on the base it read, and neither
\* the retry loop of put nor the list of history goes beyond its limit.
THEOREM GitHubTypeOK == Spec => []TypeOK
<1>1. KnowInv => TypeOK
  <2> SUFFICES ASSUME KnowInv PROVE TypeOK
    OBVIOUS
  <2>1. /\ GraphInv /\ CallsInv /\ WriteInv /\ TipInv
        /\ \A p \in Clients : ReadOK(call[p]) /\ CallOK(call[p])
    BY DEF KnowInv, IInv, CallsInv, CallsKnow
  <2>2. call \in [Clients -> Call]
    <3>1. call = [p \in Clients |-> call[p]] /\ \A p \in Clients : call[p] \in Call
      BY <2>1 DEF CallsInv, ReadOK
    <3>. QED
      BY <3>1
  <2>3. ASSUME NEW p \in Clients
        PROVE  /\ {call[p].start, call[p].base, call[p].commit, call[p].write}
                    \subseteq 0..Len(commits)
               /\ call[p].pc = "moveRef" => commits[call[p].commit].parent = call[p].base
               /\ Len(call[p].listed) <= HistoryLimit
    BY <2>1 DEF ReadOK, CallOK, MoveOK
  <2>. QED
    BY <2>1, <2>2, <2>3 DEF TypeOK, GraphInv, WriteInv, TipInv
<1>. QED
  BY <1>1, KnowInductive, PTL

\* No call works on a version older than the one published when it began (the
\* tip cache of github_api_ref_store.zig is only used when the server says it is
\* current), and a history that stops short of its limit has listed every commit
\* that had set its key by then: a push between two pages moves commits to later
\* places only, so what it repeats it may, and what it skips it cannot.
THEOREM GitHubReadsAreFresh == Spec => []ReadsAreFresh
<1>1. KnowInv => ReadsAreFresh
  BY DEF KnowInv, CallsKnow, ReadOK, Wanted, ReadsAreFresh
<1>. QED
  BY <1>1, KnowInductive, PTL

\* put returns ConcurrentUpdate only after retry_concurrent_writes + 1 attempts,
\* each of which lost to a commit of another client's that none before had lost
\* to: a client starves only while others succeed.
THEOREM GitHubConflictsAreOthersWrites == Spec => ConflictAfterBudget
<1> DEFINE Starved ==
        \A p \in Clients :
            /\ call[p].op = "put" /\ call[p].pc = "moveRef" /\ Conflict(call[p])
            /\ call[p].write \in failed' \ failed
            => Rivals(call[p]) > RetryBudget
<1>1. KnowInv /\ [Next]_vars => [Starved]_vars
  <2> SUFFICES ASSUME KnowInv, Next, NEW p \in Clients,
                      call[p].op = "put", call[p].pc = "moveRef", Conflict(call[p]),
                      call[p].write \in failed', call[p].write \notin failed
               PROVE  Rivals(call[p]) > RetryBudget
    BY DEF vars
  <2>1. IInv /\ ReadOK(call[p]) /\ BudgetOK(call[p])
    BY DEF KnowInv, CallsKnow
  <2>2. PICK q \in Clients : \/ failed' = failed
                             \/ /\ call[q].pc = "moveRef"
                                /\ ~(Conflict(call[q]) /\ Tries(call[q]))
                                /\ failed' = failed \cup {call[q].write}
    BY DEF Next, Put, PutAgain, Delete, Get, ReadObjects, History, HistoryGoesOn, MoveRef,
           MoveRefused, ServerFails, HostRepeats, TransportFails, Fails
  <2>3. call[q].write = call[p].write /\ Active(call[q]) /\ Active(call[p])
    BY <2>2 DEF Active
  <2>4. q = p
    BY <2>1, <2>3 DEF IInv, WriteInv, WriteOK
  <2>5. ~Tries(call[p])
    BY <2>2, <2>4
  <2>6. call[p].attempt \in Nat /\ ~(call[p].attempt < RetryBudget) /\ RetryBudget \in Nat
    BY <2>1, <2>5, GitHubAssumption DEF Tries, ReadOK, Call
  <2>7. Cardinality(Ahead(call[p], Reachable)) >= call[p].attempt + 1
    BY <2>1, LostToAnother
  <2>8. Ahead(call[p], Reachable) \in SUBSET Reachable /\ IsFiniteSet(Reachable)
    BY <2>1, ReachableFacts DEF Ahead
  <2>9. Cardinality(Ahead(call[p], Reachable)) \in Nat
    BY <2>8, FS_Subset, FS_CardinalityType
  <2>10. Rivals(call[p]) = Cardinality(Ahead(call[p], Reachable))
    BY DEF Rivals, Ahead
  <2>. QED
    BY <2>6, <2>7, <2>9, <2>10
<1>. QED
  BY <1>1, KnowInductive, PTL DEF Spec, ConflictAfterBudget
=============================================================================
