---------------------------- MODULE CommitGraph ----------------------------
(***************************************************************************)
(* Git's commit objects as the subprocess store uses them: a sequence of   *)
(* records with a field `parent`, numbered in the order of creation.       *)
(* Objects are never changed or removed (git's own, modelled from how      *)
(* git_ref_store.zig reads and extends them).                              *)
(***************************************************************************)
EXTENDS Naturals, Sequences

NoCommit == 0

\* A set of commits of `g` that holds the parent of each of its members.
ParentClosed(g, S) ==
    \A c \in S : g[c].parent # NoCommit => g[c].parent \in S

\* The commits `git log c` walks: c, its parent, and so on.  They are the
\* commits in every parent-closed set around c.
Ancestors(g, c) ==
    {a \in DOMAIN g :
        \A S \in SUBSET DOMAIN g : c \in S /\ ParentClosed(g, S) => a \in S}

\* What can be reached from a ref, which may not exist yet.
ReachableFrom(g, r) == IF r = NoCommit THEN {} ELSE Ancestors(g, r)

\* A commit names a parent that existed before it, or none.
GraphOK(g) ==
    \A c \in DOMAIN g : g[c].parent = NoCommit \/ g[c].parent \in 1..(c - 1)
=============================================================================
