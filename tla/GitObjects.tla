----------------------------- MODULE GitObjects -----------------------------
(***************************************************************************)
(* The part of git that the mirror's decisions rest on: a fixed commit     *)
(* graph, and what a ref, an object store and a push lease are.  git is    *)
(* external to the repository; it is modelled from how mirror.go drives it.*)
(*                                                                         *)
(* A commit is an opaque value.  The graph is given once, as the set of    *)
(* ancestors of each commit (itself included), so no recursion is needed   *)
(* to ask what the code asks of `git merge-base --is-ancestor`.            *)
(***************************************************************************)

CONSTANTS
  Commit,     \* every commit anybody ever makes, on either side
  Ancestors,  \* Ancestors[c]: the commits reachable from c, c included
  None        \* "no such ref": the empty tip of remoteRefTip and PushSpec.Lease

ASSUME CommitGraph ==
  /\ None \notin Commit
  /\ Ancestors \in [Commit -> SUBSET Commit]
  /\ \A c \in Commit : c \in Ancestors[c]
  /\ \A c, d \in Commit : d \in Ancestors[c] => Ancestors[d] \subseteq Ancestors[c]
  /\ \A c, d \in Commit : c \in Ancestors[d] /\ d \in Ancestors[c] => c = d

Tip == Commit \cup {None}

\* git merge-base --is-ancestor a d
IsAncestor(a, d) == a \in Ancestors[d]

\* An object store is closed: git never keeps a commit without its history.
Closed(objs) == \A c \in objs : Ancestors[c] \subseteq objs

\* The commits a set of refs keeps alive.
Reachable(tips) == UNION {Ancestors[tips[r]] : r \in {x \in DOMAIN tips : tips[x] # None}}

\* A push that moves a ref from old to new without a fast-forward.
NonFastForward(old, new) == old # None /\ new # None /\ ~IsAncestor(old, new)

LeaseIgnored(tip, lease) == TRUE  \* mutant: the push of a '+' refspec
\* --force-with-lease=<ref>:<lease> on the server: the update lands only if the
\* ref is still exactly at the lease, None meaning "must not exist".
LeaseHolds(tip, lease) == tip = lease
=============================================================================
