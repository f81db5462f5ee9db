----------------------------- MODULE ForcedLoss -----------------------------
(***************************************************************************)
(* What doMirror says of a branch it overwrote.  After the push the commits*)
(* only the old tip reaches are compared with those only the new one       *)
(* reaches; an overwrite found to have lost nothing is recorded as         *)
(* rewritten and alerts nobody, so a loss judged harmless is silent.       *)
(*                                                                         *)
(* The judgement changes no state MirrorSync has, so the module adds no    *)
(* step: it reads the cache the push was made from, under the same mutex.  *)
(***************************************************************************)
EXTENDS MirrorSync, FiniteSets

CONSTANTS
  ContentOf,     \* what `git patch-id --verbatim` sees of a commit
  Empty,         \* the content of a commit with an empty diff
  Merges,        \* commits with more than one parent: they have no patch-id
  MaxClassify    \* maxClassifyCommits

ASSUME ContentSetup ==
  /\ Commit \subseteq DOMAIN ContentOf
  /\ Merges \subseteq Commit
  /\ MaxClassify \in Nat

\* Commits that tip reaches and other does not: a side of `kept...gone`.
Only(tip, other) == Ancestors[tip] \ Ancestors[other]

\* UnmatchedCommits gets an answer: git finds both tips, and the range is short.
Judged(objs, kept, gone) ==
  /\ {kept, gone} \subseteq objs
  /\ Cardinality(Only(kept, gone)) + Cardinality(Only(gone, kept)) <= MaxClassify

\* Discarded commits whose content the kept side does not have.
UnmatchedCommits(kept, gone) ==
  LET present == {ContentOf[c] : c \in Only(kept, gone) \ Merges}
  IN {c \in Only(gone, kept) : c \in Merges \/ ContentOf[c] \notin present \cup {Empty}}

\* `rev-list discarded --not --branches`, the other way round
OnBranch(branches) == UNION {Ancestors[t] : t \in branches}

NothingLostUnchecked(objs, kept, gone, branches) ==  \* mutant: no answer is no loss
  Judged(objs, kept, gone) => UnmatchedCommits(kept, gone) \subseteq OnBranch(branches)
\* classifyForced and NothingLost: preserved, or all that left is on another branch.
NothingLost(objs, kept, gone, branches) ==
  /\ Judged(objs, kept, gone)
  /\ UnmatchedCommits(kept, gone) \subseteq OnBranch(branches)

-----------------------------------------------------------------------------
\* What c changed is in the history of the new tip or c is on a branch.
Survives(c, new, branches) ==
  \/ c \in OnBranch(branches \cup {new})
  \/ c \notin Merges /\ ContentOf[c] = Empty
  \/ c \notin Merges /\ \E d \in Ancestors[new] \ Merges : ContentOf[d] = ContentOf[c]

\* UnmatchedCommits: "a loss reported as harmless, the one mistake this check must not
\* make".  Of every branch overwritten, whatever other branches the cache has: the
\* guard let no tip through that the check cannot find there (classifyForced), and
\* what is judged harmless has discarded no content.
OverwritesJudged ==
  \A w \in Worker : \A f \in pending[w] : f.kind = "forced" =>
    LET objs == cacheObjs[From(w)]
        new  == cacheRefs[From(w)][f.ref]
    IN /\ ~job[w].force => {new, f.tip} \subseteq objs
       /\ \A others \in SUBSET objs :
            NothingLost(objs, new, f.tip, others \cup {new}) =>
              \A c \in Ancestors[f.tip] : Survives(c, new, others)
=============================================================================
