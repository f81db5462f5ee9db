---------------------------- MODULE MCMirrorSync ----------------------------
(***************************************************************************)
(* MirrorSafety on small instances.  Commits are model values of a fixed   *)
(* graph: c0 is the root, a grows on c0, b on a, and x on c0.              *)
(***************************************************************************)
EXTENDS MirrorSafety, ForcedLoss, TLC

CONSTANTS c0, a, b, x, r1, r2, w1, w2

Fork == {c0, a, x}
Line == {c0, a}
Tree == {c0, a, b, x}
Graph == (c0 :> {c0} @@ a :> {c0, a} @@ b :> {c0, a, b} @@ x :> {c0, x})
ForkAncestors == [c \in Fork |-> Graph[c]]
LineAncestors == [c \in Line |-> Graph[c]]
TreeAncestors == [c \in Tree |-> Graph[c]]

OneRef == {r1}
TwoRefs == {r1, r2}
TwoWorkers == {w1, w2}
OneWorker == {w1}
Free == [r \in OneRef |-> "both"]
FreeTwo == [r \in TwoRefs |-> "both"]
\* r1 is authoritative on the source, so it may be written on the target only.
Pinned == (r1 :> "target" @@ r2 :> "both")

\* x is a applied again on c0 (a rebase); b and c0 have content of their own.
Rebased == (c0 :> "root" @@ a :> "a" @@ b :> "b" @@ x :> "a")
NoMerges == {}

\* a and x are both children of c0: swapping them maps the graph onto itself.
ForkSymmetry == Permutations(TwoWorkers) \cup Permutations({a, x})
=============================================================================
