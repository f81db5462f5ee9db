----------------------------- MODULE PushGuard -----------------------------
(***************************************************************************)
(* The decision planPush takes about one ref, from what the pushing side's *)
(* cache holds (objs), this side's tip (src) and the destination's (dst).  *)
(* Nothing here changes state: MirrorSync and Convergence take their steps *)
(* by it.                                                                  *)
(***************************************************************************)
EXTENDS GitObjects

WithholdAncestorOnly(objs, src, dst, unsure) ==  \* mutant
  dst # None /\ dst \in objs /\ IsAncestor(src, dst) /\ ~unsure
WithholdForward(objs, src, dst, unsure) ==  \* mutant: --is-ancestor the wrong way
  dst # None /\ (dst \notin objs \/ (IsAncestor(dst, src) /\ ~unsure))
WithholdAbsent(objs, src, dst, unsure) ==  \* mutant
  dst \notin objs \/ (IsAncestor(src, dst) /\ ~unsure)
\* planPush withholds a ref whose destination tip this side has never fetched,
\* and one whose destination already contains this side's tip.  IsAncestor reads
\* any failure of the command as "no"; unsure stands for one.
Withhold(objs, src, dst, unsure) ==
  /\ dst # None
  /\ dst \notin objs \/ (IsAncestor(src, dst) /\ ~unsure)

LeaseAtPush(force, shown, seen) == seen  \* mutant
\* The expected tip of a pushed ref: the one read here, or for a forced push the
\* one the person was shown.
LeaseFor(force, shown, seen) == IF force THEN shown ELSE seen
=============================================================================
