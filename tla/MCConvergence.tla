--------------------------- MODULE MCConvergence ---------------------------
(***************************************************************************)
(* Convergence over three commits: a and x both grow on c0.                *)
(***************************************************************************)
EXTENDS Convergence, TLC

CONSTANTS c0, a, x

Fork == {c0, a, x}
ForkAncestors == c0 :> {c0} @@ a :> {c0, a} @@ x :> {c0, x}
Line == {c0, a}
LineAncestors == c0 :> {c0} @@ a :> {c0, a}
=============================================================================
