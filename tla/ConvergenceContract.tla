------------------------ MODULE ConvergenceContract ------------------------
(***************************************************************************)
(* Convergence beside the contract of the mirror: the echoes, reconciles   *)
(* and forced pushes of one branch do no more to the two hosts than        *)
(* MirrorContract allows.                                                  *)
(*                                                                         *)
(* The contract speaks of what happened earlier.  The history variables    *)
(* below remember it; each is a function of the step, so they add nothing  *)
(* to what Convergence can do.                                             *)
(***************************************************************************)
EXTENDS Convergence

VARIABLES
  everHad,    \* everHad[s]: commits host s has ever stored
  deletedAt,  \* deletedAt[s]: has the branch ever been deleted on host s
  asked,      \* overwrites a person asked for
  userOps     \* pushes and deletes people made

historyVars == <<everHad, deletedAt, asked, userOps>>

Branch == "branch"
History(tip) == IF tip = None THEN {} ELSE Ancestors[tip]
Asked(o) == [to |-> o.to, ref |-> Branch, tip |-> o.lease]

InitHistory ==
  /\ everHad = [s \in Side |-> History(refs[s])]
  /\ deletedAt = [s \in Side |-> {}]
  /\ asked = {}
  /\ userOps = 0

\* What a step of Convergence adds to what has happened.
Observe ==
  /\ everHad' = [s \in Side |-> everHad[s] \cup History(refs'[s])]
  /\ deletedAt' = [s \in Side |->
       deletedAt[s] \cup IF refs[s] # None /\ refs'[s] = None THEN {Branch} ELSE {}]
  /\ asked' = asked \cup IF Idle /\ op'.force THEN {Asked(op')} ELSE {}
  /\ userOps' = IF people' # people /\ refs' # refs THEN userOps + 1 ELSE userOps

HistorySpec == Init /\ InitHistory /\ [][Next /\ Observe]_<<vars, historyVars>>

-----------------------------------------------------------------------------
\* What the operation under way knows of the two hosts' histories.
Informed ==
  /\ op.at \in {"plan", "push"} =>
       /\ op.src \in everHad[Other(op.to)]
       /\ op.force => Asked(op) \in asked
  /\ op.at = "push" /\ ~op.force /\ op.lease # None =>
       op.lease \in everHad[Other(op.to)] /\ ~IsAncestor(op.src, op.lease)
  /\ op.at = "delete" => Branch \in deletedAt[Other(op.to)]

\* What the hosts, the caches and the events waiting say did happen.
Remembers == \A s \in Side :
  /\ History(refs[s]) \cup objs[s] \subseteq everHad[s]
  /\ \A i \in DOMAIN queue[s] : queue[s][i] = "delete" => Branch \in deletedAt[s]

HistoryInv ==
  /\ everHad \in [Side -> SUBSET Commit]
  /\ deletedAt \in [Side -> SUBSET {Branch}]
  /\ Informed
  /\ Remembers

\* Convergence keeps the contract of MirrorSync, with nothing taken from it: every
\* comparison of history runs, and each cache is its own.
Contract == INSTANCE MirrorContract WITH
  Ref <- {Branch},
  Writable <- Side \X {Branch},
  Unsure <- FALSE,
  Blind <- {},
  refs <- [s \in Side |-> [r \in {Branch} |-> refs[s]]]
KeepsContract == Contract!Spec
=============================================================================
