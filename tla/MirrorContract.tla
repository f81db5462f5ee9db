--------------------------- MODULE MirrorContract ---------------------------
(***************************************************************************)
(* What the mirror promises about the two hosts, with no caches, locks,    *)
(* workers or git commands in it.  Besides what people do, a ref changes   *)
(* only if the configuration lets the mirror write it there, and then only *)
(*                                                                         *)
(*   - to a commit the other host has had, over nothing, over a tip the    *)
(*     other host has had and that does not already contain the new one,   *)
(*     or over exactly the tip a person asked to overwrite;                *)
(*   - or to nothing, when that ref was once deleted on the other host.    *)
(*                                                                         *)
(* Two ways the code keeps less than this are parameters: a comparison of  *)
(* history that did not run (Unsure), and a side written from a cache that *)
(* also holds what that side itself had (Blind).                           *)
(***************************************************************************)
EXTENDS GitObjects, Naturals

CONSTANTS
  Ref,
  Writable,  \* the <<side, ref>> pairs the mirror may write
  Unsure,    \* may a tip that contains the new one be replaced all the same
  Blind      \* the sides whose own commits pass for the other side's

Side == {"source", "target"}
Other(s) == IF s = "source" THEN "target" ELSE "source"

VARIABLES
  refs,       \* refs[s][r]: tip of r on host s
  everHad,    \* commits host s has ever stored
  deletedAt,  \* refs ever deleted on host s
  asked,      \* overwrites a person asked for
  userOps     \* pushes and deletes people made

vars == <<refs, everHad, deletedAt, asked, userOps>>

Init ==
  /\ refs \in [Side -> [Ref -> Tip]]
  /\ everHad = [s \in Side |-> Reachable(refs[s])]
  /\ deletedAt = [s \in Side |-> {}]
  /\ asked = {}
  /\ userOps = 0

Put(s, r, c) ==
  /\ refs' = [refs EXCEPT ![s][r] = c]
  /\ everHad' = [everHad EXCEPT ![s] = @ \cup Ancestors[c]]
  /\ UNCHANGED deletedAt

Drop(s, r) ==
  /\ refs' = [refs EXCEPT ![s][r] = None]
  /\ deletedAt' = [deletedAt EXCEPT ![s] = @ \cup {r}]
  /\ UNCHANGED everHad

UserWrites(s, r) ==
  /\ userOps' = userOps + 1
  /\ Drop(s, r) \/ \E c \in Commit : Put(s, r, c)
  /\ UNCHANGED asked

PersonAsks(s, r, c) ==
  /\ asked' = asked \cup {[to |-> s, ref |-> r, tip |-> c]}
  /\ UNCHANGED <<refs, everHad, deletedAt, userOps>>

\* What the mirror may take for a commit of the host it copies to s.
Vouched(s) == everHad[Other(s)] \cup IF s \in Blind THEN everHad[s] ELSE {}

MirrorPuts(s, r, c) ==
  /\ <<s, r>> \in Writable
  /\ \/ refs[s][r] = None /\ c \in Vouched(s)
     \/ /\ c \in everHad[Other(s)]
        /\ \/ refs[s][r] \in Vouched(s) /\ (Unsure \/ ~IsAncestor(c, refs[s][r]))
           \/ [to |-> s, ref |-> r, tip |-> refs[s][r]] \in asked
  /\ Put(s, r, c)
  /\ UNCHANGED <<asked, userOps>>

MirrorDrops(s, r) ==
  /\ <<s, r>> \in Writable
  /\ r \in deletedAt[Other(s)]
  /\ Drop(s, r)
  /\ UNCHANGED <<asked, userOps>>

Next == \E s \in Side, r \in Ref :
  \/ UserWrites(s, r)
  \/ MirrorDrops(s, r)
  \/ \E c \in Commit : PersonAsks(s, r, c) \/ MirrorPuts(s, r, c)

Spec == Init /\ [][Next]_vars
=============================================================================
