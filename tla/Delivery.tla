------------------------------ MODULE Delivery ------------------------------
(***************************************************************************)
(* What the queue and the consumer promise about each event between them,  *)
(* with no pod, batch, timeout, signal or crash in it.                     *)
(*                                                                         *)
(*   - An event is handed over at most MaxReceives times, and only while   *)
(*     it waits; each hand-over is tried at most once, or lost.            *)
(*   - It is done only once a try has synced it or found it malformed, and *)
(*     dead only after its last hand-over; each is for good.               *)
(***************************************************************************)
EXTENDS Naturals

CONSTANTS Message, Malformed, MaxReceives

VARIABLES
  fate,    \* fate[m]: "unsent", "waiting", "done", "dead"
  tries,   \* tries[m]: hand-overs so far
  inHand,  \* handed over and not tried yet
  synced   \* those some try has synced

vars == <<fate, tries, inHand, synced>>

Init ==
  /\ fate = [m \in Message |-> "unsent"]
  /\ tries = [m \in Message |-> 0]
  /\ inHand = {}
  /\ synced = {}

Send(m) ==
  /\ fate[m] = "unsent"
  /\ fate' = [fate EXCEPT ![m] = "waiting"]
  /\ UNCHANGED <<tries, inHand, synced>>

\* Nothing is handed over while something is in hand.  The reply may be lost.
HandOver(some) ==
  /\ inHand = {}
  /\ \A m \in some : fate[m] = "waiting" /\ tries[m] < MaxReceives
  /\ tries' = [m \in Message |-> IF m \in some THEN tries[m] + 1 ELSE tries[m]]
  /\ inHand' \in {some, {}}
  /\ UNCHANGED <<fate, synced>>

\* A failed try leaves the event waiting, and so does a done one nobody could report.
Try(m) ==
  /\ m \in inHand
  /\ inHand' = inHand \ {m}
  /\ synced' \in IF m \in Malformed THEN {synced} ELSE {synced, synced \cup {m}}
  /\ \/ UNCHANGED fate
     \/ fate[m] = "waiting" /\ m \in synced' \cup Malformed
        /\ fate' = [fate EXCEPT ![m] = "done"]
  /\ UNCHANGED tries

GiveUp(m) ==
  /\ fate[m] = "waiting"
  /\ tries[m] >= MaxReceives
  /\ fate' = [fate EXCEPT ![m] = "dead"]
  /\ UNCHANGED <<tries, inHand, synced>>

\* What was in hand is forgotten, and so waits.
Forget ==
  /\ inHand' = {}
  /\ UNCHANGED <<fate, tries, synced>>

Next ==
  \/ \E m \in Message : Send(m) \/ Try(m) \/ GiveUp(m)
  \/ \E some \in SUBSET Message : HandOver(some)
  \/ Forget

Spec == Init /\ [][Next]_vars
=============================================================================
