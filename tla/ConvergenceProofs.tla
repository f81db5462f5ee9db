------------------------- MODULE ConvergenceProofs -------------------------
(***************************************************************************)
(* As long as no event was lost, what keeps the hosts apart is never       *)
(* forgotten: for every commit graph, any number of people's pushes,       *)
(* deletes and forced overwrites, and events taken in any order.           *)
(*                                                                         *)
(* The invariant names who still answers for a difference (Accounted): an  *)
(* event nobody has taken that is true of its host, an operation that has  *)
(* read both sides as they are, or a hold on record.  A button pressed     *)
(* before anybody moved a host is the one case that needs more             *)
(* (ByMirrorAlone).                                                        *)
(*                                                                         *)
(* With the histories of the two hosts beside it, the exchange is shown to *)
(* keep the contract of the mirror, faults and reconciles included.        *)
(***************************************************************************)
EXTENDS ConvergenceContract, SequenceTheorems, TLAPS

Waiting(s, e) == \E i \in DOMAIN queue[s] : queue[s][i] = e

\* An event of host s that is not taken yet and is still true of it.
Told(s) ==
  \/ Waiting(s, "push") /\ refs[s] # None
  \/ Waiting(s, "delete") /\ refs[s] = None

\* The operation under way has read what is there, and will act on it.
Deciding ==
  \/ op.at = "plan" /\ op.src = refs[Other(op.to)] /\ (op.force => op.lease = refs[op.to])
  \/ op.at = "push" /\ op.src = refs[Other(op.to)] /\ op.lease = refs[op.to]
  \/ op.at = "delete" /\ refs[op.to] # None

Accounted == people > 0 /\ faults = 0 =>
  Agree \/ Deciding \/ \E s \in Side : OnRecord(s) \/ Told(s)

\* Until somebody moves a host or presses a button, nothing is deleted, what was
\* read stays as it was, and a hold is true until the hosts agree.
ByMirrorAlone == people = 0 /\ faults = 0 =>
  /\ op.at # "delete"
  /\ \A s \in Side : ~Waiting(s, "delete")
  /\ op.at \in {"plan", "push"} => op.src = refs[Other(op.to)]
  /\ Agree \/ \A h \in held : h.tip = refs[h.to]

SomethingToPush == op.at \in {"plan", "push"} => op.src # None

ConvInv == TypeOK /\ SomethingToPush /\ ByMirrorAlone /\ Accounted

-----------------------------------------------------------------------------
LEMMA Sides == \A s \in Side : Other(s) \in Side /\ Other(s) # s /\ Other(Other(s)) = s
  BY DEF Side, Other

\* What an appended queue holds.
LEMMA Appended ==
  ASSUME NEW q \in Seq(Event), NEW e \in Event
  PROVE  /\ Append(q, e) \in Seq(Event)
         /\ \E i \in DOMAIN Append(q, e) : Append(q, e)[i] = e
         /\ \A i \in DOMAIN q : i \in DOMAIN Append(q, e) /\ Append(q, e)[i] = q[i]
         /\ \A i \in DOMAIN Append(q, e) : Append(q, e)[i] = e \/ \E k \in DOMAIN q : Append(q, e)[i] = q[k]
  <1>1. /\ Append(q, e) \in Seq(Event)
        /\ Len(q) \in Nat
        /\ DOMAIN q = 1..Len(q)
        /\ DOMAIN Append(q, e) = 1..(Len(q) + 1)
        /\ Append(q, e)[Len(q) + 1] = e
        /\ \A i \in 1..Len(q) : Append(q, e)[i] = q[i]
    BY AppendProperties, LenProperties
  <1>2. Len(q) + 1 \in DOMAIN Append(q, e)
    BY <1>1
  <1>3. \A i \in DOMAIN Append(q, e) : i \in DOMAIN q \/ i = Len(q) + 1
    BY <1>1
  <1>4. QED
    BY <1>1, <1>2, <1>3

\* What a queue holds after one event is taken from it.
LEMMA Removed ==
  ASSUME NEW q \in Seq(Event), NEW i \in DOMAIN q
  PROVE  /\ RemoveAt(q, i) \in Seq(Event)
         /\ \A k \in DOMAIN q : k # i => \E m \in DOMAIN RemoveAt(q, i) : RemoveAt(q, i)[m] = q[k]
         /\ \A m \in DOMAIN RemoveAt(q, i) : \E k \in DOMAIN q : RemoveAt(q, i)[m] = q[k]
  <1> DEFINE a == SubSeq(q, 1, i - 1)
             b == SubSeq(q, i + 1, Len(q))
  <1>1. Len(q) \in Nat /\ DOMAIN q = 1..Len(q) /\ i \in 1..Len(q)
    BY LenProperties
  <1>2. /\ a \in Seq(Event) /\ Len(a) = i - 1
        /\ \A k \in 1..(i - 1) : a[k] = q[k]
    BY <1>1, SubSeqProperties, ElementOfSeq
  <1>3. /\ b \in Seq(Event) /\ Len(b) = Len(q) - i
        /\ \A k \in 1..(Len(q) - i) : b[k] = q[i + k]
    BY <1>1, SubSeqProperties, ElementOfSeq
  <1>4. RemoveAt(q, i) = a \o b
    BY DEF RemoveAt
  <1> HIDE DEF a, b
  <1>5. /\ RemoveAt(q, i) \in Seq(Event)
        /\ DOMAIN RemoveAt(q, i) = 1..(Len(q) - 1)
        /\ \A k \in 1..(Len(q) - 1) :
             RemoveAt(q, i)[k] = IF k <= i - 1 THEN a[k] ELSE b[k - (i - 1)]
    <2>1. /\ a \o b \in Seq(Event)
          /\ Len(a \o b) = Len(a) + Len(b)
          /\ \A k \in 1..(Len(a) + Len(b)) : (a \o b)[k] = IF k <= Len(a) THEN a[k] ELSE b[k - Len(a)]
      BY <1>2, <1>3, ConcatProperties
    <2>2. Len(a) + Len(b) = Len(q) - 1
      BY <1>1, <1>2, <1>3
    <2>3. DOMAIN (a \o b) = 1..Len(a \o b)
      BY <2>1, LenProperties
    <2>4. QED
      BY <1>2, <1>4, <2>1, <2>2, <2>3
  <1>6. ASSUME NEW k \in 1..(Len(q) - 1)
        PROVE  RemoveAt(q, i)[k] = IF k < i THEN q[k] ELSE q[k + 1]
    <2>1. CASE k < i
      <3>1. k <= i - 1 /\ k \in 1..(i - 1)
        BY <1>1, <2>1
      <3>2. QED
        BY <1>2, <1>5, <2>1, <3>1
    <2>2. CASE ~(k < i)
      <3>1. ~(k <= i - 1) /\ k - (i - 1) \in 1..(Len(q) - i) /\ i + (k - (i - 1)) = k + 1
        BY <1>1, <2>2
      <3>2. b[k - (i - 1)] = q[k + 1]
        BY <1>3, <3>1
      <3>3. QED
        BY <1>5, <2>2, <3>1, <3>2
    <2>3. QED
      BY <2>1, <2>2
  <1>7. ASSUME NEW k \in DOMAIN q, k # i
        PROVE  \E m \in DOMAIN RemoveAt(q, i) : RemoveAt(q, i)[m] = q[k]
    <2>1. CASE k < i
      <3>1. k \in 1..(Len(q) - 1) /\ RemoveAt(q, i)[k] = q[k]
        BY <1>1, <1>6, <2>1
      <3>2. QED
        BY <1>5, <3>1
    <2>2. CASE k > i
      <3>1. k - 1 \in 1..(Len(q) - 1) /\ RemoveAt(q, i)[k - 1] = q[k]
        BY <1>1, <1>6, <2>2
      <3>2. QED
        BY <1>5, <3>1
    <2>3. QED
      BY <1>1, <1>7, <2>1, <2>2
  <1>8. ASSUME NEW m \in DOMAIN RemoveAt(q, i)
        PROVE  \E k \in DOMAIN q : RemoveAt(q, i)[m] = q[k]
    <2>1. m \in DOMAIN q /\ m + 1 \in DOMAIN q
      BY <1>1, <1>5
    <2>2. QED
      BY <1>5, <1>6, <2>1
  <1>9. QED
    BY <1>5, <1>7, <1>8

\* A host that moves is told of, and nothing that was waiting goes.
LEMMA MovesFacts ==
  ASSUME TypeOK, NEW s \in Side, NEW t \in Tip, Moves(s, t)
  PROVE  /\ refs' \in [Side -> Tip] /\ refs'[s] = t /\ refs'[Other(s)] = refs[Other(s)]
         /\ queue' \in [Side -> Seq(Event)]
         /\ Told(s)'
         /\ \A x \in Side : Waiting(x, "delete")' => Waiting(x, "delete") \/ t = None
  <1> DEFINE e == IF t = None THEN "delete" ELSE "push"
  <1>1. e \in Event /\ queue[s] \in Seq(Event)
    BY DEF Event, TypeOK
  <1>2. queue' = [queue EXCEPT ![s] = Append(queue[s], e)] /\ refs' = [refs EXCEPT ![s] = t]
    BY DEF Moves
  <1> HIDE DEF e
  <1>3. queue'[s] = Append(queue[s], e) /\ \A x \in Side : x # s => queue'[x] = queue[x]
    BY <1>2 DEF TypeOK
  <1>4. queue' \in [Side -> Seq(Event)]
    BY <1>1, <1>2, Appended DEF TypeOK
  <1>5. refs' \in [Side -> Tip] /\ refs'[s] = t /\ refs'[Other(s)] = refs[Other(s)]
    BY <1>2, Sides DEF TypeOK
  <1>6. Waiting(s, e)'
    BY <1>1, <1>3, Appended DEF Waiting
  <1>7. Told(s)'
    BY <1>5, <1>6 DEF Told, e
  <1>8. ASSUME NEW x \in Side, Waiting(x, "delete")', t # None
        PROVE  Waiting(x, "delete")
    <2>1. e = "push"
      BY <1>8 DEF e
    <2>2. QED
      BY <1>1, <1>3, <1>8, <2>1, Appended DEF Waiting
  <1>9. QED
    BY <1>4, <1>5, <1>7, <1>8

\* Of the events waiting only the one taken goes.
LEMMA TakenFacts ==
  ASSUME TypeOK, NEW s \in Side, NEW i \in DOMAIN queue[s],
         queue' = [queue EXCEPT ![s] = RemoveAt(@, i)]
  PROVE  /\ queue' \in [Side -> Seq(Event)]
         /\ \A x \in Side, e \in Event : Waiting(x, e)' => Waiting(x, e)
         /\ \A x \in Side, e \in Event :
              Waiting(x, e) /\ (x # s \/ e # queue[s][i]) => Waiting(x, e)'
  <1>1. queue[s] \in Seq(Event)
    BY DEF TypeOK
  <1>2. /\ queue'[s] = RemoveAt(queue[s], i)
        /\ \A x \in Side : x # s => queue'[x] = queue[x]
    BY DEF TypeOK
  <1>3. queue' \in [Side -> Seq(Event)]
    BY <1>1, Removed DEF TypeOK
  <1>4. ASSUME NEW x \in Side, NEW e \in Event, Waiting(x, e)'
        PROVE  Waiting(x, e)
    BY <1>1, <1>2, <1>4, Removed DEF Waiting
  <1>5. ASSUME NEW x \in Side, NEW e \in Event, Waiting(x, e), x # s \/ e # queue[s][i]
        PROVE  Waiting(x, e)'
    <2>1. CASE x # s
      BY <1>2, <1>5, <2>1 DEF Waiting
    <2>2. CASE x = s
      <3>1. PICK k \in DOMAIN queue[s] : queue[s][k] = e
        BY <1>5, <2>2 DEF Waiting
      <3>2. k # i
        BY <1>5, <2>2, <3>1
      <3>3. \E m \in DOMAIN RemoveAt(queue[s], i) : RemoveAt(queue[s], i)[m] = e
        BY <1>1, <3>1, <3>2, Removed
      <3>4. QED
        BY <1>2, <2>2, <3>3 DEF Waiting
    <2>3. QED
      BY <2>1, <2>2
  <1>6. QED
    BY <1>3, <1>4, <1>5

\* While no host moves and no event of a true state goes, an account stays good.
LEMMA StillTold ==
  ASSUME TypeOK, refs' = refs, held \subseteq held',
         \A x \in Side : Told(x) => Told(x)'
  PROVE  Agree \/ (\E x \in Side : OnRecord(x) \/ Told(x)) =>
         Agree' \/ (\E x \in Side : OnRecord(x)' \/ Told(x)')
  BY DEF Agree, OnRecord

\* With no operation under way there is none deciding.
LEMMA IdleDecides == Idle => ~Deciding
  BY DEF Idle, NoOp, Deciding

-----------------------------------------------------------------------------
(* People.                                                                 *)

LEMMA PersonStep ==
  ASSUME ConvInv, NEW s \in Side, NEW t \in Tip, Person(s, t)
  PROVE  ConvInv'
  <1> USE DEF ConvInv
  <1>1. /\ Moves(s, t) /\ people' = people + 1 /\ people < MaxUserOps
        /\ UNCHANGED <<objs, op, held, faults>>
    BY DEF Person
  <1>2. people \in Nat /\ people' \in 0..MaxUserOps /\ people' # 0
    BY <1>1, ConvergenceSetup DEF TypeOK
  <1>3. TypeOK'
    BY <1>1, <1>2, MovesFacts DEF TypeOK
  <1>4. Told(s)'
    BY <1>1, MovesFacts
  <1>5. Accounted'
    BY <1>4 DEF Accounted
  <1>6. ByMirrorAlone'
    BY <1>2 DEF ByMirrorAlone
  <1>7. SomethingToPush'
    BY <1>1 DEF SomethingToPush
  <1>8. QED
    BY <1>3, <1>5, <1>6, <1>7

\* The fetch keeps the types and reads the host it is from.
LEMMA FetchFacts ==
  ASSUME TypeOK, NEW s \in Side, NEW lease \in Tip, NEW force \in BOOLEAN,
         Fetch(s, lease, force)
  PROVE  /\ Idle /\ UNCHANGED <<refs, held, faults>>
         /\ objs' \in [Side -> SUBSET Commit]
         /\ op' \in Op
         /\ SomethingToPush'
         /\ op'.at # "delete"
         /\ op'.at \in {"plan", "push"} => op'.src = refs'[Other(op'.to)]
         /\ refs[s] # None =>
              op'.at = "plan" /\ op'.to = Other(s) /\ op'.force = force /\ op'.lease = lease
  <1>1. refs[s] \in Tip /\ Other(s) \in Side /\ Other(Other(s)) = s
    BY Sides DEF TypeOK
  <1>2. Idle /\ UNCHANGED <<refs, held, faults>>
    BY DEF Fetch
  <1>3. objs' \in [Side -> SUBSET Commit]
    <2> DEFINE kept == IF refs[s] = None THEN {} ELSE Ancestors[refs[s]]
    <2>1. kept \subseteq Commit
      BY <1>1, CommitGraph DEF Tip
    <2>2. objs' \in {[objs EXCEPT ![s] = @ \cup kept], [objs EXCEPT ![s] = kept]}
      BY DEF Fetch
    <2> HIDE DEF kept
    <2>3. QED
      BY <2>1, <2>2 DEF TypeOK
  <1>4. CASE refs[s] = None
    <2>1. op' = NoOp
      BY <1>4 DEF Fetch
    <2>2. QED
      BY <1>2, <1>3, <1>4, <2>1 DEF NoOp, Op, Side, Tip, SomethingToPush
  <1>5. CASE refs[s] # None
    <2>1. op' = [at |-> "plan", to |-> Other(s), src |-> refs[s], lease |-> lease, force |-> force]
      BY <1>5 DEF Fetch
    <2>2. QED
      BY <1>1, <1>2, <1>3, <1>5, <2>1 DEF Op, SomethingToPush
  <1>6. QED
    BY <1>4, <1>5

\* The button: if nobody has moved a host yet, the tip it shows is still there.
LEMMA PressStep ==
  ASSUME ConvInv, NEW s \in Side, Press(s)
  PROVE  ConvInv'
  <1> USE DEF ConvInv
  <1>1. PICK h \in held : /\ h.to = Other(s) /\ people < MaxUserOps /\ people' = people + 1
                          /\ Fetch(s, h.tip, TRUE) /\ UNCHANGED queue
    BY DEF Press
  <1>2. h \in Hold /\ h.tip \in Commit /\ h.tip \in Tip /\ h = [to |-> h.to, tip |-> h.tip]
    BY DEF TypeOK, Hold, Tip
  <1>3. /\ Idle /\ UNCHANGED <<refs, held, faults, queue>>
        /\ objs' \in [Side -> SUBSET Commit]
        /\ op' \in Op
        /\ SomethingToPush'
        /\ op'.at \in {"plan", "push"} => op'.src = refs'[Other(op'.to)]
        /\ refs[s] # None => op'.at = "plan" /\ op'.to = Other(s) /\ op'.lease = h.tip
    BY <1>1, <1>2, FetchFacts
  <1>4. people \in Nat /\ people' \in 0..MaxUserOps /\ people' # 0
    BY <1>1, ConvergenceSetup DEF TypeOK
  <1>5. TypeOK'
    BY <1>3, <1>4 DEF TypeOK
  <1>6. ByMirrorAlone'
    BY <1>4 DEF ByMirrorAlone
  <1>7. \A x \in Side : Told(x) => Told(x)'
    BY <1>3 DEF Told, Waiting
  <1>8. CASE people = 0 /\ faults = 0
    <2>1. Agree \/ h.tip = refs[Other(s)]
      BY <1>1, <1>8 DEF ByMirrorAlone
    <2>2. Agree => Accounted'
      BY <1>3 DEF Agree, Accounted
    <2>3. CASE h.tip = refs[Other(s)]
      <3>1. PICK x \in Side : x = Other(s)
        BY Sides
      <3>2. [to |-> x, tip |-> refs'[x]] \in held'
        BY <1>1, <1>2, <1>3, <2>3, <3>1
      <3>3. OnRecord(x)'
        BY <3>2 DEF OnRecord
      <3>4. Accounted'
        BY <3>3 DEF Accounted
      <3>5. QED
        BY <1>3, <1>5, <1>6, <3>4
    <2>4. QED
      BY <1>3, <1>5, <1>6, <2>1, <2>2, <2>3
  <1>9. CASE people > 0 \/ faults # 0
    <2>1. Accounted'
      BY <1>3, <1>4, <1>7, <1>9, StillTold, IdleDecides DEF Accounted
    <2>2. QED
      BY <1>3, <1>5, <1>6, <2>1
  <1>10. QED
    BY <1>4, <1>8, <1>9

-----------------------------------------------------------------------------
(* The mirror.                                                             *)

LEMMA TakePushStep ==
  ASSUME ConvInv, NEW s \in Side, TakePush(s)
  PROVE  ConvInv'
  <1> USE DEF ConvInv
  <1>1. PICK i \in DOMAIN queue[s] : /\ queue[s][i] = "push"
                                     /\ queue' = [queue EXCEPT ![s] = RemoveAt(@, i)]
                                     /\ Fetch(s, None, FALSE) /\ UNCHANGED people
    BY DEF TakePush, Due
  <1>2. None \in Tip /\ FALSE \in BOOLEAN
    BY DEF Tip
  <1>3. /\ Idle /\ UNCHANGED <<refs, held, faults>>
        /\ objs' \in [Side -> SUBSET Commit]
        /\ op' \in Op
        /\ SomethingToPush'
        /\ op'.at # "delete"
        /\ op'.at \in {"plan", "push"} => op'.src = refs'[Other(op'.to)]
        /\ refs[s] # None => op'.at = "plan" /\ op'.to = Other(s) /\ op'.force = FALSE
    BY <1>1, <1>2, FetchFacts
  <1>4. /\ queue' \in [Side -> Seq(Event)]
        /\ \A x \in Side, e \in Event : Waiting(x, e)' => Waiting(x, e)
        /\ \A x \in Side, e \in Event :
             Waiting(x, e) /\ (x # s \/ e # "push") => Waiting(x, e)'
    BY <1>1, TakenFacts
  <1>5. TypeOK'
    BY <1>1, <1>3, <1>4 DEF TypeOK
  <1>6. ByMirrorAlone'
    BY <1>1, <1>3, <1>4 DEF ByMirrorAlone, Agree, Event
  <1>7. Accounted'
    <2>1. CASE refs[s] = None
      <3>1. \A x \in Side : Told(x) => Told(x)'
        BY <1>3, <1>4, <2>1 DEF Told, Event
      <3>2. QED
        BY <1>1, <1>3, <3>1, StillTold, IdleDecides DEF Accounted
    <2>2. CASE refs[s] # None
      <3>1. Deciding'
        BY <1>3, <2>2 DEF Deciding
      <3>2. QED
        BY <3>1 DEF Accounted
    <2>3. QED
      BY <2>1, <2>2
  <1>8. QED
    BY <1>3, <1>5, <1>6, <1>7

LEMMA ReconcileStep ==
  ASSUME ConvInv, NEW s \in Side, Reconcile(s)
  PROVE  ConvInv'
  <1> USE DEF ConvInv
  <1>1. Fetch(s, None, FALSE) /\ UNCHANGED <<queue, people>>
    BY DEF Reconcile
  <1>2. None \in Tip /\ FALSE \in BOOLEAN
    BY DEF Tip
  <1>3. /\ Idle /\ UNCHANGED <<refs, held, faults>>
        /\ objs' \in [Side -> SUBSET Commit]
        /\ op' \in Op
        /\ SomethingToPush'
        /\ op'.at # "delete"
        /\ op'.at \in {"plan", "push"} => op'.src = refs'[Other(op'.to)]
    BY <1>1, <1>2, FetchFacts
  <1>4. TypeOK'
    BY <1>1, <1>3 DEF TypeOK
  <1>5. ByMirrorAlone'
    BY <1>1, <1>3 DEF ByMirrorAlone, Agree, Waiting
  <1>6. \A x \in Side : Told(x) => Told(x)'
    BY <1>1, <1>3 DEF Told, Waiting
  <1>7. Accounted'
    BY <1>1, <1>3, <1>6, StillTold, IdleDecides DEF Accounted
  <1>8. QED
    BY <1>3, <1>4, <1>5, <1>7

\* An operation that has read both sides as they are settles the difference: nothing
\* to do, a hold under the tip that is there, or a push under a lease that holds.
LEMMA PlanStep == ConvInv /\ Plan => ConvInv'
  <1> SUFFICES ASSUME ConvInv, Plan PROVE ConvInv'
    OBVIOUS
  <1> USE DEF ConvInv
  <1> DEFINE dst == refs[op.to]
  <1>1. op \in Op /\ op.at = "plan" /\ op.to \in Side /\ op.src \in Tip /\ op.lease \in Tip
        /\ dst \in Tip /\ op.force \in BOOLEAN /\ UNCHANGED <<refs, objs, queue, people, faults>>
    BY DEF Plan, TypeOK, Op
  <1>2. \A x \in Side : Told(x) => Told(x)'
    BY <1>1 DEF Told, Waiting
  <1>3. CASE ~op.force /\ dst = op.src
    <2>1. op' = NoOp /\ held' = held
      BY <1>1, <1>3 DEF Plan
    <2>2. TypeOK' /\ SomethingToPush'
      BY <1>1, <2>1 DEF TypeOK, SomethingToPush, NoOp, Op, Side, Tip
    <2>3. ByMirrorAlone'
      BY <1>1, <2>1 DEF ByMirrorAlone, NoOp, Agree, Waiting
    <2>4. Deciding => Agree'
      BY <1>1, <1>3, Sides DEF Deciding, Agree, Side, Other
    <2>5. Accounted'
      BY <1>1, <1>2, <2>1, <2>4, StillTold DEF Accounted
    <2>6. QED
      BY <2>2, <2>3, <2>5
  <1>4. CASE /\ ~op.force /\ dst # op.src
             /\ Withhold(objs[Other(op.to)], op.src, dst, FALSE)
    <2>1. op' = NoOp /\ held' = held \cup {[to |-> op.to, tip |-> dst]}
      BY <1>1, <1>4 DEF Plan, RecordHold
    <2>2. dst \in Commit
      BY <1>1, <1>4 DEF Withhold, Tip
    <2>3. TypeOK' /\ SomethingToPush'
      BY <1>1, <2>1, <2>2 DEF TypeOK, SomethingToPush, NoOp, Op, Side, Tip, Hold
    <2>4. ByMirrorAlone'
      BY <1>1, <2>1 DEF ByMirrorAlone, NoOp, Agree, Waiting
    <2>5. PICK to \in Side : to = op.to
      BY <1>1
    <2>6. [to |-> to, tip |-> refs'[to]] \in held'
      BY <1>1, <2>1, <2>5
    <2>7. OnRecord(to)'
      BY <2>6 DEF OnRecord
    <2>8. Accounted'
      BY <2>7 DEF Accounted
    <2>9. QED
      BY <2>3, <2>4, <2>8
  <1>5. CASE ~(~op.force /\ dst = op.src)
             /\ ~(~op.force /\ Withhold(objs[Other(op.to)], op.src, dst, FALSE))
    <2>1. op' = [op EXCEPT !.at = "push", !.lease = LeaseFor(op.force, op.lease, dst)] /\ held' = held
      BY <1>1, <1>5 DEF Plan
    <2>2. /\ op' \in Op /\ op'.at = "push" /\ op'.to = op.to /\ op'.src = op.src
          /\ op'.lease = IF op.force THEN op.lease ELSE dst
      BY <1>1, <2>1 DEF Op, LeaseFor
    <2>3. TypeOK' /\ SomethingToPush'
      BY <1>1, <2>1, <2>2 DEF TypeOK, SomethingToPush
    <2>4. ByMirrorAlone'
      BY <1>1, <2>1, <2>2 DEF ByMirrorAlone, Agree, Waiting
    <2>5. Deciding => Deciding'
      BY <1>1, <2>2 DEF Deciding
    <2>6. Accounted'
      BY <1>1, <1>2, <2>1, <2>5, StillTold DEF Accounted
    <2>7. QED
      BY <2>3, <2>4, <2>6
  <1>6. QED
    BY <1>1, <1>3, <1>4, <1>5

LEMMA NoOpType == NoOp \in Op /\ NoOp.at = "none"
  BY DEF NoOp, Op, Side, Tip

\* A push that lands is told of by its destination; one that was deciding leaves
\* nothing to do or lands.
LEMMA PushStep == ConvInv /\ Push => ConvInv'
  <1> SUFFICES ASSUME ConvInv, Push PROVE ConvInv'
    OBVIOUS
  <1> USE DEF ConvInv
  <1>1. /\ op \in Op /\ op.at = "push" /\ op.to \in Side /\ op.src \in Tip /\ op.src # None
        /\ op' = NoOp /\ UNCHANGED <<objs, held, people, faults>>
    BY DEF Push, TypeOK, Op, SomethingToPush
  <1>2. CASE refs[op.to] # op.src /\ LeaseHolds(refs[op.to], op.lease)
    <2>1. PICK to \in Side, t \in Tip : to = op.to /\ t = op.src
      BY <1>1
    <2>2. t # None /\ Moves(to, t)
      BY <1>1, <1>2, <2>1 DEF Push
    <2>3. /\ refs' \in [Side -> Tip] /\ refs'[to] = t
          /\ refs'[Other(to)] = refs[Other(to)]
          /\ queue' \in [Side -> Seq(Event)] /\ Told(to)'
          /\ \A x \in Side : Waiting(x, "delete")' => Waiting(x, "delete")
      BY <2>2, MovesFacts
    <2>4. TypeOK' /\ SomethingToPush'
      BY <1>1, <2>3, NoOpType DEF TypeOK, SomethingToPush
    <2>5. ASSUME people = 0, faults = 0 PROVE Agree'
      BY <1>1, <2>1, <2>3, <2>5 DEF ByMirrorAlone, Agree, Side, Other
    <2>6. ByMirrorAlone'
      BY <1>1, <2>3, <2>5, NoOpType DEF ByMirrorAlone
    <2>7. Accounted'
      BY <2>3 DEF Accounted
    <2>8. QED
      BY <2>4, <2>6, <2>7
  <1>3. CASE ~(refs[op.to] # op.src /\ LeaseHolds(refs[op.to], op.lease))
    <2>1. UNCHANGED <<refs, queue>>
      BY <1>3 DEF Push
    <2>2. TypeOK' /\ SomethingToPush'
      BY <1>1, <2>1, NoOpType DEF TypeOK, SomethingToPush
    <2>3. ByMirrorAlone'
      BY <1>1, <2>1, NoOpType DEF ByMirrorAlone, Agree, Waiting
    <2>4. Deciding => Agree'
      BY <1>1, <1>3, <2>1 DEF Deciding, Agree, LeaseHolds, Side, Other
    <2>5. \A x \in Side : Told(x) => Told(x)'
      BY <2>1 DEF Told, Waiting
    <2>6. Accounted'
      BY <1>1, <2>1, <2>4, <2>5, StillTold DEF Accounted
    <2>7. QED
      BY <2>2, <2>3, <2>6
  <1>4. QED
    BY <1>2, <1>3

\* The delete event of a host that has the ref again answers for nothing.
LEMMA TakeDeleteStep ==
  ASSUME ConvInv, NEW s \in Side, TakeDelete(s)
  PROVE  ConvInv'
  <1> USE DEF ConvInv
  <1>1. PICK i \in DOMAIN queue[s] : /\ Idle /\ queue[s][i] = "delete"
                                     /\ queue' = [queue EXCEPT ![s] = RemoveAt(@, i)]
    BY DEF TakeDelete, Due
  <1>2. /\ UNCHANGED <<refs, objs, held, people, faults>>
        /\ op' = IF refs[Other(s)] = None THEN NoOp
                 ELSE [NoOp EXCEPT !.at = "delete", !.to = Other(s)]
    BY DEF TakeDelete, Absent
  <1>3. /\ queue' \in [Side -> Seq(Event)]
        /\ \A x \in Side, e \in Event :
             Waiting(x, e) /\ (x # s \/ e # "delete") => Waiting(x, e)'
    BY <1>1, TakenFacts
  <1>4. op' \in Op /\ op'.at \notin {"plan", "push"}
    BY <1>2, Sides DEF NoOp, Op, Side, Tip
  <1>5. TypeOK' /\ SomethingToPush'
    BY <1>2, <1>3, <1>4 DEF TypeOK, SomethingToPush
  <1>6. ByMirrorAlone'
    BY <1>1, <1>2 DEF ByMirrorAlone, Waiting
  <1>7. Accounted'
    <2>1. CASE refs[Other(s)] = None
      <3>1. \A x \in Side : Told(x) => Told(x)' \/ Agree'
        BY <1>2, <1>3, <2>1 DEF Told, Event, Agree, Side, Other
      <3>2. QED
        BY <1>1, <1>2, <3>1, IdleDecides DEF Accounted, Agree, OnRecord
    <2>2. CASE refs[Other(s)] # None
      <3>1. Deciding'
        BY <1>2, <2>2, Sides DEF Deciding, NoOp
      <3>2. QED
        BY <3>1 DEF Accounted
    <2>3. QED
      BY <2>1, <2>2
  <1>8. QED
    BY <1>5, <1>6, <1>7

LEMMA DeleteStep == ConvInv /\ Delete => ConvInv'
  <1> SUFFICES ASSUME ConvInv, Delete PROVE ConvInv'
    OBVIOUS
  <1> USE DEF ConvInv
  <1>1. /\ op \in Op /\ op.at = "delete" /\ op.to \in Side /\ op' = NoOp
        /\ UNCHANGED <<objs, held, people, faults>>
    BY DEF Delete, TypeOK, Op
  <1>2. ByMirrorAlone' /\ ~(people = 0 /\ faults = 0)
    BY <1>1 DEF ByMirrorAlone
  <1>3. CASE refs[op.to] # None
    <2>1. PICK to \in Side : to = op.to
      BY <1>1
    <2>2. Moves(to, None) /\ None \in Tip
      BY <1>3, <2>1 DEF Delete, Tip
    <2>3. refs' \in [Side -> Tip] /\ queue' \in [Side -> Seq(Event)] /\ Told(to)'
      BY <2>2, MovesFacts
    <2>4. TypeOK' /\ SomethingToPush'
      BY <1>1, <2>3, NoOpType DEF TypeOK, SomethingToPush
    <2>5. Accounted'
      BY <2>3 DEF Accounted
    <2>6. QED
      BY <1>2, <2>4, <2>5
  <1>4. CASE refs[op.to] = None
    <2>1. UNCHANGED <<refs, queue>> /\ ~Deciding
      BY <1>1, <1>4 DEF Delete, Deciding
    <2>2. TypeOK' /\ SomethingToPush'
      BY <1>1, <2>1, NoOpType DEF TypeOK, SomethingToPush
    <2>3. \A x \in Side : Told(x) => Told(x)'
      BY <2>1 DEF Told, Waiting
    <2>4. Accounted'
      BY <1>1, <2>1, <2>3, StillTold DEF Accounted
    <2>5. QED
      BY <1>2, <2>2, <2>4
  <1>5. QED
    BY <1>3, <1>4

\* A fault answers for itself.
LEMMA FaultStep == ConvInv /\ (Lose \/ OpFails \/ Kill) => ConvInv'
  <1> SUFFICES ASSUME ConvInv, Lose \/ OpFails \/ Kill PROVE ConvInv'
    OBVIOUS
  <1> USE DEF ConvInv
  <1>1. /\ faults < MaxFaults /\ faults' = faults + 1
        /\ UNCHANGED <<refs, objs, held, people>>
    BY DEF Lose, OpFails, Kill, Fault
  <1>2. faults' \in 0..MaxFaults /\ faults' # 0
    BY <1>1, ConvergenceSetup DEF TypeOK
  <1>3. op' \in {op, NoOp}
    BY DEF Lose, OpFails, Kill
  <1>4. queue' \in [Side -> Seq(Event)]
    <2>1. CASE Lose
      BY <2>1, TakenFacts DEF Lose
    <2>2. CASE OpFails
      BY <2>2 DEF OpFails, TypeOK
    <2>3. CASE Kill
      BY <2>3, EmptySeq DEF Kill
    <2>4. QED
      BY <2>1, <2>2, <2>3
  <1>5. TypeOK' /\ SomethingToPush'
    BY <1>1, <1>2, <1>3, <1>4, NoOpType DEF TypeOK, SomethingToPush
  <1>6. QED
    BY <1>2, <1>5 DEF Accounted, ByMirrorAlone

-----------------------------------------------------------------------------
LEMMA ConvInit == Init => ConvInv
  <1> SUFFICES ASSUME Init PROVE ConvInv
    OBVIOUS
  <1>1. <<>> \in Seq(Event) /\ DOMAIN <<>> = {} /\ 0 \in 0..MaxUserOps /\ 0 \in 0..MaxFaults
    BY EmptySeq, ConvergenceSetup
  <1>2. TypeOK /\ SomethingToPush
    BY <1>1, NoOpType DEF Init, TypeOK, SomethingToPush
  <1>3. \A s \in Side : \A e \in Event : ~Waiting(s, e)
    BY <1>1 DEF Init, Waiting
  <1>4. ByMirrorAlone
    BY <1>3, NoOpType DEF Init, ByMirrorAlone, Event
  <1>5. Accounted
    BY DEF Init, Accounted
  <1>6. QED
    BY <1>2, <1>4, <1>5 DEF ConvInv

LEMMA ConvStep == ConvInv /\ [Next]_vars => ConvInv'
  <1> SUFFICES ASSUME ConvInv, [Next]_vars PROVE ConvInv'
    OBVIOUS
  <1>1. CASE People
    BY <1>1, PersonStep, PressStep DEF People
  <1>2. ASSUME NEW s \in Side, Take(s) \/ Reconcile(s)
        PROVE  ConvInv'
    BY <1>2, TakePushStep, TakeDeleteStep, ReconcileStep DEF Take
  <1>3. CASE Finish
    BY <1>3, PlanStep, PushStep, DeleteStep DEF Finish
  <1>4. CASE UNCHANGED vars
    BY <1>4 DEF vars, ConvInv, TypeOK, SomethingToPush, ByMirrorAlone, Accounted, Agree,
                Deciding, OnRecord, Told, Waiting
  <1>5. QED
    BY <1>1, <1>2, <1>3, <1>4, FaultStep DEF Next

LEMMA ConvAlways == Spec => []ConvInv
  BY ConvInit, ConvStep, PTL DEF Spec

\* Every variable keeps its type.
THEOREM TypeCorrect == Spec => []TypeOK
  <1>1. ConvInv => TypeOK
    BY DEF ConvInv
  <1>2. QED
    BY <1>1, ConvAlways, PTL

\* If no event is lost and no operation fails, then whenever nothing is left to do the
\* hosts are equal or a hold names the tip that keeps them apart (planPush's hold and
\* the console's force button).
THEOREM Remembered == Spec => []NothingForgotten
  <1>1. ConvInv => NothingForgotten
    <2> SUFFICES ASSUME ConvInv, Quiet, people > 0, faults = 0
                 PROVE  Agree \/ \E s \in Side : OnRecord(s)
      BY DEF NothingForgotten
    <2>1. ~Deciding
      BY IdleDecides DEF Quiet
    <2>2. \A s \in Side : ~Told(s)
      BY DEF Quiet, Told, Waiting
    <2>3. QED
      BY <2>1, <2>2 DEF ConvInv, Accounted
  <1>2. QED
    BY <1>1, ConvAlways, PTL

-----------------------------------------------------------------------------
\* The two directions never stand each other off: they both withhold their branch only
\* of tips neither of which contains the other, which is for a person to decide.  So a
\* branch that is merely behind is always brought up by one of them (planPush, with the
\* caches that ensureMirror left).
THEOREM NoStandoff ==
  ASSUME NEW objs1 \in SUBSET Commit, NEW objs2 \in SUBSET Commit,
         NEW c \in objs1, NEW d \in objs2, c # d, Closed(objs1), Closed(objs2),
         Withhold(objs1, c, d, FALSE), Withhold(objs2, d, c, FALSE)
  PROVE  ~IsAncestor(c, d) /\ ~IsAncestor(d, c)
  <1>1. c \in Commit /\ d \in Commit
    OBVIOUS
  <1>2. ~(IsAncestor(c, d) /\ IsAncestor(d, c))
    BY <1>1, CommitGraph DEF IsAncestor
  <1>3. CASE IsAncestor(c, d)
    <2>1. c \in objs2
      BY <1>3 DEF IsAncestor, Closed
    <2>2. IsAncestor(d, c)
      BY <2>1 DEF Withhold
    <2>3. QED
      BY <1>2, <1>3, <2>2
  <1>4. CASE IsAncestor(d, c)
    <2>1. d \in objs1
      BY <1>4 DEF IsAncestor, Closed
    <2>2. IsAncestor(c, d)
      BY <2>1 DEF Withhold
    <2>3. QED
      BY <1>2, <1>4, <2>2
  <1>5. QED
    BY <1>3, <1>4

-----------------------------------------------------------------------------
(* The contract.                                                           *)

\* A tip's history is commits, the tip among them.
LEMMA HistoryFacts ==
  ASSUME NEW t \in Tip
  PROVE  History(t) \subseteq Commit /\ (t # None => t \in History(t))
  BY CommitGraph DEF History, Tip

\* Nothing that has happened is forgotten.
LEMMA ObserveGrows ==
  ASSUME HistoryInv, Observe
  PROVE  /\ asked \subseteq asked'
         /\ \A s \in Side : everHad[s] \subseteq everHad'[s] /\ deletedAt[s] \subseteq deletedAt'[s]
  BY DEF HistoryInv, Observe

\* The cache takes in nothing but what its host has, and a waiting delete event was
\* waiting before or is told of this step's deletion.
LEMMA NewsIsTrue ==
  ASSUME ConvInv, Next, NEW s \in Side
  PROVE  /\ objs'[s] \subseteq objs[s] \cup History(refs[s])
         /\ Waiting(s, "delete")' =>
              Waiting(s, "delete") \/ (refs[s] # None /\ refs'[s] = None)
  <1> USE DEF ConvInv
  <1>1. ASSUME NEW u \in Side, NEW t \in Tip, Moves(u, t), t # refs[u]
        PROVE  Waiting(s, "delete")' =>
                 Waiting(s, "delete") \/ (refs[s] # None /\ refs'[s] = None)
    <2>1. CASE s = u
      BY <1>1, <2>1, MovesFacts
    <2>2. CASE s # u
      BY <1>1, <2>2 DEF Moves, Waiting, TypeOK
    <2>3. QED
      BY <2>1, <2>2
  <1>2. ASSUME NEW u \in Side, NEW i \in DOMAIN queue[u],
               queue' = [queue EXCEPT ![u] = RemoveAt(@, i)]
        PROVE  Waiting(s, "delete")' => Waiting(s, "delete")
    BY <1>2, TakenFacts DEF Event
  <1>3. ASSUME NEW u \in Side, NEW lease, NEW force, Fetch(u, lease, force)
        PROVE  objs'[s] \subseteq objs[s] \cup History(refs[s])
    <2>1. objs' \in {[objs EXCEPT ![u] = @ \cup History(refs[u])],
                     [objs EXCEPT ![u] = History(refs[u])]}
      BY <1>3 DEF Fetch, History
    <2>2. QED
      BY <2>1 DEF TypeOK
  <1>4. ASSUME NEW u \in Side, NEW t \in Tip, Person(u, t)
        PROVE  /\ objs' = objs
               /\ Waiting(s, "delete")' =>
                    Waiting(s, "delete") \/ (refs[s] # None /\ refs'[s] = None)
    BY <1>1, <1>4 DEF Person
  <1>5. CASE \E u \in Side : Press(u) \/ Reconcile(u)
    BY <1>3, <1>5 DEF Press, Reconcile, Waiting
  <1>6. CASE \E u \in Side : TakePush(u)
    BY <1>2, <1>3, <1>6 DEF TakePush, Due
  <1>7. CASE \E u \in Side : TakeDelete(u)
    BY <1>2, <1>7 DEF TakeDelete, Due
  <1>8. CASE Plan \/ OpFails
    BY <1>8 DEF Plan, OpFails, Fault, Waiting
  <1>9. CASE Push
    <2>1. objs' = objs /\ (UNCHANGED <<refs, queue>> \/ (refs[op.to] # op.src /\ Moves(op.to, op.src)))
      BY <1>9 DEF Push
    <2>2. op.to \in Side /\ op.src \in Tip
      BY DEF TypeOK, Op
    <2>3. QED
      BY <1>1, <2>1, <2>2 DEF Waiting
  <1>10. CASE Delete
    <2>1. objs' = objs /\ (UNCHANGED <<refs, queue>> \/ (refs[op.to] # None /\ Moves(op.to, None)))
      BY <1>10 DEF Delete
    <2>2. op.to \in Side /\ None \in Tip
      BY DEF TypeOK, Op, Tip
    <2>3. QED
      BY <1>1, <2>1, <2>2 DEF Waiting
  <1>11. CASE Lose
    BY <1>2, <1>11 DEF Lose, Fault
  <1>12. CASE Kill
    BY <1>12, EmptySeq DEF Kill, Fault, Waiting
  <1>13. QED
    BY <1>4, <1>5, <1>6, <1>7, <1>8, <1>9, <1>10, <1>11, <1>12 DEF Next, People, Take, Finish

\* An operation keeps what it knows until it ends.
LEMMA InformedKept ==
  ASSUME ConvInv, HistoryInv, Observe, op' \in {op, NoOp}
  PROVE  Informed'
  <1>1. CASE op' = NoOp
    BY <1>1 DEF NoOp, Informed
  <1>2. CASE op' = op
    <2>1. op.to \in Side /\ Other(op.to) \in Side
      BY Sides DEF ConvInv, TypeOK, Op
    <2>2. QED
      BY <1>2, <2>1, ObserveGrows DEF HistoryInv, Informed, Asked
  <1>3. QED
    BY <1>1, <1>2

\* One that fetches begins with a tip its host has.
LEMMA InformedFetch ==
  ASSUME ConvInv, HistoryInv, Observe, NEW s \in Side, NEW lease \in Tip,
         NEW force \in BOOLEAN, Fetch(s, lease, force)
  PROVE  Informed'
  <1>1. /\ Idle /\ refs[s] \in Tip /\ Other(Other(s)) = s
        /\ op' = IF refs[s] = None THEN NoOp
                 ELSE [at |-> "plan", to |-> Other(s), src |-> refs[s], lease |-> lease,
                       force |-> force]
    BY Sides DEF Fetch, ConvInv, TypeOK
  <1>2. CASE refs[s] = None
    BY <1>1, <1>2, InformedKept
  <1>3. CASE refs[s] # None
    <2>1. refs[s] \in everHad'[s]
      BY <1>1, <1>3, HistoryFacts, ObserveGrows DEF HistoryInv, Remembers
    <2>2. op'.force => Asked(op)' \in asked'
      BY <1>1 DEF Observe, Asked
    <2>3. QED
      BY <1>1, <1>3, <2>1, <2>2 DEF Informed
  <1>4. QED
    BY <1>2, <1>3

\* One that decides to push has seen what it replaces in its own cache.
LEMMA InformedPlan ==
  ASSUME ConvInv, HistoryInv, Observe, Plan
  PROVE  Informed'
  <1> USE DEF ConvInv
  <1> DEFINE dst == refs[op.to]
  <1>1. /\ op \in Op /\ op.at = "plan" /\ op.to \in Side /\ Other(op.to) \in Side
        /\ op.src \in everHad[Other(op.to)]
        /\ op.force => Asked(op) \in asked
    BY Sides DEF Plan, TypeOK, Op, HistoryInv, Informed
  <1>2. CASE op' \in {op, NoOp}
    BY <1>2, InformedKept
  <1>3. CASE op' \notin {op, NoOp}
    <2>1. /\ op' = [op EXCEPT !.at = "push", !.lease = LeaseFor(op.force, op.lease, dst)]
          /\ ~op.force => ~Withhold(objs[Other(op.to)], op.src, dst, FALSE)
      BY <1>3 DEF Plan
    <2>2. /\ op'.at = "push" /\ op'.to = op.to /\ op'.src = op.src /\ op'.force = op.force
          /\ op'.lease = IF op.force THEN op.lease ELSE dst
      BY <1>1, <2>1 DEF Op, LeaseFor
    <2>3. op.force => Asked(op)' = Asked(op)
      BY <2>2 DEF Asked
    <2>4. ~op.force /\ dst # None => dst \in everHad[Other(op.to)] /\ ~IsAncestor(op.src, dst)
      BY <1>1, <2>1 DEF Withhold, HistoryInv, Remembers
    <2>5. QED
      BY <1>1, <2>2, <2>3, <2>4, ObserveGrows DEF Informed
  <1>4. QED
    BY <1>2, <1>3

\* One that deletes was told so by a host that did.
LEMMA InformedDelete ==
  ASSUME ConvInv, HistoryInv, Observe, NEW s \in Side, TakeDelete(s)
  PROVE  Informed'
  <1>1. PICK i \in DOMAIN queue[s] : queue[s][i] = "delete"
    BY DEF TakeDelete, Due
  <1>2. Branch \in deletedAt'[s] /\ Other(Other(s)) = s
    BY <1>1, ObserveGrows, Sides DEF HistoryInv, Remembers
  <1>3. op' = NoOp \/ op' = [NoOp EXCEPT !.at = "delete", !.to = Other(s)]
    BY DEF TakeDelete
  <1>4. op'.at \in {"none", "delete"} /\ (op'.at = "delete" => op'.to = Other(s))
    <2>1. NoOp \in Op /\ NoOp.at = "none" /\ Other(s) \in Side
      BY NoOpType, Sides
    <2>2. CASE op' = NoOp
      BY <2>1, <2>2
    <2>3. CASE op' = [NoOp EXCEPT !.at = "delete", !.to = Other(s)]
      BY <2>1, <2>3 DEF Op
    <2>4. QED
      BY <1>3, <2>2, <2>3
  <1>5. QED
    BY <1>2, <1>4 DEF Informed

\* What is known and remembered stays true.
LEMMA HistoryStep ==
  ASSUME ConvInv, HistoryInv, Next, Observe
  PROVE  HistoryInv'
  <1>1. refs' \in [Side -> Tip]
    BY ConvStep DEF ConvInv, TypeOK
  <1>2. everHad' \in [Side -> SUBSET Commit] /\ deletedAt' \in [Side -> SUBSET {Branch}]
    BY <1>1, HistoryFacts DEF HistoryInv, Observe
  <1>3. Remembers'
    <2> SUFFICES ASSUME NEW s \in Side
                 PROVE  /\ History(refs'[s]) \cup objs'[s] \subseteq everHad'[s]
                        /\ Waiting(s, "delete")' => Branch \in deletedAt'[s]
      BY DEF Remembers, Waiting
    <2>1. History(refs'[s]) \subseteq everHad'[s]
      BY DEF Observe
    <2>2. objs'[s] \subseteq everHad'[s]
      BY NewsIsTrue, ObserveGrows DEF HistoryInv, Remembers
    <2>3. Waiting(s, "delete") => Branch \in deletedAt[s]
      BY DEF HistoryInv, Remembers, Waiting
    <2>4. refs[s] # None /\ refs'[s] = None => Branch \in deletedAt'[s]
      BY DEF Observe
    <2>5. QED
      BY <2>1, <2>2, <2>3, <2>4, NewsIsTrue, ObserveGrows
  <1>4. Informed'
    <2>0. None \in Tip /\ \A h \in held : h.tip \in Tip
      BY DEF ConvInv, TypeOK, Hold, Tip
    <2>1. CASE \E s \in Side : TakePush(s) \/ Reconcile(s) \/ Press(s)
      BY <2>0, <2>1, InformedFetch DEF TakePush, Reconcile, Press
    <2>2. CASE \E s \in Side : TakeDelete(s)
      BY <2>2, InformedDelete
    <2>3. CASE Plan
      BY <2>3, InformedPlan
    <2>4. CASE (\E s \in Side, t \in Tip : Person(s, t)) \/ Push \/ Delete \/ Lose \/ OpFails \/ Kill
      BY <2>4, InformedKept DEF Person, Push, Delete, Lose, OpFails, Kill
    <2>5. QED
      BY <2>1, <2>2, <2>3, <2>4 DEF Next, People, Take, Finish
  <1>5. QED
    BY <1>2, <1>3, <1>4 DEF HistoryInv

\* The two modules speak of the same sides.
LEMMA SameSides ==
  Contract!Side = Side /\ \A s \in Side : Contract!Other(s) = Other(s)
  BY DEF Contract!Side, Side, Contract!Other, Other

\* A move to a commit, or to nothing, as the contract has it.
LEMMA MoveMaps ==
  ASSUME ConvInv, HistoryInv, Observe, NEW s \in Side, NEW t \in Tip, Moves(s, t), t # refs[s]
  PROVE  /\ t = None => Contract!Drop(s, Branch)
         /\ t # None => Contract!Put(s, Branch, t)
  <1> USE DEF ConvInv, HistoryInv
  <1>1. /\ refs' = [refs EXCEPT ![s] = t] /\ refs'[s] = t
        /\ \A x \in Side : x # s => refs'[x] = refs[x]
    BY DEF Moves, TypeOK
  <1>2. [x \in Side |-> [r \in {Branch} |-> refs'[x]]]
          = [[x \in Side |-> [r \in {Branch} |-> refs[x]]] EXCEPT ![s][Branch] = t]
    BY <1>1
  <1>3. \A x \in Side : x # s => everHad'[x] = everHad[x] /\ deletedAt'[x] = deletedAt[x]
    BY <1>1 DEF Observe, Remembers
  <1>4. CASE t = None
    <2>1. everHad'[s] = everHad[s] /\ deletedAt'[s] = deletedAt[s] \cup {Branch}
      BY <1>1, <1>4 DEF Observe, History
    <2>2. everHad' = everHad /\ deletedAt' = [deletedAt EXCEPT ![s] = @ \cup {Branch}]
      BY <1>3, <2>1 DEF Observe
    <2>3. QED
      BY <1>2, <1>4, <2>2 DEF Contract!Drop
  <1>5. CASE t # None
    <2>1. everHad'[s] = everHad[s] \cup Ancestors[t] /\ deletedAt'[s] = deletedAt[s]
      BY <1>1, <1>5 DEF Observe, History
    <2>2. deletedAt' = deletedAt /\ everHad' = [everHad EXCEPT ![s] = @ \cup Ancestors[t]]
      BY <1>3, <2>1 DEF Observe
    <2>3. QED
      BY <1>2, <1>5, <2>2 DEF Contract!Put
  <1>6. QED
    BY <1>4, <1>5

\* A step that moves no host is none of the contract's, unless a person asks.
LEMMA StayMaps ==
  ASSUME ConvInv, HistoryInv, Observe, refs' = refs
  PROVE  UNCHANGED <<everHad, deletedAt, userOps>>
  <1> USE DEF ConvInv, HistoryInv
  <1>1. \A x \in Side : everHad'[x] = everHad[x] /\ deletedAt'[x] = deletedAt[x]
    BY DEF Observe, Remembers
  <1>2. QED
    BY <1>1 DEF Observe

\* Nobody asks while an operation is under way, nor when one that was not pressed
\* for begins.
LEMMA NobodyAsks ==
  ASSUME Observe, ~(Idle /\ op'.force)
  PROVE  asked' = asked
  BY DEF Observe

\* Every step is one the contract allows, or none of its business.
LEMMA StepKeepsContract ==
  ASSUME ConvInv, HistoryInv, Next, Observe
  PROVE  [Contract!Next]_(Contract!vars)
  <1> USE DEF ConvInv
  <1>0. ~NoOp.force /\ (Idle => ~op.force)
    BY DEF NoOp, Idle
  <1>1. ASSUME refs' = refs, asked' = asked
        PROVE  UNCHANGED Contract!vars
    BY <1>1, StayMaps DEF Contract!vars
  <1>2. ASSUME NEW s \in Side, NEW t \in Tip, Person(s, t)
        PROVE  Contract!Next
    <2>1. Moves(s, t) /\ refs[s] # t /\ people' = people + 1 /\ op' = op
      BY <1>2 DEF Person
    <2>2. userOps' = userOps + 1 /\ asked' = asked
      <3>1. people' # people /\ refs' # refs
        BY <2>1 DEF TypeOK, Moves
      <3>2. QED
        BY <1>0, <2>1, <3>1, NobodyAsks DEF Observe
    <2>3. Contract!Drop(s, Branch) \/ \E c \in Commit : Contract!Put(s, Branch, c)
      BY <2>1, MoveMaps DEF Tip
    <2>4. Contract!UserWrites(s, Branch)
      BY <2>2, <2>3 DEF Contract!UserWrites
    <2>5. QED
      BY <2>4, SameSides DEF Contract!Next
  <1>3. ASSUME NEW s \in Side, Press(s)
        PROVE  [Contract!Next]_(Contract!vars)
    <2>1. PICK h \in held : h.to = Other(s) /\ Fetch(s, h.tip, TRUE)
      BY <1>3 DEF Press
    <2>2. h.tip \in Commit /\ Other(s) \in Side
      BY Sides DEF TypeOK, Hold
    <2>3. refs' = refs /\ Idle
      BY <2>1 DEF Fetch
    <2>4. CASE op' = NoOp
      BY <1>0, <1>1, <2>3, <2>4, NobodyAsks
    <2>5. CASE op' # NoOp
      <3>1. op'.to = Other(s) /\ op'.lease = h.tip /\ op'.force
        BY <2>1, <2>5 DEF Fetch
      <3>2. asked' = asked \cup {[to |-> Other(s), ref |-> Branch, tip |-> h.tip]}
        BY <2>3, <3>1 DEF Observe, Asked
      <3>3. Contract!PersonAsks(Other(s), Branch, h.tip)
        BY <2>3, <3>2, StayMaps DEF Contract!PersonAsks
      <3>4. QED
        BY <2>2, <3>3, SameSides DEF Contract!Next
    <2>6. QED
      BY <2>4, <2>5
  <1>4. ASSUME Push
        PROVE  [Contract!Next]_(Contract!vars)
    <2>0. /\ op \in Op /\ op.at = "push" /\ op.to \in Side /\ op.src \in Commit
          /\ op' = NoOp /\ people' = people
      BY <1>4 DEF Push, TypeOK, Op, SomethingToPush, Tip
    <2>1. asked' = asked
      BY <1>0, <2>0, NobodyAsks
    <2>2. CASE refs' = refs
      BY <1>1, <2>1, <2>2
    <2>3. CASE refs' # refs
      <3>1. Moves(op.to, op.src) /\ refs[op.to] # op.src /\ refs[op.to] = op.lease
        BY <1>4, <2>3 DEF Push, LeaseHolds
      <3>2. userOps' = userOps
        BY <2>0 DEF Observe
      <3>3. Contract!Put(op.to, Branch, op.src)
        BY <2>0, <3>1, MoveMaps, CommitGraph DEF Tip
      <3>4. /\ op.src \in everHad[Other(op.to)]
            /\ \/ op.lease = None
               \/ op.lease \in everHad[Other(op.to)] /\ ~IsAncestor(op.src, op.lease)
               \/ Asked(op) \in asked
        BY <2>0 DEF HistoryInv, Informed
      <3>5. everHad[Other(op.to)] \subseteq Contract!Vouched(op.to)
        BY <2>0, SameSides DEF Contract!Vouched
      <3>6. <<op.to, Branch>> \in Side \X {Branch}
        BY <2>0
      <3>7. [s \in Side |-> [r \in {Branch} |-> refs[s]]][op.to][Branch] = op.lease
        BY <2>0, <3>1
      <3>8. Contract!MirrorPuts(op.to, Branch, op.src)
        BY <2>0, <2>1, <3>2, <3>3, <3>4, <3>5, <3>6, <3>7, SameSides
        DEF Contract!MirrorPuts, Contract!IsAncestor, IsAncestor, Asked
      <3>9. QED
        BY <2>0, <3>8, SameSides DEF Contract!Next
    <2>4. QED
      BY <2>2, <2>3
  <1>5. ASSUME Delete
        PROVE  [Contract!Next]_(Contract!vars)
    <2>0. op \in Op /\ op.at = "delete" /\ op.to \in Side /\ op' = NoOp /\ people' = people
      BY <1>5 DEF Delete, TypeOK, Op
    <2>1. asked' = asked
      BY <1>0, <2>0, NobodyAsks
    <2>2. CASE refs' = refs
      BY <1>1, <2>1, <2>2
    <2>3. CASE refs' # refs
      <3>1. Moves(op.to, None) /\ refs[op.to] # None
        BY <1>5, <2>3 DEF Delete
      <3>2. Contract!Drop(op.to, Branch) /\ userOps' = userOps
        <4>1. None \in Tip
          BY DEF Tip
        <4>2. PICK to \in Side : to = op.to
          BY <2>0
        <4>3. Moves(to, None) /\ None # refs[to]
          BY <3>1, <4>2
        <4>4. Contract!Drop(to, Branch)
          BY <4>1, <4>3, MoveMaps
        <4>5. userOps' = userOps
          BY <2>0 DEF Observe
        <4>6. QED
          BY <4>2, <4>4, <4>5 DEF Contract!Drop
      <3>3. Branch \in deletedAt[Other(op.to)] /\ <<op.to, Branch>> \in Side \X {Branch}
        BY <2>0 DEF HistoryInv, Informed
      <3>4. Contract!MirrorDrops(op.to, Branch)
        BY <2>0, <2>1, <3>2, <3>3, SameSides DEF Contract!MirrorDrops
      <3>5. QED
        BY <2>0, <3>4, SameSides DEF Contract!Next
    <2>4. QED
      BY <2>2, <2>3
  <1>6. CASE \E s \in Side : TakePush(s) \/ TakeDelete(s) \/ Reconcile(s)
    <2>1. refs' = refs
      BY <1>6 DEF TakePush, TakeDelete, Reconcile, Fetch
    <2>2. ~op'.force
      <3>1. ASSUME NEW s \in Side, Fetch(s, None, FALSE)
            PROVE  ~op'.force
        BY <1>0, <3>1 DEF Fetch
      <3>2. ASSUME NEW s \in Side, TakeDelete(s)
            PROVE  ~op'.force
        BY <3>2 DEF TakeDelete, NoOp
      <3>3. QED
        BY <1>6, <3>1, <3>2 DEF TakePush, Reconcile
    <2>3. QED
      BY <1>1, <2>1, <2>2, NobodyAsks
  <1>7. CASE Plan
    <2>1. refs' = refs /\ ~Idle
      BY <1>7 DEF Plan, Idle, NoOp
    <2>2. QED
      BY <1>1, <2>1, NobodyAsks
  <1>8. CASE Lose \/ OpFails \/ Kill
    <2>1. refs' = refs /\ op' \in {op, NoOp}
      BY <1>8 DEF Lose, OpFails, Kill, Fault
    <2>2. QED
      BY <1>0, <1>1, <2>1, NobodyAsks
  <1>9. QED
    BY <1>2, <1>3, <1>4, <1>5, <1>6, <1>7, <1>8 DEF Next, People, Take, Finish

\* Before anything happened, each host has what its tip reaches.
LEMMA HistoryInit == Init /\ InitHistory => HistoryInv /\ Contract!Init
  <1> SUFFICES ASSUME Init, InitHistory PROVE HistoryInv /\ Contract!Init
    OBVIOUS
  <1>1. /\ everHad \in [Side -> SUBSET Commit] /\ deletedAt \in [Side -> SUBSET {Branch}]
        /\ Informed
    BY HistoryFacts DEF Init, InitHistory, Informed, NoOp
  <1>2. Remembers
    BY EmptySeq DEF Init, InitHistory, Remembers
  <1>3. \A s \in Side : Contract!Reachable([r \in {Branch} |-> refs[s]]) = History(refs[s])
    BY DEF Contract!Reachable, History
  <1>4. Contract!Init
    BY <1>3, SameSides DEF Init, InitHistory, Contract!Init, Contract!Tip, Tip
  <1>5. QED
    BY <1>1, <1>2, <1>4 DEF HistoryInv

\* Echoes, reconciles, retries and forced pushes, in whatever order they come and
\* whatever is lost of them, replace nothing the mirror may not replace and delete
\* nothing that was not deleted on the other host.
THEOREM ExchangeKeepsContract == HistorySpec => KeepsContract
  <1> DEFINE Inv == ConvInv /\ HistoryInv
  <1>1. Init /\ InitHistory => Inv /\ Contract!Init
    BY ConvInit, HistoryInit
  <1>2. Inv /\ [Next /\ Observe]_<<vars, historyVars>> => Inv'
    <2> SUFFICES ASSUME Inv, [Next /\ Observe]_<<vars, historyVars>> PROVE Inv'
      OBVIOUS
    <2>1. CASE Next /\ Observe
      BY <2>1, ConvStep, HistoryStep
    <2>2. CASE UNCHANGED <<vars, historyVars>>
      <3>1. ConvInv'
        BY <2>2, ConvStep
      <3>2. HistoryInv'
        BY <2>2 DEF vars, historyVars, HistoryInv, Informed, Remembers, Asked
      <3>3. QED
        BY <3>1, <3>2
    <2>3. QED
      BY <2>1, <2>2
  <1>3. Inv /\ [Next /\ Observe]_<<vars, historyVars>> => [Contract!Next]_(Contract!vars)
    <2>1. UNCHANGED <<vars, historyVars>> => UNCHANGED Contract!vars
      BY DEF vars, historyVars, Contract!vars
    <2>2. QED
      BY <2>1, StepKeepsContract
  <1>4. QED
    BY <1>1, <1>2, <1>3, PTL DEF HistorySpec, KeepsContract, Contract!Spec
=============================================================================
