-------------------------- MODULE LifecycleProofs --------------------------
(***************************************************************************)
(* The safety of Lifecycle for any requests, messages, batch size, receive *)
(* limit and number of stops.                                              *)
(*                                                                         *)
(* DrainedStartedWork alone is not inductive: that no early sync is in     *)
(* flight after a clean drain rests on what was true when tasks.Wait saw   *)
(* zero, and on nobody joining the early ones after the signal.            *)
(***************************************************************************)
EXTENDS Lifecycle, FiniteSetTheorems, SequenceTheorems, TLAPS

\* Only a request that has been answered can have detached a sync.
EarlyAnswered == \A r \in early : req[r] = "over"

\* What main has waited for stays done: the group of the early syncs while the
\* process lives, the consumer once it has stopped.
WaitedForEarly ==
  /\ waited => phase \in {"draining", "drained", "expired"} /\ tasks \cap early = {}
  /\ phase = "drained" => waited /\ consumer = "stopped"
  /\ phase = "down" => batch = <<>>

DrainInv == TypeOK /\ EarlyAnswered /\ WaitedForEarly

-----------------------------------------------------------------------------
\* ReceiveMessage and a cancelled call hide messages and count the receive, up to
\* the limit of the queue.
LEMMA HideType ==
  ASSUME TypeOK, NEW some \in SUBSET Receivable, Hide(some)
  PROVE  /\ queue' \in [Message -> {"unsent", "visible", "hidden", "gone", "dead"}]
         /\ received' \in [Message -> 0..MaxReceives]
         /\ \A m \in Message : queue'[m] = "gone" => queue[m] = "gone"
  <1>1. \A m \in some : m \in Message /\ received[m] + 1 \in 0..MaxReceives
    BY LifecycleSetup DEF Receivable, TypeOK
  <1>2. QED
    BY <1>1 DEF Hide, TypeOK

\* A batch is a non-empty sequence of messages.
LEMMA BatchType ==
  ASSUME NEW some \in SUBSET Receivable, some # {}, NEW o \in Orders(some)
  PROVE  o \in Seq(Message) /\ o # <<>>
  <1>1. IsFiniteSet(some)
    BY LifecycleSetup, FS_Subset DEF Receivable
  <1>2. Cardinality(some) \in Nat /\ Cardinality(some) # 0
    BY <1>1, FS_CardinalityType, FS_EmptySet
  <1>3. o \in [1..Cardinality(some) -> Message]
    BY DEF Orders, Receivable
  <1>4. o \in Seq(Message)
    BY <1>2, <1>3, SeqDef
  <1>5. DOMAIN o # DOMAIN <<>>
    BY <1>2, <1>3
  <1>6. QED
    BY <1>4, <1>5

\* The process dying leaves the types as they are.
LEMMA GoneType ==
  ASSUME TypeOK, Gone, stops' \in 0..MaxStops
  PROVE  TypeOK'
  BY EmptySeq DEF TypeOK, Gone

-----------------------------------------------------------------------------
LEMMA DrainInit == Init => DrainInv
  <1> SUFFICES ASSUME Init PROVE DrainInv
    OBVIOUS
  <1>1. <<>> \in Seq(Message) /\ 0 \in 0..MaxStops /\ 0 \in 0..MaxReceives
    BY LifecycleSetup, EmptySeq
  <1>2. TypeOK
    BY <1>1 DEF Init, TypeOK
  <1>3. QED
    BY <1>2 DEF Init, DrainInv, EarlyAnswered, WaitedForEarly

\* HTTP: answering, detaching and ending syncs, and the listener.
LEMMA DrainHTTP ==
  ASSUME DrainInv,
         NEW r,
         \/ r \in Request /\ Arrive(r)
         \/ r \in Detached /\ (Detach(r) \/ TaskEnds(r))
         \/ r \in Restores /\ RestoreEnds(r)
         \/ ListenerReturns
  PROVE  DrainInv'
  <1> USE DEF DrainInv
  <1>1. CASE r \in Request /\ Arrive(r)
    BY <1>1 DEF Arrive, TypeOK, EarlyAnswered, WaitedForEarly, mainVars, sqsVars
  <1>2. CASE r \in Detached /\ Detach(r)
    <2>1. TypeOK'
      BY <1>2 DEF Detach, TypeOK, mainVars, sqsVars
    <2>2. r \notin early
      BY <1>2 DEF Detach, EarlyAnswered
    <2>3. EarlyAnswered'
      BY <1>2 DEF Detach, TypeOK, EarlyAnswered, Request
    <2>4. WaitedForEarly'
      BY <1>2, <2>2 DEF Detach, WaitedForEarly, Serving, mainVars, sqsVars
    <2>5. QED
      BY <2>1, <2>3, <2>4
  <1>3. CASE r \in Detached /\ TaskEnds(r)
    BY <1>3 DEF TaskEnds, TypeOK, EarlyAnswered, WaitedForEarly, mainVars, sqsVars
  <1>4. CASE r \in Restores /\ RestoreEnds(r)
    BY <1>4 DEF RestoreEnds, Request, TypeOK, EarlyAnswered, WaitedForEarly, mainVars, sqsVars
  <1>5. CASE ListenerReturns
    BY <1>5 DEF ListenerReturns, TypeOK, EarlyAnswered, WaitedForEarly, mainVars, sqsVars
  <1>6. QED
    BY <1>1, <1>2, <1>3, <1>4, <1>5

\* The queue on its own.
LEMMA DrainQueue ==
  ASSUME DrainInv, NEW m \in Message, Send(m) \/ Reappear(m) \/ DeadLetter(m)
  PROVE  DrainInv'
  <1>1. UNCHANGED <<phase, waited, stops, listening, req, tasks, early, consumer, batch,
                    received, synced>>
    BY DEF Send, Reappear, DeadLetter, mainVars, httpVars
  <1>2. queue' \in [Message -> {"unsent", "visible", "hidden", "gone", "dead"}]
    BY DEF DrainInv, TypeOK, Send, Reappear, DeadLetter
  <1>3. QED
    BY <1>1, <1>2 DEF DrainInv, TypeOK, EarlyAnswered, WaitedForEarly

\* The consumer: a stopped one does nothing.
LEMMA DrainConsumer == DrainInv /\ Consumer => DrainInv'
  <1> SUFFICES ASSUME DrainInv, Consumer PROVE DrainInv'
    OBVIOUS
  <1> USE DEF DrainInv
  <1>1. UNCHANGED <<phase, waited, stops, listening, req, tasks, early>> /\ Up /\ consumer # "stopped"
    BY DEF Consumer, Poll, Receive, ReceiveNothing, Handle, mainVars, httpVars
  <1>2. EarlyAnswered' /\ WaitedForEarly'
    BY <1>1 DEF EarlyAnswered, WaitedForEarly, Up
  <1>3. CASE Poll
    BY <1>2, <1>3 DEF Poll, TypeOK, mainVars, httpVars
  <1>4. CASE ReceiveNothing
    BY <1>1, <1>2, <1>4, HideType DEF ReceiveNothing, AfterReceiveError, TypeOK
  <1>5. CASE Handle
    <2>1. batch # <<>> /\ Head(batch) \in Message /\ batch' \in Seq(Message)
      BY <1>5 DEF Handle, TypeOK
    <2>2. consumer' \in {"loop", "handling"} /\ (consumer' = "handling" <=> batch' # <<>>)
      <3>1. batch \in Seq(Message) /\ batch' = Tail(batch)
        BY <1>5 DEF Handle, TypeOK
      <3>2. Len(batch') = Len(batch) - 1 /\ Len(batch) \in Nat
        BY <2>1, <3>1, HeadTailProperties, LenProperties
      <3>3. Len(batch) = 1 <=> batch' = <<>>
        BY <2>1, <3>2, EmptySeq
      <3>4. QED
        BY <1>5, <3>3 DEF Handle, AfterMessage
    <2>3. /\ queue' \in [Message -> {"unsent", "visible", "hidden", "gone", "dead"}]
          /\ synced' \subseteq Message
          /\ UNCHANGED received
      BY <1>5, <2>1 DEF Handle, TypeOK
    <2>4. TypeOK'
      BY <1>1, <2>1, <2>2, <2>3 DEF TypeOK
    <2>5. QED
      BY <1>2, <2>4
  <1>6. ASSUME NEW some \in SUBSET Receivable, Receive(some)
        PROVE  DrainInv'
    BY <1>1, <1>2, <1>6, HideType, BatchType DEF Receive, TypeOK
  <1>7. QED
    BY <1>3, <1>4, <1>5, <1>6 DEF Consumer

\* main, from the signal to the restart.
LEMMA DrainMain == DrainInv /\ (Main \/ Terminate \/ Kill) => DrainInv'
  <1> SUFFICES ASSUME DrainInv, Main \/ Terminate \/ Kill PROVE DrainInv'
    OBVIOUS
  <1> USE DEF DrainInv
  <1>1. CASE TasksWaitReturns
    BY <1>1 DEF TasksWaitReturns, TypeOK, EarlyAnswered, WaitedForEarly, httpVars, sqsVars
  <1>2. CASE Drain
    BY <1>2 DEF Drain, Settled, TypeOK, EarlyAnswered, WaitedForEarly, httpVars, sqsVars
  <1>3. CASE Expire
    BY <1>3 DEF Expire, DrainTimeout, TypeOK, EarlyAnswered, WaitedForEarly, httpVars, sqsVars
  <1>4. CASE Restart
    BY <1>4 DEF Restart, TypeOK, EarlyAnswered, WaitedForEarly
  <1>5. CASE Terminate
    <2>1. stops' \in 0..MaxStops
      BY <1>5, LifecycleSetup DEF Terminate, TypeOK
    <2>2. TypeOK'
      BY <1>5, <2>1 DEF Terminate, TypeOK, httpVars, sqsVars
    <2>3. EarlyAnswered' /\ WaitedForEarly'
      BY <1>5 DEF Terminate, EarlyAnswered, WaitedForEarly, httpVars, sqsVars
    <2>4. QED
      BY <2>2, <2>3
  <1>6. CASE Exit \/ Kill
    <2>1. Gone /\ stops' \in 0..MaxStops
      BY <1>6, LifecycleSetup DEF Exit, Kill, TypeOK
    <2>2. TypeOK'
      BY <2>1, GoneType
    <2>3. EarlyAnswered' /\ WaitedForEarly'
      BY <2>1 DEF Gone, EarlyAnswered, WaitedForEarly
    <2>4. QED
      BY <2>2, <2>3
  <1>7. QED
    BY <1>1, <1>2, <1>3, <1>4, <1>5, <1>6 DEF Main

\* The invariant holds of every state a pod can be in.
LEMMA DrainStep == DrainInv /\ [Next]_vars => DrainInv'
  <1> SUFFICES ASSUME DrainInv, [Next]_vars PROVE DrainInv'
    OBVIOUS
  <1>1. CASE Next
    BY <1>1, DrainHTTP, DrainQueue, DrainConsumer, DrainMain DEF Next
  <1>2. CASE UNCHANGED vars
    BY <1>2 DEF vars, mainVars, httpVars, sqsVars, DrainInv, TypeOK, EarlyAnswered, WaitedForEarly
  <1>3. QED
    BY <1>1, <1>2

LEMMA DrainAlways == Spec => []DrainInv
  BY DrainInit, DrainStep, PTL DEF Spec

\* Every variable of the pod and the queue keeps its type.
THEOREM TypeCorrect == Spec => []TypeOK
  <1>1. DrainInv => TypeOK
    BY DEF DrainInv
  <1>2. QED
    BY <1>1, DrainAlways, PTL

\* A drain that main reports as clean has waited for every sync detached before the
\* signal and for the batch the consumer had in hand (main.go, WaitAll).
THEOREM CleanDrain == Spec => []DrainedStartedWork
  <1>1. DrainInv => DrainedStartedWork
    BY DEF DrainInv, WaitedForEarly, TypeOK, DrainedStartedWork
  <1>2. QED
    BY <1>1, DrainAlways, PTL

-----------------------------------------------------------------------------
LEMMA AckedStep == TypeOK /\ AckedMeansSynced /\ [Next]_vars => AckedMeansSynced'
  <1> SUFFICES ASSUME TypeOK, AckedMeansSynced, [Next]_vars PROVE AckedMeansSynced'
    OBVIOUS
  <1> USE DEF AckedMeansSynced
  <1>1. CASE UNCHANGED <<queue, synced>>
    BY <1>1
  <1>2. ASSUME NEW m \in Message, Send(m) \/ Reappear(m) \/ DeadLetter(m)
        PROVE  AckedMeansSynced'
    BY <1>2 DEF Send, Reappear, DeadLetter, TypeOK
  <1>3. ASSUME NEW some \in SUBSET Receivable, Hide(some), UNCHANGED synced
        PROVE  AckedMeansSynced'
    BY <1>3, HideType
  <1>4. CASE Handle
    <2>1. Head(batch) \in Message
      BY <1>4 DEF Handle, TypeOK
    <2>2. QED
      BY <1>4, <2>1 DEF Handle, Acks, TypeOK
  <1>5. CASE Consumer
    BY <1>1, <1>3, <1>4, <1>5 DEF Consumer, Poll, Receive, ReceiveNothing
  <1>6. CASE Main \/ Terminate \/ Kill
    BY <1>1, <1>6
    DEF Main, TasksWaitReturns, Drain, Expire, Exit, Gone, Restart, Terminate, Kill, sqsVars
  <1>7. CASE \/ ListenerReturns
             \/ \E r \in Request : Arrive(r)
             \/ \E r \in Detached : Detach(r) \/ TaskEnds(r)
             \/ \E r \in Restores : RestoreEnds(r)
    BY <1>1, <1>7 DEF ListenerReturns, Arrive, Detach, TaskEnds, RestoreEnds, sqsVars
  <1>8. QED
    BY <1>1, <1>2, <1>5, <1>6, <1>7 DEF Next, vars, sqsVars

\* Whatever the pod and the queue go through, a message is gone only if its sync
\* returned nil or it does not parse (handleMessage).
THEOREM AckedAfterSync == Spec => []AckedMeansSynced
  <1>1. Init => AckedMeansSynced
    BY DEF Init, AckedMeansSynced
  <1>2. QED
    BY <1>1, AckedStep, TypeCorrect, PTL DEF Spec

-----------------------------------------------------------------------------
(* The contract of Delivery.  A batch holds no message twice, so trying its *)
(* head leaves the others in hand and takes that one away.                  *)

BatchSound ==
  /\ \A i, j \in DOMAIN batch : batch[i] = batch[j] => i = j
  /\ \A i \in DOMAIN batch : queue[batch[i]] # "unsent"

DeliveryInv == TypeOK /\ BatchSound

\* Every message received is in the batch, once.
LEMMA BatchOf ==
  ASSUME NEW some \in SUBSET Receivable, NEW o \in Orders(some)
  PROVE  /\ \A i, j \in DOMAIN o : o[i] = o[j] => i = j
         /\ {o[i] : i \in DOMAIN o} = some
  <1> DEFINE n == Cardinality(some)
  <1>1. IsFiniteSet(some)
    BY LifecycleSetup, FS_Subset DEF Receivable
  <1>2. n \in Nat
    BY <1>1, FS_CardinalityType
  <1>3. Cardinality(1..n) = n
    BY <1>2, FS_Interval
  <1>4. o \in Injection(1..n, some)
    BY DEF Orders, Injection, IsInjective
  <1>5. o \in Surjection(1..n, some)
    BY <1>1, <1>3, <1>4, FS_Injection
  <1>6. QED
    BY <1>5 DEF Orders, Surjection

\* What the contract sees of a message.
LEMMA FateOf ==
  ASSUME TypeOK, NEW m \in Message
  PROVE  /\ Fate[m] = "unsent" <=> queue[m] = "unsent"
         /\ Fate[m] = "waiting" <=> queue[m] \in {"visible", "hidden"}
         /\ Fate[m] = "done" <=> queue[m] = "gone"
         /\ Fate[m] = "dead" <=> queue[m] = "dead"
  BY DEF Fate, TypeOK

\* A step in which one message changes.
LEMMA FateStep ==
  ASSUME TypeOK, NEW m \in Message, NEW q, queue' = [queue EXCEPT ![m] = q]
  PROVE  Fate' = [Fate EXCEPT ![m] =
                    CASE q \in {"visible", "hidden"} -> "waiting"
                      [] q = "gone" -> "done"
                      [] OTHER -> q]
  BY DEF Fate, TypeOK

\* Hiding messages that are visible leaves them waiting.
LEMMA FateHidden ==
  ASSUME TypeOK, NEW some \in SUBSET Receivable, Hide(some)
  PROVE  /\ Fate' = Fate
         /\ \A m \in some : Fate[m] = "waiting" /\ received[m] < MaxReceives
         /\ received' = [m \in Message |-> IF m \in some THEN received[m] + 1 ELSE received[m]]
         /\ \A m \in Message : queue'[m] = "unsent" => queue[m] = "unsent"
         /\ \A m \in some : queue'[m] = "hidden"
  BY DEF Hide, Receivable, Fate, TypeOK

\* The queue on its own: sent, back after its timeout, or given up.
LEMMA QueueDelivers ==
  ASSUME DeliveryInv, NEW m \in Message, Send(m) \/ Reappear(m) \/ DeadLetter(m)
  PROVE  [Contract!Next]_(Contract!vars) /\ BatchSound'
  <1>1. UNCHANGED <<batch, received, synced>> /\ InHand' = InHand
    BY DEF Send, Reappear, DeadLetter, InHand
  <1>2. BatchSound'
    BY <1>1 DEF Send, Reappear, DeadLetter, BatchSound, DeliveryInv, TypeOK
  <1>3. CASE Send(m)
    <2>1. Contract!Send(m)
      BY <1>1, <1>3, FateOf, FateStep DEF Send, Contract!Send, DeliveryInv
    <2>2. QED
      BY <1>2, <2>1 DEF Contract!Next
  <1>4. CASE Reappear(m)
    <2>1. Fate' = Fate
      BY <1>4 DEF Reappear, Fate, DeliveryInv, TypeOK
    <2>2. QED
      BY <1>1, <1>2, <2>1 DEF Contract!vars
  <1>5. CASE DeadLetter(m)
    <2>1. Contract!GiveUp(m)
      BY <1>1, <1>5, FateOf, FateStep DEF DeadLetter, Contract!GiveUp, DeliveryInv
    <2>2. QED
      BY <1>2, <2>1 DEF Contract!Next
  <1>6. QED
    BY <1>3, <1>4, <1>5

\* ReceiveMessage: with nothing in hand, a set of waiting messages is handed over,
\* or lost on the way.
LEMMA ReceiveDelivers ==
  ASSUME DeliveryInv, NEW some \in SUBSET Receivable, Hide(some), UNCHANGED synced,
         batch = <<>>, batch' = <<>> \/ batch' \in Orders(some)
  PROVE  Contract!HandOver(some) /\ BatchSound'
  <1>1. InHand = {}
    BY EmptySeq DEF InHand
  <1>2. /\ \A i, j \in DOMAIN batch' : batch'[i] = batch'[j] => i = j
        /\ InHand' \in {some, {}}
    <2>1. CASE batch' = <<>>
      BY <2>1, EmptySeq DEF InHand
    <2>2. CASE batch' \in Orders(some)
      BY <2>2, BatchOf DEF InHand
    <2>3. QED
      BY <2>1, <2>2
  <1>3. \A i \in DOMAIN batch' : queue'[batch'[i]] # "unsent"
    <2>1. \A i \in DOMAIN batch' : batch'[i] \in some
      BY <1>2 DEF InHand
    <2>2. QED
      BY <2>1, FateHidden DEF DeliveryInv
  <1>4. QED
    BY <1>1, <1>2, <1>3, FateHidden DEF BatchSound, Contract!HandOver, DeliveryInv

\* handleMessage: the head of the batch is tried, and done with if that synced it.
LEMMA HandleDelivers ==
  ASSUME DeliveryInv, Handle
  PROVE  (\E m \in Message : Contract!Try(m)) /\ BatchSound'
  <1> DEFINE m == Head(batch)
  <1>1. /\ batch \in Seq(Message) /\ batch # <<>>
        /\ batch' = Tail(batch) /\ UNCHANGED received
    BY DEF Handle, DeliveryInv, TypeOK
  <1>2. /\ Len(batch) \in Nat \ {0} /\ DOMAIN batch = 1..Len(batch)
        /\ m \in Message /\ m = batch[1]
        /\ DOMAIN batch' = 1..(Len(batch) - 1)
        /\ \A i \in DOMAIN batch' : batch'[i] = batch[i + 1]
    BY <1>1, HeadTailProperties, LenProperties, EmptySeq
  <1>3. /\ \A i, j \in DOMAIN batch : batch[i] = batch[j] => i = j
        /\ \A i \in DOMAIN batch : queue[batch[i]] # "unsent"
    BY DEF DeliveryInv, BatchSound
  <1> HIDE DEF m
  <1>4. m \in InHand /\ InHand' = InHand \ {m}
    <2>1. \A i \in DOMAIN batch : i # 1 => i - 1 \in DOMAIN batch' /\ batch[i] = batch'[i - 1]
      BY <1>2
    <2>2. \A i \in DOMAIN batch' :
            i + 1 \in DOMAIN batch /\ i + 1 # 1 /\ batch'[i] = batch[i + 1]
      BY <1>2
    <2>3. 1 \in DOMAIN batch /\ batch[1] = m
      BY <1>2
    <2>4. ASSUME NEW x \in InHand, x # m PROVE x \in InHand'
      BY <2>1, <2>3, <2>4 DEF InHand
    <2>5. ASSUME NEW x \in InHand' PROVE x \in InHand /\ x # m
      BY <1>3, <2>2, <2>3, <2>5 DEF InHand
    <2>6. m \in InHand
      BY <2>3 DEF InHand
    <2>7. QED
      BY <2>4, <2>5, <2>6
  <1>5. queue[m] # "unsent"
    BY <1>2, <1>3
  <1>6. PICK ok \in (IF m \in Malformed THEN {FALSE} ELSE BOOLEAN) :
          /\ synced' = IF ok THEN synced \cup {m} ELSE synced
          /\ \/ Acks(m, ok) /\ queue[m] # "dead" /\ queue' = [queue EXCEPT ![m] = "gone"]
             \/ UNCHANGED queue
    BY DEF Handle, m
  <1>7. \/ Fate' = Fate
        \/ /\ Fate[m] = "waiting" /\ Acks(m, ok)
           /\ Fate' = [Fate EXCEPT ![m] = "done"]
    <2>1. CASE UNCHANGED queue
      BY <2>1 DEF Fate
    <2>2. CASE queue[m] = "gone" /\ queue' = [queue EXCEPT ![m] = "gone"]
      BY <2>2 DEF Fate, DeliveryInv, TypeOK
    <2>3. CASE /\ queue[m] \in {"visible", "hidden"} /\ Acks(m, ok)
               /\ queue' = [queue EXCEPT ![m] = "gone"]
      BY <1>2, <2>3, FateOf, FateStep DEF DeliveryInv
    <2>4. QED
      BY <1>2, <1>5, <1>6, <2>1, <2>2, <2>3 DEF DeliveryInv, TypeOK
  <1>8. Contract!Try(m)
    BY <1>1, <1>4, <1>6, <1>7 DEF Contract!Try, Acks
  <1>9. BatchSound'
    <2>1. \A i \in DOMAIN batch' : i + 1 \in DOMAIN batch /\ batch'[i] = batch[i + 1]
      BY <1>2
    <2>2. \A i, j \in DOMAIN batch' : batch'[i] = batch'[j] => i = j
      BY <1>2, <1>3, <2>1
    <2>3. \A k \in Message : queue'[k] = "unsent" => queue[k] = "unsent"
      BY <1>6 DEF DeliveryInv, TypeOK
    <2>4. \A i \in DOMAIN batch : batch[i] \in Message
      BY <1>1, ElementOfSeq, LenProperties
    <2>5. QED
      BY <1>3, <2>1, <2>2, <2>3, <2>4 DEF BatchSound
  <1>10. QED
    BY <1>2, <1>8, <1>9

LEMMA StepDelivers ==
  ASSUME DeliveryInv, [Next]_vars
  PROVE  [Contract!Next]_(Contract!vars) /\ BatchSound'
  <1>1. CASE UNCHANGED <<queue, received, batch, synced>>
    BY <1>1 DEF Contract!vars, Fate, InHand, BatchSound, DeliveryInv
  <1>2. ASSUME NEW m \in Message, Send(m) \/ Reappear(m) \/ DeadLetter(m)
        PROVE  [Contract!Next]_(Contract!vars) /\ BatchSound'
    BY <1>2, QueueDelivers
  <1>3. CASE ReceiveNothing
    <2>1. batch = <<>> /\ batch' = <<>> /\ UNCHANGED synced
      BY <1>3 DEF ReceiveNothing, DeliveryInv, TypeOK
    <2>2. PICK lost \in SUBSET Receivable : Hide(lost)
      BY <1>3 DEF ReceiveNothing
    <2>3. Contract!HandOver(lost) /\ BatchSound' /\ lost \in SUBSET Message
      BY <2>1, <2>2, ReceiveDelivers DEF Receivable
    <2>4. QED
      BY <2>3 DEF Contract!Next
  <1>4. ASSUME NEW some \in SUBSET Receivable, Receive(some)
        PROVE  [Contract!Next]_(Contract!vars) /\ BatchSound'
    <2>1. batch = <<>> /\ batch' \in Orders(some) /\ Hide(some) /\ UNCHANGED synced
      BY <1>4 DEF Receive, DeliveryInv, TypeOK
    <2>2. Contract!HandOver(some) /\ BatchSound' /\ some \in SUBSET Message
      BY <2>1, ReceiveDelivers DEF Receivable
    <2>3. QED
      BY <2>2 DEF Contract!Next
  <1>5. CASE Handle
    BY <1>5, HandleDelivers DEF Contract!Next
  <1>6. CASE Consumer
    BY <1>1, <1>3, <1>4, <1>5, <1>6 DEF Consumer, Poll
  <1>7. CASE Exit \/ Kill
    <2>1. batch' = <<>> /\ UNCHANGED <<queue, received, synced>>
      BY <1>7 DEF Exit, Kill, Gone
    <2>2. Contract!Forget /\ BatchSound'
      BY <2>1, EmptySeq DEF Contract!Forget, Fate, InHand, BatchSound
    <2>3. QED
      BY <2>2 DEF Contract!Next
  <1>8. CASE Main \/ Terminate
    BY <1>1, <1>7, <1>8
    DEF Main, TasksWaitReturns, Drain, Expire, Restart, Terminate, sqsVars
  <1>9. CASE \/ ListenerReturns
             \/ \E r \in Request : Arrive(r)
             \/ \E r \in Detached : Detach(r) \/ TaskEnds(r)
             \/ \E r \in Restores : RestoreEnds(r)
    BY <1>1, <1>9 DEF ListenerReturns, Arrive, Detach, TaskEnds, RestoreEnds, sqsVars
  <1>10. QED
    BY <1>1, <1>2, <1>6, <1>7, <1>8, <1>9 DEF Next, vars, sqsVars

LEMMA DeliveryInit == Init => DeliveryInv /\ Contract!Init
  <1> SUFFICES ASSUME Init PROVE DeliveryInv /\ Contract!Init
    OBVIOUS
  <1>1. TypeOK
    BY DrainInit DEF DrainInv
  <1>2. batch = <<>> /\ DOMAIN batch = {}
    BY EmptySeq DEF Init
  <1>3. BatchSound /\ InHand = {}
    BY <1>2 DEF BatchSound, InHand
  <1>4. Fate = [m \in Message |-> "unsent"]
    BY DEF Init, Fate
  <1>5. QED
    BY <1>1, <1>3, <1>4 DEF Init, DeliveryInv, Contract!Init

\* Whatever happens to pods, batches and timeouts, the queue and the consumer keep the
\* contract of Delivery for each event (SQS.Start, poll, handleMessage).
THEOREM KeepsDelivery == Spec => ImplementsDelivery
  <1>1. TypeOK /\ TypeOK' /\ BatchSound /\ [Next]_vars =>
          BatchSound' /\ [Contract!Next]_(Contract!vars)
    BY StepDelivers DEF DeliveryInv
  <1>2. Spec => []BatchSound
    <2>1. Init => BatchSound
      BY DeliveryInit DEF DeliveryInv
    <2>2. QED
      BY <1>1, <2>1, TypeCorrect, PTL DEF Spec
  <1>3. Init => Contract!Init
    BY DeliveryInit
  <1>4. QED
    BY <1>1, <1>2, <1>3, TypeCorrect, PTL DEF Spec, ImplementsDelivery, Contract!Spec
=============================================================================
