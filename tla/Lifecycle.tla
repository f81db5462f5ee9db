----------------------------- MODULE Lifecycle -----------------------------
(***************************************************************************)
(* One git-bridge pod from start to shutdown, over and over: the HTTP      *)
(* handlers that answer at once and detach their sync (task.Group), the    *)
(* console restore that works inside its request, the SQS consumer that    *)
(* handles a batch serially and acknowledges a message only after its sync,*)
(* and main's two-context shutdown with its bounded drain.                 *)
(*                                                                         *)
(* A sync is in flight or over; what it does to a repository is MirrorSync.*)
(* The queue is external: at-least-once, a visibility timeout that may run *)
(* out at any time, a dead-letter queue behind a receive limit.            *)
(***************************************************************************)
EXTENDS Naturals, FiniteSets, Sequences

CONSTANTS
  Detached,    \* requests whose sync is detached: webhook, retry API, console retry and force
  Restores,    \* console restores, whose git work runs inside the request
  Message,     \* messages of the queue
  Malformed,   \* those that do not parse
  BatchSize,   \* sqsMaxMessages
  MaxReceives, \* maxReceiveCount of the queue's redrive policy
  MaxStops     \* bound: times the pod is told to stop or killed

Request == Detached \cup Restores

ASSUME LifecycleSetup ==
  /\ Detached \cap Restores = {}
  /\ IsFiniteSet(Message) /\ Malformed \subseteq Message
  /\ {BatchSize, MaxReceives} \subseteq Nat \ {0}
  /\ MaxStops \in Nat

VARIABLES
  phase,      \* main: "serving", "draining", "drained", "expired", "down"
  listening,  \* RunServer and RunConsole have not returned
  req,        \* req[r]: "new", "handling", "over"
  tasks,      \* syncs task.Group counts in flight
  waited,     \* tasks.Wait has returned
  consumer,   \* SQS.Start: "loop", "receiving", "handling", "stopped"
  batch,      \* messages of the batch not handled yet, the head being synced
  queue,      \* queue[m]: "unsent", "visible", "hidden", "gone", "dead"
  received,   \* received[m]: ApproximateReceiveCount
  stops,
  \* For the properties only:
  early,      \* syncs detached while the pod was serving
  synced      \* messages whose sync has returned nil

mainVars == <<phase, waited, stops>>
httpVars == <<listening, req, tasks, early>>
sqsVars == <<consumer, batch, queue, received, synced>>
vars == <<mainVars, httpVars, sqsVars>>

Serving == phase = "serving"   \* serveCtx is alive
Up == phase # "down"

Init ==
  /\ phase = "serving"
  /\ listening = TRUE
  /\ req = [r \in Request |-> "new"]
  /\ tasks = {}
  /\ waited = FALSE
  /\ consumer = "loop"
  /\ batch = <<>>
  /\ queue = [m \in Message |-> "unsent"]
  /\ received = [m \in Message |-> 0]
  /\ stops = 0
  /\ early = {}
  /\ synced = {}

-----------------------------------------------------------------------------
(* HTTP                                                                    *)

\* A request gets through while the listener accepts.
Arrive(r) ==
  /\ listening
  /\ Up
  /\ req[r] = "new"
  /\ req' = [req EXCEPT ![r] = "handling"]
  /\ UNCHANGED <<mainVars, listening, tasks, early, sqsVars>>

\* dispatchPushEvent and its like: tasks.Go, then 200 or 202.
Detach(r) ==
  /\ Up
  /\ req[r] = "handling"
  /\ req' = [req EXCEPT ![r] = "over"]
  /\ tasks' = tasks \cup {r}
  /\ early' = IF Serving THEN early \cup {r} ELSE early
  /\ UNCHANGED <<mainVars, listening, sqsVars>>

\* restoreHandler answers after doRestoreRef.
RestoreEnds(r) ==
  /\ Up
  /\ req[r] = "handling"
  /\ req' = [req EXCEPT ![r] = "over"]
  /\ UNCHANGED <<mainVars, listening, tasks, early, sqsVars>>

\* A detached sync returns, whatever came of it: nothing retries it.
TaskEnds(r) ==
  /\ Up
  /\ r \in tasks
  /\ tasks' = tasks \ {r}
  /\ UNCHANGED <<mainVars, listening, req, early, sqsVars>>

\* Shutdown closes the listener and ListenAndServe returns at once; the handlers
\* it was serving go on.
ListenerReturns ==
  /\ Up
  /\ ~Serving
  /\ listening
  /\ listening' = FALSE
  /\ UNCHANGED <<mainVars, req, tasks, early, sqsVars>>

-----------------------------------------------------------------------------
(* SQS                                                                     *)

Send(m) ==
  /\ queue[m] = "unsent"
  /\ queue' = [queue EXCEPT ![m] = "visible"]
  /\ UNCHANGED <<mainVars, httpVars, consumer, batch, received, synced>>

\* The visibility timeout runs out: it covers one sync, not a batch of them.
Reappear(m) ==
  /\ queue[m] = "hidden"
  /\ queue' = [queue EXCEPT ![m] = "visible"]
  /\ UNCHANGED <<mainVars, httpVars, consumer, batch, received, synced>>

\* The redrive policy.
DeadLetter(m) ==
  /\ queue[m] = "visible"
  /\ received[m] >= MaxReceives
  /\ queue' = [queue EXCEPT ![m] = "dead"]
  /\ UNCHANGED <<mainVars, httpVars, consumer, batch, received, synced>>

\* The loop of Start: serveCtx is looked at between two batches only.
Poll ==
  /\ Up
  /\ consumer = "loop"
  /\ consumer' = IF Serving THEN "receiving" ELSE "stopped"
  /\ UNCHANGED <<mainVars, httpVars, batch, queue, received, synced>>

Hide(some) ==
  /\ queue' = [m \in Message |-> IF m \in some THEN "hidden" ELSE queue[m]]
  /\ received' = [m \in Message |-> IF m \in some THEN received[m] + 1 ELSE received[m]]

Receivable == {m \in Message : queue[m] = "visible" /\ received[m] < MaxReceives}
Orders(some) == {o \in [1..Cardinality(some) -> some] : \A i, j \in DOMAIN o : o[i] = o[j] => i = j}

\* ReceiveMessage answers with some of the visible messages, in any order.
Receive(some) ==
  /\ Up
  /\ consumer = "receiving"
  /\ some # {}
  /\ Cardinality(some) <= BatchSize
  /\ Hide(some)
  /\ batch' \in Orders(some)
  /\ consumer' = "handling"
  /\ UNCHANGED <<mainVars, httpVars, synced>>

StopsPolling == "stopped"  \* mutant: return on a receive error
AfterReceiveError == "loop"

\* ReceiveMessage fails, or answers with nothing: a cancelled call may have hidden
\* messages nobody will see.
ReceiveNothing ==
  /\ Up
  /\ consumer = "receiving"
  /\ \E lost \in SUBSET Receivable : Hide(lost)
  /\ consumer' = AfterReceiveError
  /\ UNCHANGED <<mainVars, httpVars, batch, synced>>

AcksAnyway(m, ok) == TRUE  \* mutant: delete whatever the outcome
\* handleMessage: a message that does not parse is dropped, a failed sync is left
\* to the visibility timeout.
Acks(m, ok) == m \in Malformed \/ ok

PollAgain == "loop"  \* mutant: one message per poll
AfterMessage == IF Len(batch) = 1 THEN "loop" ELSE "handling"

\* The head of the batch is done with; DeleteMessage itself may fail, and reaches
\* nothing that has moved to the dead-letter queue since.
Handle ==
  LET m == Head(batch) IN
  /\ Up
  /\ consumer = "handling"
  /\ \E ok \in IF m \in Malformed THEN {FALSE} ELSE BOOLEAN :
       /\ synced' = IF ok THEN synced \cup {m} ELSE synced
       /\ \/ Acks(m, ok) /\ queue[m] # "dead" /\ queue' = [queue EXCEPT ![m] = "gone"]
          \/ UNCHANGED queue
  /\ batch' = Tail(batch)
  /\ consumer' = AfterMessage
  /\ UNCHANGED <<mainVars, httpVars, received>>

-----------------------------------------------------------------------------
(* main                                                                    *)

\* SIGTERM: stopServing.
Terminate ==
  /\ Serving
  /\ stops < MaxStops
  /\ stops' = stops + 1
  /\ phase' = "draining"
  /\ waited' = FALSE
  /\ UNCHANGED <<httpVars, sqsVars>>

\* tasks.Wait sees the counter at zero, once; what is detached later it has missed.
TasksWaitReturns ==
  /\ phase = "draining"
  /\ ~waited
  /\ tasks = {}
  /\ waited' = TRUE
  /\ UNCHANGED <<phase, stops, httpVars, sqsVars>>

SettledComponents == ~listening /\ consumer = "stopped"  \* mutant: wg.Wait alone
\* Both wait functions of WaitAll have returned.
Settled == ~listening /\ consumer = "stopped" /\ waited

Drain ==
  /\ phase = "draining"
  /\ Settled
  /\ phase' = "drained"
  /\ UNCHANGED <<waited, stops, httpVars, sqsVars>>

WaitsForever == FALSE  \* mutant: no timer in WaitAll
DrainTimeout == phase = "draining"

\* The drain window runs out first.
Expire ==
  /\ DrainTimeout
  /\ phase' = "expired"
  /\ UNCHANGED <<waited, stops, httpVars, sqsVars>>

\* The process is gone and with it all it was doing.
Gone ==
  /\ phase' = "down"
  /\ waited' = FALSE
  /\ listening' = FALSE
  /\ req' = [r \in Request |-> IF req[r] = "handling" THEN "over" ELSE req[r]]
  /\ tasks' = {}
  /\ early' = {}
  /\ consumer' = "stopped"
  /\ batch' = <<>>
  /\ UNCHANGED <<queue, received, synced>>

\* stopWork and return.
Exit ==
  /\ phase \in {"drained", "expired"}
  /\ Gone
  /\ UNCHANGED stops

\* SIGKILL at any moment.
Kill ==
  /\ Up
  /\ stops < MaxStops
  /\ stops' = stops + 1
  /\ Gone

Restart ==
  /\ phase = "down"
  /\ phase' = "serving"
  /\ listening' = TRUE
  /\ consumer' = "loop"
  /\ UNCHANGED <<waited, stops, req, tasks, early, batch, queue, received, synced>>

-----------------------------------------------------------------------------
Consumer == Poll \/ ReceiveNothing \/ Handle \/ \E some \in SUBSET Receivable : Receive(some)
Main == TasksWaitReturns \/ Drain \/ Expire \/ Exit \/ Restart

Next ==
  \/ Main \/ Terminate \/ Kill
  \/ ListenerReturns
  \/ Consumer
  \/ \E r \in Request : Arrive(r)
  \/ \E r \in Detached : Detach(r) \/ TaskEnds(r)
  \/ \E r \in Restores : RestoreEnds(r)
  \/ \E m \in Message : Send(m) \/ Reappear(m) \/ DeadLetter(m)

\* The Go scheduler runs what can run and the drain timer fires.  Every sync an SQS
\* message starts ends (withGitTimeout); nothing is assumed of detached syncs and
\* restores, nor of people.  The queue keeps its promises: a hidden message
\* reappears, one over its limit is moved, and receiving again and again a visible
\* message is delivered.
Fairness ==
  /\ WF_vars(Main)
  /\ WF_vars(ListenerReturns)
  /\ WF_vars(Poll)
  /\ WF_vars(Handle)
  /\ WF_vars(ReceiveNothing \/ \E some \in SUBSET Receivable : Receive(some))
  /\ \A m \in Message :
       /\ WF_vars(Reappear(m))
       /\ WF_vars(DeadLetter(m))
       /\ SF_vars(\E some \in SUBSET Receivable : m \in some /\ Receive(some))

Spec == Init /\ [][Next]_vars
FairSpec == Spec /\ Fairness

-----------------------------------------------------------------------------
\* The type invariant: the shape of main's, task.Group's and the consumer's state.
TypeOK ==
  /\ phase \in {"serving", "draining", "drained", "expired", "down"}
  /\ {listening, waited} \subseteq BOOLEAN
  /\ req \in [Request -> {"new", "handling", "over"}]
  /\ tasks \subseteq Detached
  /\ early \subseteq Detached
  /\ consumer \in {"loop", "receiving", "handling", "stopped"}
  /\ batch \in Seq(Message)
  /\ consumer = "handling" <=> batch # <<>>
  /\ queue \in [Message -> {"unsent", "visible", "hidden", "gone", "dead"}]
  /\ received \in [Message -> 0..MaxReceives]
  /\ synced \subseteq Message
  /\ stops \in 0..MaxStops

\* An event leaves the queue for good only after its sync succeeded, whatever the
\* pod went through meanwhile: failed deletes, stops, kills, batches cut short
\* (handleMessage).
AckedMeansSynced == \A m \in Message : queue[m] = "gone" => m \in synced \cup Malformed

\* What the contract of Delivery sees of a message and of the batch.
Fate == [m \in Message |->
  CASE queue[m] \in {"visible", "hidden"} -> "waiting"
    [] queue[m] = "gone" -> "done"
    [] OTHER -> queue[m]]
InHand == {batch[i] : i \in DOMAIN batch}
Contract == INSTANCE Delivery WITH fate <- Fate, tries <- received, inHand <- InHand

\* Across batches, timeouts, redelivery, stops, kills and restarts the queue and the
\* consumer keep the contract of Delivery: no event is acknowledged before a try has
\* synced it, none is dead-lettered before its last receive, none is tried more often
\* than it was received, and what is acknowledged or dead stays so.
ImplementsDelivery == Contract!Spec

\* "in-flight mirror syncs drained": a clean shutdown has waited for every sync
\* detached before the signal, and for the whole batch the consumer had in hand.
DrainedStartedWork == phase = "drained" => tasks \cap early = {} /\ batch = <<>>

\* A shutdown ends even if a sync hangs (WaitAll).
ShutdownEnds == phase = "draining" ~> phase = "down"

\* Every event sent ends acknowledged or in the dead-letter queue.
EventsEnd == \A m \in Message : queue[m] = "visible" ~> queue[m] \in {"gone", "dead"}

\* main: "Both have to settle before it is safe to start killing git": what is
\* drained has no git work in flight.
DrainedIsQuiet == phase = "drained" => tasks = {} /\ \A r \in Restores : req[r] # "handling"
=============================================================================
