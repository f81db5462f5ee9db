---------------------------- MODULE Convergence ----------------------------
(***************************************************************************)
(* One branch of a bidirectional pair and the events that travel between   *)
(* its two hosts: every change, a person's or the mirror's own (the echo), *)
(* raises an event that names the ref and no commit, and the mirror acts   *)
(* on the ref as it then is.  When people stop, do the hosts agree again?  *)
(*                                                                         *)
(* MirrorSync lets any trigger fire at any time and asks what a step may   *)
(* never do; here a trigger needs its cause, and the question is where the *)
(* exchange ends.  An operation holds the per-repo mutex from the fetch to *)
(* the push, so one at a time is under way; the hosts keep moving.         *)
(***************************************************************************)
EXTENDS PushGuard, Naturals, Sequences, SequencesExt

CONSTANTS
  InOrder,     \* are a host's events taken in the order it raised them
  Reconciles,  \* does the hourly reconcile run
  MaxUserOps,  \* bound: pushes, deletes and forced overwrites by people
  MaxFaults,   \* bound: events lost, operations failed, pods killed
  MaxQueue     \* bound: a reconcile starts only while fewer events wait

Side == {"source", "target"}
Other(s) == IF s = "source" THEN "target" ELSE "source"

ASSUME ConvergenceSetup ==
  /\ InOrder \in BOOLEAN /\ Reconciles \in BOOLEAN
  /\ {MaxUserOps, MaxFaults, MaxQueue} \subseteq Nat

VARIABLES
  refs,    \* refs[s]: tip of the branch on host s
  objs,    \* objs[s]: commits in the cache fetched from s
  queue,   \* queue[s]: events of host s that no operation has begun yet
  op,      \* the operation that holds the mutex
  held,    \* hold rows in the history: a destination and the tip that stopped it
  people,  \* what people have done so far
  faults

vars == <<refs, objs, queue, op, held, people, faults>>

Event == {"push", "delete"}
Hold == [to : Side, tip : Commit]
Op == [at : {"none", "plan", "push", "delete"}, to : Side, src : Tip, lease : Tip,
       force : BOOLEAN]
NoOp == [at |-> "none", to |-> "source", src |-> None, lease |-> None, force |-> FALSE]

Idle == op = NoOp
Quiet == Idle /\ \A s \in Side : queue[s] = <<>>

-----------------------------------------------------------------------------
Init ==
  /\ refs \in [Side -> Tip]
  /\ objs = [s \in Side |-> {}]
  /\ queue = [s \in Side |-> <<>>]
  /\ op = NoOp
  /\ held = {}
  /\ people = 0
  /\ faults = 0

\* Host s moves the branch to t (None deletes it) and raises the event of it.
Moves(s, t) ==
  /\ refs' = [refs EXCEPT ![s] = t]
  /\ queue' = [queue EXCEPT ![s] = Append(@, IF t = None THEN "delete" ELSE "push")]

\* Someone pushes, with or without force, or deletes the branch.
Person(s, t) ==
  /\ people < MaxUserOps
  /\ people' = people + 1
  /\ refs[s] # t
  /\ Moves(s, t)
  /\ UNCHANGED <<objs, op, held, faults>>

-----------------------------------------------------------------------------
(* doMirror from host s to the other one.                                  *)

\* The mutex, then ensureMirror: an incremental fetch keeps what the cache had, gc
\* or a clone only what the branch reaches.  resolveRefs has nothing to push of a
\* branch that is gone.
Fetch(s, lease, force) ==
  LET tip  == refs[s]
      kept == IF tip = None THEN {} ELSE Ancestors[tip]
  IN
  /\ Idle
  /\ objs' \in {[objs EXCEPT ![s] = @ \cup kept], [objs EXCEPT ![s] = kept]}
  /\ op' = IF tip = None THEN NoOp
           ELSE [at |-> "plan", to |-> Other(s), src |-> tip, lease |-> lease, force |-> force]
  /\ UNCHANGED <<refs, held, faults>>

Due(s) == IF InOrder THEN {i \in DOMAIN queue[s] : i = 1} ELSE DOMAIN queue[s]

\* The goroutine of a push webhook gets the mutex.
TakePush(s) == \E i \in Due(s) :
  /\ queue[s][i] = "push"
  /\ queue' = [queue EXCEPT ![s] = RemoveAt(@, i)]
  /\ Fetch(s, None, FALSE)
  /\ UNCHANGED people

\* The CronJob calls the retry API for both directions of every repository.
Reconcile(s) ==
  /\ Reconciles
  /\ Len(queue["source"]) + Len(queue["target"]) < MaxQueue
  /\ Fetch(s, None, FALSE)
  /\ UNCHANGED <<queue, people>>

\* forceHandler: the button of a hold on record, under the tip the row names.
Press(s) == \E h \in held :
  /\ h.to = Other(s)
  /\ people < MaxUserOps
  /\ people' = people + 1
  /\ Fetch(s, h.tip, TRUE)
  /\ UNCHANGED queue

ForgetHold(h) == held  \* mutant
RecordHold(h) == held \cup {h}

\* planPush reads the destination and judges: nothing to do, withheld, or a push.
Plan ==
  LET dst == refs[op.to] IN
  /\ op.at = "plan"
  /\ IF ~op.force /\ dst = op.src
       THEN op' = NoOp /\ UNCHANGED held
     ELSE IF ~op.force /\ Withhold(objs[Other(op.to)], op.src, dst, FALSE)
       THEN op' = NoOp /\ held' = RecordHold([to |-> op.to, tip |-> dst])
     ELSE /\ op' = [op EXCEPT !.at = "push", !.lease = LeaseFor(op.force, op.lease, dst)]
          /\ UNCHANGED held
  /\ UNCHANGED <<refs, objs, queue, people, faults>>

\* The push lands under its lease and the destination echoes it, or there is
\* nothing to do, or the lease is stale: the guard working, which nothing retries.
Push ==
  /\ op.at = "push"
  /\ op' = NoOp
  /\ IF refs[op.to] # op.src /\ LeaseHolds(refs[op.to], op.lease)
       THEN Moves(op.to, op.src)
       ELSE UNCHANGED <<refs, queue>>
  /\ UNCHANGED <<objs, held, people, faults>>

-----------------------------------------------------------------------------
(* doDeleteRef                                                             *)

\* remoteRefTip says the ref is gone: the echo of a delete ends here.
Absent(to) == refs[to] = None

\* The goroutine of a delete webhook gets the mutex and looks at the destination.
TakeDelete(s) == \E i \in Due(s) :
  /\ Idle
  /\ queue[s][i] = "delete"
  /\ queue' = [queue EXCEPT ![s] = RemoveAt(@, i)]
  /\ op' = IF Absent(Other(s)) THEN NoOp
           ELSE [NoOp EXCEPT !.at = "delete", !.to = Other(s)]
  /\ UNCHANGED <<refs, objs, held, people, faults>>

\* `push :ref` takes what is there, and the destination echoes it; a ref that went
\* in between is a failure that changes nothing.
Delete ==
  /\ op.at = "delete"
  /\ op' = NoOp
  /\ IF refs[op.to] # None THEN Moves(op.to, None) ELSE UNCHANGED <<refs, queue>>
  /\ UNCHANGED <<objs, held, people, faults>>

-----------------------------------------------------------------------------
(* Nobody sends a webhook again: an event lost on the way or with the pod, *)
(* and an operation that failed, are gone.                                 *)

Fault ==
  /\ faults < MaxFaults
  /\ faults' = faults + 1
  /\ UNCHANGED <<refs, objs, held, people>>

Lose == \E s \in Side : \E i \in DOMAIN queue[s] :
  /\ Fault
  /\ queue' = [queue EXCEPT ![s] = RemoveAt(@, i)]
  /\ UNCHANGED op

OpFails ==
  /\ ~Idle
  /\ Fault
  /\ op' = NoOp
  /\ UNCHANGED queue

\* The pod dies with every sync that was answered 200 and not finished.
Kill ==
  /\ ~Quiet
  /\ Fault
  /\ op' = NoOp
  /\ queue' = [s \in Side |-> <<>>]

-----------------------------------------------------------------------------
People == \E s \in Side : Press(s) \/ \E t \in Tip : Person(s, t)

Take(s) == TakePush(s) \/ TakeDelete(s)

Finish == Plan \/ Push \/ Delete

Next ==
  \/ People
  \/ \E s \in Side : Take(s) \/ Reconcile(s)
  \/ Finish
  \/ Lose \/ OpFails \/ Kill

Spec == Init /\ [][Next]_vars

\* The operation under way ends (withGitTimeout).  A sync waiting for the mutex
\* gets it, whichever is in front of it (sync.Mutex starves nobody), and the cron
\* keeps asking.  People owe nothing, and faults need not happen.
FairSpec ==
  /\ Spec
  /\ WF_vars(Finish)
  /\ \A s \in Side : SF_vars(Take(s)) /\ SF_vars(Reconcile(s))

-----------------------------------------------------------------------------
\* The type invariant.
TypeOK ==
  /\ refs \in [Side -> Tip]
  /\ objs \in [Side -> SUBSET Commit]
  /\ queue \in [Side -> Seq(Event)]
  /\ op \in Op
  /\ held \subseteq Hold
  /\ people \in 0..MaxUserOps
  /\ faults \in 0..MaxFaults

Agree == refs["source"] = refs["target"]

\* The tip that stops the direction towards s is one the console offers to discard.
OnRecord(s) == [to |-> s, tip |-> refs[s]] \in held

\* Events alone, without the reconcile: when nothing was lost and every event has
\* been acted on, the sides are equal or the hold that keeps them apart is in the
\* history under the tip the destination has now, so that its button works.
NothingForgotten ==
  Quiet /\ people > 0 /\ faults = 0 => Agree \/ \E s \in Side : OnRecord(s)

\* Neither side contains what the other has.
Diverged ==
  /\ \A s \in Side : refs[s] # None
  /\ \A s \in Side : ~IsAncestor(refs[s], refs[Other(s)])

\* Only a person can say which side is right, and either button is there to press.
Undecided == Diverged /\ \A s \in Side : OnRecord(s)

Deleting == op.at = "delete" \/ \E s \in Side : \E i \in DOMAIN queue[s] : queue[s][i] = "delete"

\* mirror-retry.md: the hourly reconcile backfills what was lost.  Once people and
\* faults stop, whatever was lost, failed or arrived out of order, the two sides end
\* equal, or truly diverged with both directions on record; unless a delete is
\* echoed for ever.
Settles == <>[](Agree \/ Undecided) \/ []<>Deleting

\* README: the echo of a delete ends at the side where the ref is already gone, and
\* the echo of a push is a no-op: the events a change causes run out.
EchoesEnd == <>[]Quiet
=============================================================================
