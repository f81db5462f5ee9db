---------------------------- MODULE MirrorProofs ----------------------------
(***************************************************************************)
(* The safety of MirrorSync for every commit graph, any number of refs,    *)
(* workers, user operations and jobs, and every direction and override.    *)
(*                                                                         *)
(* IndInv is inductive; the action properties and the refinement of        *)
(* MirrorContract follow from it step by step.                             *)
(***************************************************************************)
EXTENDS MirrorSafety, TLAPS

-----------------------------------------------------------------------------
(* Facts about the commit graph.                                           *)

\* What a set of refs reaches is commits, contains the tips, and is closed.
LEMMA ReachableFacts ==
  ASSUME NEW tips \in [Ref -> Tip]
  PROVE  /\ Reachable(tips) \subseteq Commit
         /\ Closed(Reachable(tips))
         /\ \A r \in Ref : tips[r] # None => tips[r] \in Reachable(tips)
  BY CommitGraph DEF Reachable, Closed, Tip

\* A closed store that holds the tips holds all they reach.
LEMMA ReachableWithin ==
  ASSUME NEW tips \in [Ref -> Tip], NEW S \in SUBSET Commit, Closed(S),
         \A r \in Ref : tips[r] # None => tips[r] \in S
  PROVE  Reachable(tips) \subseteq S
  BY CommitGraph DEF Reachable, Closed, Tip

\* Adding a commit with its history keeps a store closed.
LEMMA ClosedGrows ==
  ASSUME NEW S \in SUBSET Commit, NEW c \in Commit, Closed(S)
  PROVE  /\ Closed(S \cup Ancestors[c])
         /\ S \cup Ancestors[c] \subseteq Commit
         /\ c \in Ancestors[c]
  BY CommitGraph DEF Closed

\* The two sides are each the other of the other.
LEMMA OtherSide ==
  ASSUME NEW s \in Side
  PROVE  Other(s) \in Side /\ Other(s) # s /\ Other(Other(s)) = s
  BY DEF Side, Other

-----------------------------------------------------------------------------
(* Type correctness.                                                       *)

\* An idle worker's job is a job.
LEMMA NoJobType == NoJob \in Job
  BY DEF NoJob, Task, Job, Side, Tip

\* The return of an operation keeps the types of what it touches.
LEMMA ReturnType ==
  ASSUME TypeOK, NEW w \in Worker, NEW rows \in SUBSET Row, Return(w, rows)
  PROVE  /\ lock' \in Worker \cup {NoWorker}
         /\ pc' \in [Worker -> Phase]
         /\ job' \in [Worker -> Job]
         /\ specs' \in [Worker -> SUBSET PushSpec]
         /\ pending' \in [Worker -> SUBSET Row]
         /\ history' \in SUBSET Row
         /\ started' \in Nat
         /\ asked' \in SUBSET Ask
         /\ userOps' \in Nat
  BY NoJobType DEF TypeOK, Return, userVars, Phase

\* A write to a host keeps the types of the host.
LEMMA HostWriteType ==
  ASSUME TypeOK, NEW s \in Side, NEW r \in Ref, NEW t \in Tip, HostWrite(s, r, t)
  PROVE  /\ refs' \in [Side -> [Ref -> Tip]]
         /\ everHad' \in [Side -> SUBSET Commit]
         /\ deletedAt' \in [Side -> SUBSET Ref]
  BY CommitGraph DEF TypeOK, HostWrite, Tip

\* The initial states have the types.
LEMMA InitType == Init => TypeOK
  <1> SUFFICES ASSUME Init PROVE TypeOK
    OBVIOUS
  <1>1. \A s \in Side : Reachable(refs[s]) \subseteq Commit
    BY ReachableFacts DEF Init
  <1>2. QED
    BY <1>1, NoJobType DEF Init, TypeOK, Tip, Phase

\* What people do on the hosts keeps the types.
LEMMA UserType == TypeOK /\ User => TypeOK'
  <1> SUFFICES ASSUME TypeOK, NEW s \in Side, NEW r \in Ref,
                      UserDelete(s, r) \/ \E c \in Commit : UserPush(s, r, c)
               PROVE  TypeOK'
    BY DEF User
  <1>1. CASE UserDelete(s, r)
    BY <1>1 DEF UserDelete, TypeOK, Tip, cacheVars, jobVars
  <1>2. ASSUME NEW c \in Commit, UserPush(s, r, c)
        PROVE  TypeOK'
    BY <1>2, CommitGraph DEF UserPush, TypeOK, Tip, cacheVars, jobVars
  <1>3. QED
    BY <1>1, <1>2

\* So does every entry point.
LEMMA StartType == ASSUME TypeOK, NEW w \in Worker, Start(w) PROVE TypeOK'
  <1>1. ASSUME NEW j \in Job, NEW at \in Phase, Begin(w, at, j),
               lock' \in Worker \cup {NoWorker}, asked' \in SUBSET Ask
        PROVE  TypeOK'
    BY <1>1 DEF Begin, TypeOK, hostVars, cacheVars
  <1>2. ASSUME NEW to \in Side, NEW r \in Ref \cup {NoRef}, StartMirror(w, to, r)
        PROVE  TypeOK'
    <2>1. Task("mirror", to, r) \in Job
      BY DEF Task, Job, Tip
    <2>2. QED
      BY <1>1, <1>2, <2>1 DEF StartMirror, Phase, TypeOK
  <1>3. ASSUME NEW to \in Side, NEW r \in Ref, StartDelete(w, to, r)
        PROVE  TypeOK'
    <2>1. Task("delete", to, r) \in Job
      BY DEF Task, Job, Tip
    <2>2. QED
      BY <1>1, <1>3, <2>1 DEF StartDelete, Phase, TypeOK
  <1>4. ASSUME NEW to \in Side, NEW r \in Ref, NEW c \in Commit, StartForce(w, to, r, c)
        PROVE  TypeOK'
    <2>1. [op |-> "mirror", to |-> to, ref |-> r, force |-> TRUE, tip |-> c] \in Job
      BY DEF Job, Tip
    <2>2. asked' \in SUBSET Ask
      BY <1>4 DEF StartForce, TypeOK, Ask
    <2>3. QED
      BY <1>1, <1>4, <2>1, <2>2 DEF StartForce, Phase, TypeOK
  <1>5. ASSUME NEW to \in Side, NEW r \in Ref, NEW c \in Commit, StartRestore(w, to, r, c)
        PROVE  TypeOK'
    <2>1. [op |-> "restore", to |-> to, ref |-> r, force |-> FALSE, tip |-> c] \in Job
      BY DEF Job, Tip
    <2>2. QED
      BY <1>1, <1>5, <2>1 DEF StartRestore, Phase, TypeOK
  <1>6. QED
    BY <1>2, <1>3, <1>4, <1>5 DEF Start

\* What Plan decides is well formed: its rows name tips the destination has.
LEMMA PlanType == ASSUME TypeOK, NEW w \in Worker, Plan(w) PROVE TypeOK'
  <1> DEFINE to   == job[w].to
             src  == cacheRefs[From(w)]
             dst  == refs[to]
             want == Wanted(src, to, job[w].ref)
  <1>1. to \in Side /\ job[w].tip \in Tip /\ job[w].force \in BOOLEAN
    BY DEF TypeOK, Job
  <1>2. want \subseteq Ref
    BY DEF Wanted, FullRefs, TypeOK, Job
  <1>3. PICK unsure : 
         LET differ == {r \in want : job[w].force \/ dst[r] # src[r]}
             kept   == {r \in differ : /\ ~job[w].force
                                       /\ Withhold(cacheObjs[From(w)], src[r], dst[r], r \in unsure)}
             holds  == {[kind |-> "held", to |-> to, ref |-> r, tip |-> dst[r]] : r \in kept}
             pushes == {[ref |-> r, lease |-> LeaseFor(job[w].force, job[w].tip, dst[r])]
                          : r \in differ \ kept}
         IN IF pushes = {}
              THEN Return(w, holds)
              ELSE /\ pc' = [pc EXCEPT ![w] = "push"]
                   /\ specs' = [specs EXCEPT ![w] = pushes]
                   /\ pending' = [pending EXCEPT ![w] = holds]
                   /\ UNCHANGED <<lock, job, history, started, userVars>>
    BY DEF Plan
  <1> DEFINE differ == {r \in want : job[w].force \/ dst[r] # src[r]}
             kept   == {r \in differ : /\ ~job[w].force
                                       /\ Withhold(cacheObjs[From(w)], src[r], dst[r], r \in unsure)}
             holds  == {[kind |-> "held", to |-> to, ref |-> r, tip |-> dst[r]] : r \in kept}
             pushes == {[ref |-> r, lease |-> LeaseFor(job[w].force, job[w].tip, dst[r])]
                          : r \in differ \ kept}
  <1>4. holds \in SUBSET Row
    <2> SUFFICES ASSUME NEW r \in kept
                 PROVE  [kind |-> "held", to |-> to, ref |-> r, tip |-> dst[r]] \in Row
      OBVIOUS
    <2>1. r \in Ref /\ dst[r] # None
      BY <1>2 DEF Withhold
    <2>2. dst[r] \in Commit
      BY <1>1, <2>1 DEF TypeOK, Tip
    <2>3. QED
      BY <1>1, <2>1, <2>2 DEF Row
  <1>5. pushes \in SUBSET PushSpec
    <2> SUFFICES ASSUME NEW r \in differ
                 PROVE  [ref |-> r, lease |-> LeaseFor(job[w].force, job[w].tip, dst[r])]
                          \in PushSpec
      OBVIOUS
    <2>1. r \in Ref /\ dst[r] \in Tip
      BY <1>1, <1>2 DEF TypeOK
    <2>2. QED
      BY <1>1, <2>1 DEF PushSpec, LeaseFor
  <1>6. UNCHANGED <<hostVars, cacheVars, discarded>>
    BY DEF Plan
  <1>7. CASE pushes = {}
    <2>1. Return(w, holds)
      BY <1>3, <1>7
    <2>2. QED
      BY <1>4, <1>6, <2>1, ReturnType DEF TypeOK, hostVars, cacheVars
  <1>8. CASE pushes # {}
    <2>1. /\ pc' = [pc EXCEPT ![w] = "push"]
          /\ specs' = [specs EXCEPT ![w] = pushes]
          /\ pending' = [pending EXCEPT ![w] = holds]
          /\ UNCHANGED <<lock, job, history, started, userVars>>
      BY <1>3, <1>8
    <2> HIDE DEF holds, pushes
    <2>2. QED
      BY <1>4, <1>5, <1>6, <2>1 DEF TypeOK, hostVars, cacheVars, userVars, Phase
  <1>9. QED
    BY <1>7, <1>8

\* So is what one ref of a push leaves.
LEMMA PushRefType ==
  ASSUME TypeOK, NEW w \in Worker, NEW s \in specs[w], PushRef(w, s) PROVE TypeOK'
  <1> DEFINE to   == job[w].to
             new  == cacheRefs[From(w)][s.ref]
             old  == refs[to][s.ref]
             lost == IF NonFastForward(old, new)
                       THEN {[kind |-> "forced", to |-> to, ref |-> s.ref, tip |-> old]} ELSE {}
  <1>1. to \in Side /\ s.ref \in Ref /\ From(w) \in Side
    BY OtherSide DEF TypeOK, Job, PushSpec, From
  <1>2. new \in Tip /\ old \in Tip
    BY <1>1 DEF TypeOK
  <1>3. lost \in SUBSET Row
    BY <1>1, <1>2 DEF Row, NonFastForward, Tip
  <1>4. /\ specs' = [specs EXCEPT ![w] = @ \ {s}]
        /\ UNCHANGED <<cacheVars, lock, pc, job, history, started, userVars>>
    BY DEF PushRef
  <1>5. CASE /\ HostWrite(to, s.ref, new)
             /\ pending' = [pending EXCEPT ![w] = @ \cup lost]
             /\ discarded' = discarded \cup lost
    <2>1. /\ refs' \in [Side -> [Ref -> Tip]]
          /\ everHad' \in [Side -> SUBSET Commit]
          /\ deletedAt' \in [Side -> SUBSET Ref]
      BY <1>1, <1>2, <1>5, HostWriteType
    <2> HIDE DEF lost
    <2>2. QED
      BY <1>3, <1>4, <1>5, <2>1 DEF TypeOK, cacheVars, userVars
  <1>6. CASE UNCHANGED <<hostVars, pending, discarded>>
    BY <1>4, <1>6 DEF TypeOK, cacheVars, userVars, hostVars
  <1>7. QED
    BY <1>5, <1>6 DEF PushRef

\* Locating a cache, whether or not it takes over the other's, keeps the types.
LEMMA MirrorDirType ==
  ASSUME TypeOK, NEW s \in Side, NEW made \in BOOLEAN, MirrorDirFor(s, made)
  PROVE  /\ cached' \in [Side -> BOOLEAN]
         /\ cacheRefs' \in [Side -> [Ref -> Tip]]
         /\ cacheObjs' \in [Side -> SUBSET Commit]
  <1>1. CASE /\ cached' = [cached EXCEPT ![s] = @ \/ made]
             /\ UNCHANGED <<cacheRefs, cacheObjs>>
    BY <1>1 DEF TypeOK
  <1>2. CASE ~(/\ cached' = [cached EXCEPT ![s] = @ \/ made]
               /\ UNCHANGED <<cacheRefs, cacheObjs>>)
    <2>1. [r \in Ref |-> None] \in [Ref -> Tip] /\ Other(s) \in Side
      BY OtherSide DEF Tip
    <2>2. /\ cached' = [cached EXCEPT ![s] = TRUE, ![Other(s)] = FALSE]
          /\ cacheRefs' = [cacheRefs EXCEPT ![s] = cacheRefs[Other(s)],
                                            ![Other(s)] = [r \in Ref |-> None]]
          /\ cacheObjs' = [cacheObjs EXCEPT ![s] = cacheObjs[Other(s)], ![Other(s)] = {}]
      BY <1>2 DEF MirrorDirFor
    <2>3. cached' \in [Side -> BOOLEAN]
      BY <2>2 DEF TypeOK
    <2>4. cacheRefs' \in [Side -> [Ref -> Tip]]
      BY <2>1, <2>2 DEF TypeOK
    <2>5. cacheObjs' \in [Side -> SUBSET Commit]
      BY <2>1, <2>2 DEF TypeOK
    <2>6. QED
      BY <2>3, <2>4, <2>5
  <1>3. QED
    BY <1>1, <1>2

\* Every step of a worker keeps the types.  That a delete or a restore names a
\* ref comes from the gates it passed.
LEMMA StepType ==
  ASSUME TypeOK, LockDiscipline, JobAllowed, NEW w \in Worker, Step(w) PROVE TypeOK'
  <1>0. /\ From(w) \in Side /\ job[w].to \in Side /\ job[w].tip \in Tip
        /\ \A s \in Side : Reachable(refs[s]) \subseteq Commit
    BY OtherSide, ReachableFacts DEF TypeOK, Job, From
  <1>1. CASE Acquire(w)
    <2>1. MirrorDirFor(From(w), FALSE) \/ UNCHANGED cacheVars
      BY <1>1 DEF Acquire
    <2>2. /\ cached' \in [Side -> BOOLEAN]
          /\ cacheRefs' \in [Side -> [Ref -> Tip]]
          /\ cacheObjs' \in [Side -> SUBSET Commit]
      BY <1>0, <2>1, MirrorDirType DEF TypeOK, cacheVars
    <2>3. pc' \in [Worker -> Phase]
      BY <1>1 DEF Acquire, TypeOK, Phase
    <2>4. QED
      BY <1>1, <2>2, <2>3 DEF Acquire, TypeOK, hostVars, userVars
  <1>2. CASE Fetch(w)
    BY <1>0, <1>2 DEF Fetch, TypeOK, Phase, hostVars, userVars
  <1>3. CASE FetchFails(w)
    <2> DEFINE s == From(w)
               Mixed(updated) == [r \in Ref |-> IF r \in updated THEN refs[s][r]
                                                ELSE cacheRefs[s][r]]
    <2>1. CASE \E updated \in SUBSET Ref :
                 /\ cacheRefs' = [cacheRefs EXCEPT ![s] = Mixed(updated)]
                 /\ cacheObjs' = [cacheObjs EXCEPT ![s] = @ \cup Reachable(refs[s])]
                 /\ UNCHANGED cached
      <3>1. \A updated \in SUBSET Ref : Mixed(updated) \in [Ref -> Tip]
        BY <1>0 DEF TypeOK
      <3> HIDE DEF Mixed
      <3>2. /\ cached' \in [Side -> BOOLEAN]
            /\ cacheRefs' \in [Side -> [Ref -> Tip]]
            /\ cacheObjs' \in [Side -> SUBSET Commit]
        BY <1>0, <2>1, <3>1 DEF TypeOK
      <3>3. QED
        BY <1>3, <3>2, ReturnType DEF FetchFails, TypeOK, hostVars
    <2>2. CASE /\ cached' = [cached EXCEPT ![s] = FALSE]
               /\ cacheRefs' = [cacheRefs EXCEPT ![s] = [r \in Ref |-> None]]
               /\ cacheObjs' = [cacheObjs EXCEPT ![s] = {}]
      <3>1. [r \in Ref |-> None] \in [Ref -> Tip]
        BY DEF Tip
      <3>2. /\ cached' \in [Side -> BOOLEAN]
            /\ cacheRefs' \in [Side -> [Ref -> Tip]]
            /\ cacheObjs' \in [Side -> SUBSET Commit]
        BY <1>0, <2>2, <3>1 DEF TypeOK
      <3>3. QED
        BY <1>3, <3>2, ReturnType DEF FetchFails, TypeOK, hostVars
    <2>3. QED
      BY <1>3, <2>1, <2>2 DEF FetchFails
  <1>4. CASE Plan(w)
    BY <1>4, PlanType
  <1>5. CASE \E s \in specs[w] : PushRef(w, s)
    BY <1>5, PushRefType
  <1>6. CASE PushDone(w)
    <2>1. pending[w] \in SUBSET Row
      BY DEF TypeOK
    <2>2. QED
      BY <1>6, <2>1, ReturnType DEF PushDone, TypeOK, hostVars, cacheVars
  <1>7. CASE PushFails(w)
    <2>1. {p \in pending[w] : p.kind = "held"} \in SUBSET Row
      BY DEF TypeOK
    <2>2. QED
      BY <1>7, <2>1, ReturnType DEF PushFails, TypeOK, hostVars, cacheVars
  <1>8. CASE CheckTip(w)
    <2>0. job[w].ref \in Ref
      BY <1>8 DEF CheckTip, LockDiscipline, JobAllowed
    <2>1. CASE Return(w, {})
      BY <1>8, <2>1, ReturnType DEF CheckTip, TypeOK, hostVars, cacheVars
    <2>2. CASE ~Return(w, {})
      <3>1. pc[w] = "check" /\ refs[job[w].to][job[w].ref] # None
        BY <1>8, <2>2 DEF CheckTip
      <3>2. {[kind |-> "delete", to |-> job[w].to, ref |-> job[w].ref,
              tip |-> refs[job[w].to][job[w].ref]]} \in SUBSET Row
        BY <1>0, <2>0, <3>1 DEF TypeOK, Row, Tip
      <3>3. QED
        BY <1>8, <2>2, <3>2 DEF CheckTip, TypeOK, hostVars, cacheVars, userVars, Phase
    <2>3. QED
      BY <2>1, <2>2
  <1>9. CASE DeleteRef(w)
    <2>1. job[w].ref \in Ref /\ pending[w] \in SUBSET Row
      BY <1>9 DEF DeleteRef, LockDiscipline, JobAllowed, TypeOK
    <2>2. [kind |-> "delete", to |-> job[w].to, ref |-> job[w].ref,
           tip |-> refs[job[w].to][job[w].ref]] \in Row
      BY <1>0, <1>9, <2>1 DEF DeleteRef, TypeOK, Row, Tip
    <2>3. HostWrite(job[w].to, job[w].ref, None) /\ None \in Tip
      BY <1>9 DEF DeleteRef, Tip
    <2>4. \E rows \in SUBSET Row : Return(w, rows)
      BY <1>9, <2>1 DEF DeleteRef
    <2>5. QED
      BY <1>0, <1>9, <2>1, <2>2, <2>3, <2>4, ReturnType, HostWriteType
      DEF DeleteRef, TypeOK, cacheVars
  <1>10. CASE RestoreLook(w)
    <2>1. CASE refs[job[w].to][job[w].ref] # None
      BY <1>10, <2>1, ReturnType DEF RestoreLook, TypeOK, hostVars, cacheVars
    <2>2. CASE refs[job[w].to][job[w].ref] = None
      <3>1. MirrorDirFor(From(w), TRUE)
        BY <1>10, <2>2 DEF RestoreLook
      <3>2. /\ cached' \in [Side -> BOOLEAN]
            /\ cacheRefs' \in [Side -> [Ref -> Tip]]
            /\ cacheObjs' \in [Side -> SUBSET Commit]
        BY <1>0, <3>1, MirrorDirType
      <3>3. QED
        BY <1>10, <2>2, <3>2 DEF RestoreLook, TypeOK, hostVars, userVars, Phase
    <2>3. QED
      BY <2>1, <2>2
  <1>11. CASE RestoreObject(w)
    <2>1. job[w].tip \in Commit
      BY <1>0, <1>11 DEF RestoreObject, TypeOK
    <2>2. cacheObjs' \in [Side -> SUBSET Commit] /\ cached' \in [Side -> BOOLEAN]
      BY <1>0, <1>11, <2>1, CommitGraph DEF RestoreObject, TypeOK
    <2>3. QED
      BY <1>11, <2>2 DEF RestoreObject, TypeOK, Phase, hostVars, userVars
  <1>12. CASE RestoreCreate(w)
    <2>1. job[w].ref \in Ref
      BY <1>12 DEF RestoreCreate, LockDiscipline, JobAllowed
    <2>2. /\ refs' \in [Side -> [Ref -> Tip]]
          /\ everHad' \in [Side -> SUBSET Commit]
          /\ deletedAt' \in [Side -> SUBSET Ref]
      BY <1>0, <1>12, <2>1, HostWriteType DEF RestoreCreate, TypeOK, hostVars
    <2>3. QED
      BY <1>12, <2>2, ReturnType DEF RestoreCreate, TypeOK, cacheVars
  <1>13. CASE Fails(w)
    BY <1>13, ReturnType DEF Fails, TypeOK, hostVars, cacheVars
  <1>14. QED
    BY <1>1, <1>2, <1>3, <1>4, <1>5, <1>6, <1>7, <1>8, <1>9, <1>10, <1>11, <1>12, <1>13 DEF Step

\* So does every step, killing the pod included.
LEMMA NextType == TypeOK /\ LockDiscipline /\ JobAllowed /\ [Next]_vars => TypeOK'
  <1> SUFFICES ASSUME TypeOK, LockDiscipline, JobAllowed, [Next]_vars PROVE TypeOK'
    OBVIOUS
  <1>1. CASE Crash
    BY <1>1, NoJobType DEF Crash, TypeOK, Phase, hostVars, cacheVars, userVars
  <1>2. CASE UNCHANGED vars
    BY <1>2 DEF vars, TypeOK, hostVars, cacheVars, jobVars, userVars
  <1>3. QED
    BY <1>1, <1>2, UserType, StartType, StepType DEF Next

-----------------------------------------------------------------------------
(* What is on record stays on record.                                      *)

Grows ==
  /\ asked \subseteq asked'
  /\ history \subseteq history'
  /\ \A s \in Side : /\ deletedAt[s] \subseteq deletedAt'[s]
                     /\ everHad[s] \subseteq everHad'[s]

\* A write to a host takes nothing from what is remembered of the hosts.
LEMMA HostWriteGrows ==
  ASSUME TypeOK, NEW s \in Side, NEW r, NEW t, HostWrite(s, r, t)
  PROVE  \A u \in Side : /\ deletedAt[u] \subseteq deletedAt'[u]
                         /\ everHad[u] \subseteq everHad'[u]
  BY DEF TypeOK, HostWrite

\* No step forgets a commit, a deletion, a row or an ask.
LEMMA NextGrows == TypeOK /\ [Next]_vars => Grows
  <1> SUFFICES ASSUME TypeOK, [Next]_vars PROVE Grows
    OBVIOUS
  <1>1. CASE User
    <2>1. PICK s \in Side, r \in Ref : UserDelete(s, r) \/ \E c \in Commit : UserPush(s, r, c)
      BY <1>1 DEF User
    <2>2. UNCHANGED <<asked, history>>
      BY <2>1 DEF UserPush, UserDelete
    <2>3. \A u \in Side : /\ deletedAt[u] \subseteq deletedAt'[u]
                         /\ everHad[u] \subseteq everHad'[u]
      BY <2>1 DEF UserPush, UserDelete, TypeOK
    <2>4. QED
      BY <2>2, <2>3 DEF Grows
  <1>2. CASE Crash \/ UNCHANGED vars
    BY <1>2 DEF Crash, vars, hostVars, userVars, Grows
  <1>3. ASSUME NEW w \in Worker, Start(w)
        PROVE  Grows
    <2>1. UNCHANGED <<hostVars, history>>
      BY <1>3 DEF Start, StartMirror, StartDelete, StartForce, StartRestore, Begin
    <2>2. asked \subseteq asked'
      BY <1>3 DEF Start, StartMirror, StartDelete, StartForce, StartRestore
    <2>3. QED
      BY <2>1, <2>2 DEF hostVars, Grows
  <1>4. ASSUME NEW w \in Worker, Step(w)
        PROVE  Grows
    <2>1. job[w].to \in Side
      BY DEF TypeOK, Job
    <2>2. asked \subseteq asked' /\ history \subseteq history'
      BY <1>4 DEF Step, Acquire, Fetch, FetchFails, Plan, PushRef, PushDone, PushFails, CheckTip,
                  DeleteRef, RestoreLook, RestoreObject, RestoreCreate, Fails, Return, userVars
    <2>3. UNCHANGED <<deletedAt, everHad>> \/ \E r, t : HostWrite(job[w].to, r, t)
      BY <1>4 DEF Step, Acquire, Fetch, FetchFails, Plan, PushRef, PushDone, PushFails, CheckTip,
                  DeleteRef, RestoreLook, RestoreObject, RestoreCreate, Fails, hostVars
    <2>4. QED
      BY <2>1, <2>2, <2>3, HostWriteGrows DEF Grows
  <1>5. QED
    BY <1>1, <1>2, <1>3, <1>4 DEF Next

-----------------------------------------------------------------------------
(* The mutex, and the gates an operation passed.                           *)

\* Worker w went from one phase to another of the same operation, or returned.
\* Whatever else it did, the discipline of the others is untouched.
LEMMA LockKept ==
  ASSUME TypeOK, LockDiscipline, NEW w \in Worker, NEW at \in Phase,
         pc' = [pc EXCEPT ![w] = at], job' = job, lock' = lock,
         \A v \in Worker : v # w => specs'[v] = specs[v],
         at # "push" => specs'[w] = {},
         pc[w] \notin {"idle", "wait"}, at \notin {"idle", "wait"},
         at \in {"fetch", "plan", "push"} => job[w].op = "mirror",
         at \in {"check", "delete"} => job[w].op = "delete",
         at \in {"look", "object", "create"} => job[w].op = "restore"
  PROVE  LockDiscipline'
  BY DEF TypeOK, LockDiscipline

\* A worker that returns lets the mutex go, and nobody else had it.
LEMMA LockReturn ==
  ASSUME TypeOK, LockDiscipline, NEW w \in Worker, NEW rows, Return(w, rows)
  PROVE  LockDiscipline'
  BY DEF TypeOK, LockDiscipline, Return

\* Every step of a worker keeps the mutex's discipline.
LEMMA LockStep ==
  ASSUME TypeOK, LockDiscipline, NEW w \in Worker, Step(w) PROVE LockDiscipline'
  <1>1. CASE Acquire(w)
    BY <1>1, Setup DEF Acquire, LockIsFree, LockDiscipline, TypeOK
  <1>2. CASE Fetch(w)
    BY <1>2, LockKept DEF Fetch, LockDiscipline, Phase
  <1>3. CASE \E rows : Return(w, rows)
    BY <1>3, LockReturn
  <1>4. CASE Plan(w) /\ ~ \E rows : Return(w, rows)
    <2>1. /\ pc[w] = "plan"
          /\ pc' = [pc EXCEPT ![w] = "push"]
          /\ \E p : specs' = [specs EXCEPT ![w] = p]
          /\ UNCHANGED <<lock, job>>
      BY <1>4 DEF Plan
    <2>2. QED
      BY <2>1, LockKept DEF LockDiscipline, Phase, TypeOK
  <1>5. CASE \E s \in specs[w] : PushRef(w, s)
    BY <1>5 DEF PushRef, LockDiscipline, TypeOK
  <1>6. CASE CheckTip(w) /\ ~ \E rows : Return(w, rows)
    BY <1>6, LockKept DEF CheckTip, LockDiscipline, Phase
  <1>7. CASE RestoreLook(w) /\ ~ \E rows : Return(w, rows)
    BY <1>7, LockKept DEF RestoreLook, LockDiscipline, Phase
  <1>8. CASE RestoreObject(w)
    BY <1>8, LockKept DEF RestoreObject, LockDiscipline, Phase
  <1>9. QED
    BY <1>1, <1>2, <1>3, <1>4, <1>5, <1>6, <1>7, <1>8
    DEF Step, FetchFails, PushDone, PushFails, DeleteRef, RestoreCreate, Fails

\* So does every other step.
LEMMA NextLock == TypeOK /\ LockDiscipline /\ [Next]_vars => LockDiscipline'
  <1> SUFFICES ASSUME TypeOK, LockDiscipline, [Next]_vars PROVE LockDiscipline'
    OBVIOUS
  <1>1. CASE User
    BY <1>1 DEF User, UserPush, UserDelete, LockDiscipline, jobVars
  <1>2. CASE Crash
    BY <1>2 DEF Crash, LockDiscipline
  <1>3. CASE UNCHANGED vars
    BY <1>3 DEF vars, jobVars, LockDiscipline
  <1>4. ASSUME NEW w \in Worker, Start(w)
        PROVE  LockDiscipline'
    <2>1. ASSUME NEW to, NEW r, StartMirror(w, to, r) \/ StartDelete(w, to, r)
          PROVE  LockDiscipline'
      <3>1. Task("mirror", to, r).op = "mirror" /\ Task("delete", to, r).op = "delete"
        BY DEF Task
      <3>2. PICK j : Begin(w, "wait", j) /\ j.op \in {"mirror", "delete"} /\ lock' = lock
        BY <2>1, <3>1 DEF StartMirror, StartDelete
      <3>3. QED
        BY <3>2 DEF Begin, LockDiscipline, TypeOK
    <2>2. ASSUME NEW to, NEW r, NEW c, StartForce(w, to, r, c)
          PROVE  LockDiscipline'
      BY <2>2 DEF StartForce, Begin, LockDiscipline, TypeOK
    <2>3. ASSUME NEW to, NEW r, NEW c, StartRestore(w, to, r, c)
          PROVE  LockDiscipline'
      BY <2>3, Setup DEF StartRestore, Begin, LockDiscipline, TypeOK
    <2>4. QED
      BY <1>4, <2>1, <2>2, <2>3 DEF Start
  <1>5. QED
    BY <1>1, <1>2, <1>3, <1>4, LockStep DEF Next

\* The gates, asked of operation j in the next state.
AllowedNext(j) ==
  /\ DirectionAllows(j.to)
  /\ j.ref \in Ref => OverrideAllows(j.to, j.ref)
  /\ j.op \in {"delete", "restore"} \/ j.force => j.ref \in Ref
  /\ j.force => [to |-> j.to, ref |-> j.ref, tip |-> j.tip] \in asked'
  /\ j.op = "delete" => j.ref \in deletedAt'[Other(j.to)]
  /\ j.op = "restore" =>
       [kind |-> "delete", to |-> j.to, ref |-> j.ref, tip |-> j.tip] \in history'

\* A cause on record stays on record, so an operation that keeps its job stays
\* allowed.
LEMMA JobKept ==
  ASSUME TypeOK, JobAllowed, Grows, NEW v \in Worker, pc[v] # "idle"
  PROVE  AllowedNext(job[v])
  <1>1. job[v].to \in Side
    BY DEF TypeOK, Job
  <1>2. Other(job[v].to) \in Side
    BY <1>1, OtherSide
  <1>3. QED
    BY <1>2 DEF JobAllowed, Grows, AllowedNext

\* An operation that starts has passed its gates.
LEMMA JobStart ==
  ASSUME TypeOK, NEW w \in Worker, Start(w)
  PROVE  AllowedNext(job'[w])
  <1>0. ASSUME NEW at, NEW j, Begin(w, at, j)
        PROVE  job'[w] = j /\ deletedAt' = deletedAt /\ history' = history
    BY <1>0 DEF Begin, TypeOK, hostVars
  <1>1. ASSUME NEW to \in Side, NEW r \in Ref \cup {NoRef}, StartMirror(w, to, r)
        PROVE  AllowedNext(job'[w])
    <2>1. job'[w] = Task("mirror", to, r)
      BY <1>0, <1>1 DEF StartMirror
    <2>2. AllowedNext(Task("mirror", to, r))
      BY <1>1, Setup DEF StartMirror, AllowedNext, Task
    <2>3. QED
      BY <2>1, <2>2
  <1>2. ASSUME NEW to \in Side, NEW r \in Ref, StartDelete(w, to, r)
        PROVE  AllowedNext(job'[w])
    <2>1. job'[w] = Task("delete", to, r) /\ deletedAt' = deletedAt
      BY <1>0, <1>2 DEF StartDelete
    <2>2. AllowedNext(Task("delete", to, r))
      BY <1>2, <2>1 DEF StartDelete, AllowedNext, Task
    <2>3. QED
      BY <2>1, <2>2
  <1>3. ASSUME NEW to \in Side, NEW r \in Ref, NEW c \in Commit, StartForce(w, to, r, c)
        PROVE  AllowedNext(job'[w])
    <2> DEFINE j == [op |-> "mirror", to |-> to, ref |-> r, force |-> TRUE, tip |-> c]
    <2>1. job'[w] = j
      BY <1>0, <1>3 DEF StartForce
    <2>2. AllowedNext(j)
      BY <1>3 DEF StartForce, AllowedNext
    <2>3. QED
      BY <2>1, <2>2
  <1>4. ASSUME NEW to \in Side, NEW r \in Ref, NEW c \in Commit, StartRestore(w, to, r, c)
        PROVE  AllowedNext(job'[w])
    <2> DEFINE j == [op |-> "restore", to |-> to, ref |-> r, force |-> FALSE, tip |-> c]
    <2>1. job'[w] = j /\ history' = history
      BY <1>0, <1>4 DEF StartRestore
    <2>2. AllowedNext(j)
      BY <1>4, <2>1 DEF StartRestore, AllowedNext
    <2>3. QED
      BY <2>1, <2>2
  <1>5. QED
    BY <1>1, <1>2, <1>3, <1>4 DEF Start

\* A step of w leaves the other workers' operations alone, and keeps w's own
\* until it returns.
LEMMA StepLocal ==
  ASSUME TypeOK, NEW w \in Worker, Start(w) \/ Step(w)
  PROVE  /\ \A v \in Worker \ {w} : /\ pc'[v] = pc[v] /\ job'[v] = job[v]
                                     /\ specs'[v] = specs[v]
         /\ Step(w) => pc[w] # "idle"
                        /\ (job'[w] = job[w] \/ (pc'[w] = "idle" /\ specs'[w] = {}))
         /\ Start(w) => specs'[w] = specs[w] /\ pc[w] = "idle"
  <1>1. ASSUME NEW rows, Return(w, rows)
        PROVE  /\ \A v \in Worker \ {w} : /\ pc'[v] = pc[v] /\ job'[v] = job[v]
                                           /\ specs'[v] = specs[v]
               /\ pc'[w] = "idle" /\ specs'[w] = {}
    BY <1>1 DEF Return, TypeOK
  <1>2. ASSUME NEW at, NEW j, Begin(w, at, j)
        PROVE  /\ \A v \in Worker \ {w} : /\ pc'[v] = pc[v] /\ job'[v] = job[v]
               /\ specs' = specs /\ pc[w] = "idle"
    BY <1>2 DEF Begin, TypeOK
  <1>3. CASE Start(w)
    <2>1. (\E at, j : Begin(w, at, j)) /\ ~Step(w)
      <3>1. \E at, j : Begin(w, at, j)
        BY <1>3 DEF Start, StartMirror, StartDelete, StartForce, StartRestore
      <3>2. pc[w] = "idle"
        BY <1>2, <3>1
      <3>3. QED
        BY <3>1, <3>2 DEF Step, Acquire, Fetch, FetchFails, Plan, PushRef, PushDone, PushFails,
             CheckTip, DeleteRef, RestoreLook, RestoreObject, RestoreCreate, Fails
    <2>2. QED
      BY <1>2, <2>1
  <1>4. CASE Step(w)
    <2>1. pc[w] # "idle"
      BY <1>4 DEF Step, Acquire, Fetch, FetchFails, Plan, PushRef, PushDone, PushFails,
             CheckTip, DeleteRef, RestoreLook, RestoreObject, RestoreCreate, Fails
    <2>2. \/ \E rows : Return(w, rows)
          \/ /\ \E at : pc' = [pc EXCEPT ![w] = at] \/ pc' = pc
             /\ job' = job
             /\ \E p : specs' = [specs EXCEPT ![w] = p] \/ specs' = specs
      BY <1>4 DEF Step, Acquire, Fetch, FetchFails, Plan, PushRef, PushDone, PushFails,
             CheckTip, DeleteRef, RestoreLook, RestoreObject, RestoreCreate, Fails
    <2>3. ~Start(w)
      BY <2>1 DEF Start, StartMirror, StartDelete, StartForce, StartRestore, Begin
    <2>4. QED
      BY <1>1, <2>1, <2>2, <2>3 DEF TypeOK
  <1>5. QED
    BY <1>3, <1>4

\* Every operation under way passed its gates, however it goes on.
LEMMA NextJob == TypeOK /\ JobAllowed /\ [Next]_vars => JobAllowed'
  <1> SUFFICES ASSUME TypeOK, JobAllowed, [Next]_vars
               PROVE  \A v \in Worker : pc'[v] # "idle" => AllowedNext(job'[v])
    BY DEF JobAllowed, AllowedNext
  <1>0. \A v \in Worker : pc[v] # "idle" => AllowedNext(job[v])
    BY NextGrows, JobKept
  <1>1. CASE User \/ UNCHANGED vars
    <2>1. UNCHANGED <<pc, job>>
      BY <1>1 DEF User, UserPush, UserDelete, jobVars, vars
    <2>2. QED
      BY <1>0, <2>1
  <1>2. CASE Crash
    BY <1>2 DEF Crash
  <1>3. ASSUME NEW w \in Worker, Start(w) \/ Step(w)
        PROVE  \A v \in Worker : pc'[v] # "idle" => AllowedNext(job'[v])
    <2>1. \A v \in Worker \ {w} : pc'[v] = pc[v] /\ job'[v] = job[v]
      BY <1>3, StepLocal
    <2>2. pc'[w] # "idle" => AllowedNext(job'[w])
      BY <1>0, <1>3, StepLocal, JobStart
    <2>3. QED
      BY <1>0, <2>1, <2>2
  <1>4. QED
    BY <1>1, <1>2, <1>3 DEF Next

-----------------------------------------------------------------------------
(* The object stores.                                                      *)

\* A write that puts on a host a commit whose history is new to it at most, and
\* leaves the caches alone, keeps the stores sound.
LEMMA HostWriteStores ==
  ASSUME TypeOK, StoresSound, NEW s \in Side, NEW r \in Ref, NEW t \in Tip,
         HostWrite(s, r, t), UNCHANGED cacheVars
  PROVE  StoresSound'
  <1>1. cacheObjs' = cacheObjs /\ cacheRefs' = cacheRefs
    BY DEF cacheVars
  <1>2. CASE t = None
    <2>1. everHad' = everHad /\ refs' = [refs EXCEPT ![s][r] = None]
      BY <1>2 DEF HostWrite
    <2>2. QED
      BY <1>1, <2>1 DEF StoresSound, TypeOK
  <1>3. CASE t # None
    <2>1. /\ everHad' = [everHad EXCEPT ![s] = @ \cup Ancestors[t]]
          /\ refs' = [refs EXCEPT ![s][r] = t]
          /\ t \in Commit
      BY <1>3 DEF HostWrite, Tip
    <2>2. /\ Closed(everHad'[s])
          /\ t \in everHad'[s]
          /\ everHad[s] \subseteq everHad'[s]
      BY <2>1, ClosedGrows DEF StoresSound, TypeOK
    <2>3. \A u \in Side \ {s} : everHad'[u] = everHad[u]
      BY <2>1 DEF TypeOK
    <2>4. QED
      BY <1>1, <2>1, <2>2, <2>3 DEF StoresSound, TypeOK
  <1>4. QED
    BY <1>2, <1>3

\* So does a change of the cache of one host, if what the cache ends up with is
\* commits that host had, its refs included.
LEMMA CacheStores ==
  ASSUME TypeOK, StoresSound, NEW s \in Side,
         \A u \in Side \ {s} : cacheRefs'[u] = cacheRefs[u] /\ cacheObjs'[u] = cacheObjs[u],
         OwnCache(s) => cacheObjs'[s] \subseteq everHad[s],
         \A r \in Ref : cacheRefs'[s][r] # None => cacheRefs'[s][r] \in cacheObjs'[s],
         UNCHANGED hostVars
  PROVE  StoresSound'
  BY DEF StoresSound, hostVars

\* So does taking over the other direction's cache: the one who does so is the one
\* of which nothing more is said.
LEMMA MirrorDirStores ==
  ASSUME TypeOK, StoresSound, NEW s \in Side, NEW made, MirrorDirFor(s, made),
         UNCHANGED hostVars
  PROVE  StoresSound'
  <1>1. CASE UNCHANGED <<cacheRefs, cacheObjs>>
    BY <1>1 DEF StoresSound, hostVars
  <1>2. CASE ~UNCHANGED <<cacheRefs, cacheObjs>>
    <2>1. /\ Legacy = Other(s)
          /\ cacheRefs' = [cacheRefs EXCEPT ![s] = cacheRefs[Other(s)],
                                            ![Other(s)] = [r \in Ref |-> None]]
          /\ cacheObjs' = [cacheObjs EXCEPT ![s] = cacheObjs[Other(s)], ![Other(s)] = {}]
      BY <1>2 DEF MirrorDirFor
    <2>2. /\ Other(s) \in Side /\ Other(s) # s
          /\ \A u \in Side : u = s \/ u = Other(s)
      BY DEF Side, Other
    <2>3. /\ cacheRefs'[s] = cacheRefs[Other(s)] /\ cacheObjs'[s] = cacheObjs[Other(s)]
          /\ cacheRefs'[Other(s)] = [r \in Ref |-> None] /\ cacheObjs'[Other(s)] = {}
      BY <2>1, <2>2 DEF TypeOK
    <2>4. ~OwnCache(s)
      BY <2>1 DEF OwnCache
    <2> HIDE DEF OwnCache
    <2>5. \A u \in Side : /\ Closed(everHad[u])
                          /\ \A r \in Ref : refs[u][r] # None => refs[u][r] \in everHad[u]
      BY DEF StoresSound
    <2>6. \A r \in Ref : cacheRefs'[s][r] # None => cacheRefs'[s][r] \in cacheObjs'[s]
      BY <2>2, <2>3 DEF StoresSound
    <2>7. QED
      BY <2>2, <2>3, <2>4, <2>5, <2>6 DEF StoresSound, hostVars, OwnCache
  <1>3. QED
    BY <1>1, <1>2

\* The initial stores are sound.
LEMMA InitStores == Init => StoresSound
  <1> SUFFICES ASSUME Init PROVE StoresSound
    OBVIOUS
  <1>1. \A s \in Side : refs[s] \in [Ref -> Tip]
    BY DEF Init
  <1>2. QED
    BY <1>1, ReachableFacts DEF Init, StoresSound

\* A worker moves only commits it has, or that the host it asks has.
LEMMA StepStores ==
  ASSUME TypeOK, LockDiscipline, JobAllowed, StoresSound, NEW w \in Worker, Step(w)
  PROVE  StoresSound'
  <1> DEFINE s == From(w)
  <1>0. /\ s \in Side /\ job[w].to \in Side /\ job[w].tip \in Tip
        /\ refs[s] \in [Ref -> Tip] /\ everHad[s] \in SUBSET Commit
    BY OtherSide DEF TypeOK, Job, From
  <1>1. /\ Reachable(refs[s]) \subseteq everHad[s]
        /\ \A r \in Ref : refs[s][r] # None => refs[s][r] \in Reachable(refs[s])
    BY <1>0, ReachableFacts, ReachableWithin DEF StoresSound
  <1>2. CASE UNCHANGED <<hostVars, cacheVars>>
    BY <1>2 DEF hostVars, cacheVars, StoresSound
  <1>3. CASE Fetch(w)
    <2>1. PICK objs : /\ cacheObjs' = [cacheObjs EXCEPT ![s] = objs]
                      /\ \/ objs = cacheObjs[s] \cup Reachable(refs[s])
                         \/ objs = Reachable(refs[s])
      BY <1>3 DEF Fetch
    <2>2. /\ OwnCache(s) => objs \subseteq everHad[s]
          /\ \A r \in Ref : refs[s][r] # None => refs[s][r] \in objs
      BY <1>0, <1>1, <2>1 DEF StoresSound
    <2>3. cacheRefs' = [cacheRefs EXCEPT ![s] = refs[s]] /\ UNCHANGED hostVars
      BY <1>3 DEF Fetch
    <2> HIDE DEF s
    <2>4. QED
      BY <1>0, <2>1, <2>2, <2>3, CacheStores DEF TypeOK
  <1>4. CASE FetchFails(w)
    <2> DEFINE Mixed(updated) == [r \in Ref |-> IF r \in updated THEN refs[s][r]
                                                ELSE cacheRefs[s][r]]
    <2>0. UNCHANGED hostVars
      BY <1>4 DEF FetchFails
    <2>1. ASSUME NEW updated \in SUBSET Ref,
                 cacheRefs' = [cacheRefs EXCEPT ![s] = Mixed(updated)],
                 cacheObjs' = [cacheObjs EXCEPT ![s] = @ \cup Reachable(refs[s])]
          PROVE  StoresSound'
      <3>1. cacheObjs' = [cacheObjs EXCEPT ![s] = cacheObjs[s] \cup Reachable(refs[s])]
        BY <2>1
      <3>2. OwnCache(s) => cacheObjs[s] \cup Reachable(refs[s]) \subseteq everHad[s]
        BY <1>0, <1>1 DEF StoresSound
      <3>3. \A r \in Ref : Mixed(updated)[r] # None =>
              Mixed(updated)[r] \in cacheObjs[s] \cup Reachable(refs[s])
        BY <1>0, <1>1 DEF StoresSound
      <3> HIDE DEF Mixed, s
      <3>4. QED
        BY <1>0, <2>0, <2>1, <3>1, <3>2, <3>3, CacheStores DEF TypeOK
    <2>2. ASSUME cacheRefs' = [cacheRefs EXCEPT ![s] = [r \in Ref |-> None]],
                 cacheObjs' = [cacheObjs EXCEPT ![s] = {}]
          PROVE  StoresSound'
      <3>1. /\ cacheRefs'[s] = [r \in Ref |-> None] /\ cacheObjs'[s] = {}
            /\ \A u \in Side \ {s} : cacheRefs'[u] = cacheRefs[u] /\ cacheObjs'[u] = cacheObjs[u]
        BY <1>0, <2>2 DEF TypeOK
      <3> HIDE DEF s
      <3>2. QED
        BY <1>0, <2>0, <3>1, CacheStores
    <2>3. QED
      BY <1>4, <2>1, <2>2 DEF FetchFails
  <1>5. CASE RestoreObject(w)
    <2>1. /\ OwnCache(s) => job[w].tip \in everHad[s]
          /\ UNCHANGED <<hostVars, cacheRefs>>
          /\ cacheObjs' = [cacheObjs EXCEPT ![s] = cacheObjs[s] \cup Ancestors[job[w].tip]]
      BY <1>0, <1>5 DEF RestoreObject, StoresSound
    <2>2. /\ OwnCache(s) => cacheObjs[s] \cup Ancestors[job[w].tip] \subseteq everHad[s]
          /\ \A r \in Ref : cacheRefs[s][r] # None =>
               cacheRefs[s][r] \in cacheObjs[s] \cup Ancestors[job[w].tip]
      BY <1>0, <2>1 DEF StoresSound, Closed
    <2>3. cacheRefs' = [cacheRefs EXCEPT ![s] = cacheRefs[s]]
      BY <2>1 DEF TypeOK
    <2> HIDE DEF s
    <2>4. QED
      BY <1>0, <2>1, <2>2, <2>3, CacheStores DEF TypeOK
  <1>6. ASSUME NEW p \in specs[w], PushRef(w, p)
        PROVE  StoresSound'
    <2>1. p.ref \in Ref
      BY DEF TypeOK, PushSpec
    <2>2. cacheRefs[s][p.ref] \in Tip
      BY <1>0, <2>1 DEF TypeOK
    <2>3. UNCHANGED cacheVars
      BY <1>6 DEF PushRef
    <2>4. UNCHANGED hostVars \/ HostWrite(job[w].to, p.ref, cacheRefs[s][p.ref])
      BY <1>6 DEF PushRef
    <2> HIDE DEF s
    <2>5. QED
      BY <1>0, <1>2, <2>1, <2>2, <2>3, <2>4, HostWriteStores
  <1>7. CASE DeleteRef(w)
    <2>1. job[w].ref \in Ref /\ None \in Tip
      BY <1>7 DEF DeleteRef, LockDiscipline, JobAllowed, Tip
    <2>2. HostWrite(job[w].to, job[w].ref, None) /\ UNCHANGED cacheVars
      BY <1>7 DEF DeleteRef
    <2>3. QED
      BY <1>0, <2>1, <2>2, HostWriteStores
  <1>8. CASE RestoreCreate(w)
    <2>1. job[w].ref \in Ref
      BY <1>8 DEF RestoreCreate, LockDiscipline, JobAllowed
    <2>2. /\ UNCHANGED hostVars \/ HostWrite(job[w].to, job[w].ref, job[w].tip)
          /\ UNCHANGED cacheVars
      BY <1>8 DEF RestoreCreate
    <2>3. QED
      BY <1>0, <1>2, <2>1, <2>2, HostWriteStores
  <1>9. CASE Acquire(w) \/ RestoreLook(w)
    <2>1. UNCHANGED hostVars
      BY <1>9 DEF Acquire, RestoreLook
    <2>2. UNCHANGED cacheVars \/ \E made \in BOOLEAN : MirrorDirFor(s, made)
      BY <1>9 DEF Acquire, RestoreLook
    <2> HIDE DEF s
    <2>3. QED
      BY <1>0, <1>2, <2>1, <2>2, MirrorDirStores
  <1>10. QED
    BY <1>2, <1>3, <1>4, <1>5, <1>6, <1>7, <1>8, <1>9
    DEF Step, Plan, PushDone, PushFails, CheckTip, Fails

\* So do people and everything else.
LEMMA NextStores ==
  TypeOK /\ LockDiscipline /\ JobAllowed /\ StoresSound /\ [Next]_vars => StoresSound'
  <1> SUFFICES ASSUME TypeOK, LockDiscipline, JobAllowed, StoresSound, [Next]_vars
               PROVE  StoresSound'
    OBVIOUS
  <1>1. CASE UNCHANGED <<hostVars, cacheVars>>
    BY <1>1 DEF hostVars, cacheVars, StoresSound
  <1>2. CASE User
    <2>1. PICK u \in Side, r \in Ref : UserDelete(u, r) \/ \E c \in Commit : UserPush(u, r, c)
      BY <1>2 DEF User
    <2>2. CASE UserDelete(u, r)
      <3>1. HostWrite(u, r, None) /\ UNCHANGED cacheVars /\ None \in Tip
        BY <2>2 DEF UserDelete, HostWrite, Tip
      <3>2. QED
        BY <3>1, HostWriteStores
    <2>3. ASSUME NEW c \in Commit, UserPush(u, r, c)
          PROVE  StoresSound'
      <3>1. HostWrite(u, r, c) /\ UNCHANGED cacheVars /\ c \in Tip
        BY <2>3, CommitGraph DEF UserPush, HostWrite, Tip
      <3>2. QED
        BY <3>1, HostWriteStores
    <2>4. QED
      BY <2>1, <2>2, <2>3
  <1>3. CASE Crash \/ UNCHANGED vars
    BY <1>1, <1>3 DEF Crash, vars, hostVars, cacheVars
  <1>4. ASSUME NEW w \in Worker, Start(w)
        PROVE  StoresSound'
    BY <1>1, <1>4 DEF Start, StartMirror, StartDelete, StartForce, StartRestore, Begin
  <1>5. QED
    BY <1>2, <1>3, <1>4, StepStores DEF Next

-----------------------------------------------------------------------------
(* The plan.                                                               *)

\* Every push Plan leaves to do is of a wanted ref that this side has, under the
\* lease of the person who forced it or of the tip just judged.
LEMMA PlanSpecs ==
  ASSUME TypeOK, NEW w \in Worker, Plan(w), NEW s \in specs'[w], specs[w] = {}
  PROVE  LET to  == job[w].to
             src == cacheRefs[From(w)]
             dst == refs[to]
         IN /\ s.ref \in Wanted(src, to, job[w].ref)
            /\ src[s.ref] # None
            /\ job[w].force => s.lease = job[w].tip
            /\ ~job[w].force =>
                 /\ s.lease = dst[s.ref]
                 /\ \E unsure \in BOOLEAN :
                      /\ unsure => AncestryFaults
                      /\ ~Withhold(cacheObjs[From(w)], src[s.ref], dst[s.ref], unsure)
  <1> DEFINE to   == job[w].to
             src  == cacheRefs[From(w)]
             dst  == refs[to]
             want == Wanted(src, to, job[w].ref)
             differ == {r \in want : job[w].force \/ dst[r] # src[r]}
             kept(unsure) ==
               {r \in differ : /\ ~job[w].force
                               /\ Withhold(cacheObjs[From(w)], src[r], dst[r], r \in unsure)}
             pushes(unsure) ==
               {[ref |-> r, lease |-> LeaseFor(job[w].force, job[w].tip, dst[r])]
                  : r \in differ \ kept(unsure)}
  <1>1. PICK unsure \in (IF AncestryFaults THEN SUBSET Ref ELSE {{}}) :
          \/ \E rows : Return(w, rows)
          \/ specs' = [specs EXCEPT ![w] = pushes(unsure)]
    BY DEF Plan
  <1>2. ~ \E rows : Return(w, rows)
    BY DEF Return, TypeOK
  <1>3. PICK r \in differ \ kept(unsure) :
          s = [ref |-> r, lease |-> LeaseFor(job[w].force, job[w].tip, dst[r])]
    BY <1>1, <1>2 DEF TypeOK
  <1>4. src[r] # None
    BY <1>3 DEF Wanted, FullRefs
  <1>5. (r \in unsure) \in BOOLEAN /\ (r \in unsure => AncestryFaults)
    BY <1>1
  <1>6. QED
    BY <1>3, <1>4, <1>5 DEF LeaseFor

\* A worker with refs left to push is the one holding the mutex.
LEMMA PusherHoldsLock ==
  ASSUME LockDiscipline, NEW w \in Worker, specs[w] # {}
  PROVE  pc[w] = "push" /\ lock = w
  BY DEF LockDiscipline

\* A step of w leaves w's own pushes as they are, plans them, sends one, or is
\* done with them; only a planning step can add any.
LEMMA SpecsStep ==
  ASSUME TypeOK, LockDiscipline, NEW w \in Worker, Step(w)
  PROVE  \/ specs'[w] = {}
         \/ Plan(w) /\ specs[w] = {} /\ job'[w] = job[w] /\ UNCHANGED cacheVars
         \/ specs'[w] \subseteq specs[w] /\ job'[w] = job[w] /\ UNCHANGED cacheVars
  <1>1. CASE \E rows : Return(w, rows)
    BY <1>1 DEF Return, TypeOK
  <1>2. CASE Plan(w) /\ ~ \E rows : Return(w, rows)
    BY <1>2 DEF Plan, LockDiscipline
  <1>3. CASE \E s \in specs[w] : PushRef(w, s)
    BY <1>3 DEF PushRef, TypeOK
  <1>4. CASE pc[w] # "push" /\ specs' = specs
    BY <1>4 DEF LockDiscipline
  <1>5. QED
    BY <1>1, <1>2, <1>3, <1>4
    DEF Step, Acquire, Fetch, FetchFails, PushDone, PushFails, CheckTip, DeleteRef,
        RestoreLook, RestoreObject, RestoreCreate, Fails

\* While another worker holds the mutex, no step of w touches a cache.
LEMMA CacheLocked ==
  ASSUME LockDiscipline, NEW w \in Worker, NEW v \in Worker, v # w,
         pc[v] \notin {"idle", "wait"}, Step(w)
  PROVE  UNCHANGED cacheVars
  <1>1. pc[w] \notin {"fetch", "look", "object"} /\ ~LockIsFree
    BY Setup DEF LockDiscipline, LockIsFree
  <1>2. QED
    BY <1>1 DEF Step, Acquire, Fetch, FetchFails, Plan, PushRef, PushDone, PushFails, CheckTip,
                DeleteRef, RestoreLook, RestoreObject, RestoreCreate, Fails

\* What is pushed was allowed when it was planned, and the operation is the same.
LEMMA NextSpecs ==
  TypeOK /\ LockDiscipline /\ JobAllowed /\ SpecsAllowed /\ [Next]_vars => SpecsAllowed'
  <1> DEFINE Fits(j, s) == /\ MayWrite(j.to, s.ref)
                           /\ j.ref # NoRef => s.ref = j.ref
                           /\ j.force => s.lease = j.tip
  <1> SUFFICES ASSUME TypeOK, LockDiscipline, JobAllowed, SpecsAllowed, [Next]_vars,
                      NEW v \in Worker, NEW s \in specs'[v]
               PROVE  Fits(job'[v], s)
    BY DEF SpecsAllowed
  <1>0. \A t \in specs[v] : Fits(job[v], t)
    BY DEF SpecsAllowed
  <1>1. CASE specs' = specs /\ job' = job
    BY <1>0, <1>1
  <1>2. CASE Crash
    BY <1>2 DEF Crash
  <1>3. ASSUME NEW w \in Worker, Start(w)
        PROVE  Fits(job'[v], s)
    <2>1. specs[w] = {} /\ specs'[w] = {}
      BY <1>3, StepLocal DEF LockDiscipline
    <2>2. QED
      BY <1>0, <1>3, <2>1, StepLocal
  <1>4. ASSUME NEW w \in Worker, Step(w)
        PROVE  Fits(job'[v], s)
    <2>1. CASE v # w
      BY <1>0, <1>4, <2>1, StepLocal
    <2>2. CASE v = w /\ specs'[w] \subseteq specs[w] /\ job'[w] = job[w]
      BY <1>0, <2>2
    <2>3. CASE v = w /\ Plan(w) /\ specs[w] = {} /\ job'[w] = job[w]
      <3>1. /\ s.ref \in Wanted(cacheRefs[From(w)], job[w].to, job[w].ref)
            /\ job[w].force => s.lease = job[w].tip
        BY <2>3, PlanSpecs
      <3>2. /\ DirectionAllows(job[w].to)
            /\ job[w].ref \in Ref => OverrideAllows(job[w].to, job[w].ref)
        BY <2>3 DEF Plan, JobAllowed
      <3>3. job[w].ref \in Ref \cup {NoRef}
        BY DEF TypeOK, Job
      <3>4. QED
        BY <2>3, <3>1, <3>2, <3>3, Setup DEF Wanted, FullRefs, MayWrite
    <2>4. QED
      BY <1>4, <2>1, <2>2, <2>3, SpecsStep
  <1>5. CASE User \/ UNCHANGED vars
    BY <1>1, <1>5 DEF User, UserPush, UserDelete, jobVars, vars
  <1>6. QED
    BY <1>2, <1>3, <1>4, <1>5 DEF Next

\* The mutex keeps the cache as the plan saw it until the last ref is pushed.
LEMMA NextPlan ==
  TypeOK /\ LockDiscipline /\ PlanStaysTrue /\ [Next]_vars => PlanStaysTrue'
  <1> DEFINE Holds(j, s, tips, objs) ==
        /\ tips[Other(j.to)][s.ref] # None
        /\ ~j.force /\ s.lease # None =>
             /\ s.lease \in objs[Other(j.to)]
             /\ AncestryFaults \/ ~IsAncestor(tips[Other(j.to)][s.ref], s.lease)
  <1> SUFFICES ASSUME TypeOK, LockDiscipline, PlanStaysTrue, [Next]_vars,
                      NEW v \in Worker, NEW s \in specs'[v]
               PROVE  Holds(job'[v], s, cacheRefs', cacheObjs')
    BY DEF PlanStaysTrue, From
  <1>0. \A t \in specs[v] : Holds(job[v], t, cacheRefs, cacheObjs)
    BY DEF PlanStaysTrue, From
  <1>1. CASE specs' = specs /\ job' = job /\ UNCHANGED cacheVars
    BY <1>0, <1>1 DEF cacheVars
  <1>2. CASE Crash
    BY <1>2 DEF Crash
  <1>3. ASSUME NEW w \in Worker, Start(w)
        PROVE  Holds(job'[v], s, cacheRefs', cacheObjs')
    <2>1. specs[w] = {} /\ specs'[w] = {}
      BY <1>3, StepLocal DEF LockDiscipline
    <2>2. UNCHANGED cacheVars
      BY <1>3 DEF Start, StartMirror, StartDelete, StartForce, StartRestore, Begin
    <2>3. QED
      BY <1>0, <1>3, <2>1, <2>2, StepLocal DEF cacheVars
  <1>4. ASSUME NEW w \in Worker, Step(w)
        PROVE  Holds(job'[v], s, cacheRefs', cacheObjs')
    <2>1. CASE v # w
      <3>1. /\ specs'[v] = specs[v]
            /\ job'[v] = job[v]
        BY <1>4, <2>1, StepLocal
      <3>2. UNCHANGED cacheVars
        BY <1>4, <2>1, <3>1, CacheLocked, PusherHoldsLock
      <3>3. QED
        BY <1>0, <3>1, <3>2 DEF cacheVars
    <2>2. CASE v = w /\ specs'[w] \subseteq specs[w] /\ job'[w] = job[w] /\ UNCHANGED cacheVars
      BY <1>0, <2>2 DEF cacheVars
    <2>3. CASE v = w /\ Plan(w) /\ specs[w] = {} /\ job'[w] = job[w] /\ UNCHANGED cacheVars
      <3>1. Holds(job[w], s, cacheRefs, cacheObjs)
        BY <2>3, PlanSpecs DEF From, Withhold
      <3>2. QED
        BY <2>3, <3>1 DEF cacheVars
    <2>4. QED
      BY <1>4, <2>1, <2>2, <2>3, SpecsStep
  <1>5. CASE User \/ UNCHANGED vars
    BY <1>1, <1>5 DEF User, UserPush, UserDelete, jobVars, vars
  <1>6. QED
    BY <1>2, <1>3, <1>4, <1>5 DEF Next

\* A host does not forget a commit between RestoreObject and RestoreCreate.
LEMMA NextReady ==
  TypeOK /\ StoresSound /\ RestoreReady /\ [Next]_vars => RestoreReady'
  <1> SUFFICES ASSUME TypeOK, StoresSound, RestoreReady, [Next]_vars,
                      NEW v \in Worker, pc'[v] = "create"
               PROVE  /\ job'[v].tip # None
                      /\ OwnCache(Other(job'[v].to)) =>
                           job'[v].tip \in everHad'[Other(job'[v].to)]
    BY DEF RestoreReady, From, OwnCache
  <1>0. Other(job[v].to) \in Side
    BY OtherSide DEF TypeOK, Job
  <1>1. CASE pc[v] = "create" /\ job'[v] = job[v]
    BY <1>0, <1>1, NextGrows DEF Grows, RestoreReady, From
  <1>2. CASE RestoreObject(v)
    <2>1. /\ job' = job /\ everHad' = everHad
          /\ job[v].tip \in cacheObjs[From(v)] \cup everHad[From(v)]
      BY <1>2 DEF RestoreObject, hostVars
    <2>2. /\ OwnCache(From(v)) => job[v].tip \in everHad[From(v)]
          /\ job[v].tip \in Commit
      BY <1>0, <2>1 DEF StoresSound, From, TypeOK
    <2>3. QED
      BY <2>1, <2>2, CommitGraph DEF From
  <1>3. CASE Crash
    BY <1>3 DEF Crash
  <1>4. CASE User \/ UNCHANGED vars
    BY <1>1, <1>4 DEF User, UserPush, UserDelete, jobVars, vars
  <1>5. ASSUME NEW w \in Worker, Start(w) \/ Step(w), v # w
        PROVE  pc[v] = "create" /\ job'[v] = job[v]
    BY <1>5, StepLocal
  <1>6. CASE Start(v)
    BY <1>6 DEF Start, StartMirror, StartDelete, StartForce, StartRestore, Begin, TypeOK
  <1>7. CASE Step(v) /\ ~RestoreObject(v)
    <2>1. \/ pc' = pc /\ job' = job
          \/ \E at \in Phase \ {"create"} : pc' = [pc EXCEPT ![v] = at]
      BY <1>7 DEF Step, Acquire, Fetch, FetchFails, Plan, PushRef, PushDone, PushFails, CheckTip,
                  DeleteRef, RestoreLook, RestoreCreate, Fails, Return, Phase
    <2>2. QED
      BY <1>1, <2>1 DEF TypeOK
  <1>8. QED
    BY <1>1, <1>2, <1>3, <1>4, <1>5, <1>6, <1>7 DEF Next

-----------------------------------------------------------------------------
(* What is pushed, and what is recorded, is what a host had.               *)

\* The mutex keeps the cache as it was fetched until the operation is over.
LEMMA NextFetched ==
  TypeOK /\ LockDiscipline /\ StoresSound /\ FetchedTips /\ [Next]_vars => FetchedTips'
  <1> DEFINE Had(j, tips, had) ==
        \A r \in Ref : tips[Other(j.to)][r] # None =>
          tips[Other(j.to)][r] \in had[Other(j.to)]
  <1> SUFFICES ASSUME TypeOK, LockDiscipline, StoresSound, FetchedTips, [Next]_vars,
                      NEW v \in Worker, pc'[v] \in {"plan", "push"}
               PROVE  Had(job'[v], cacheRefs', everHad')
    BY DEF FetchedTips, From
  <1>0. Other(job[v].to) \in Side
    BY OtherSide DEF TypeOK, Job
  <1>1. CASE pc[v] \in {"plan", "push"} /\ job'[v] = job[v] /\ UNCHANGED cacheVars
    <2>1. Had(job[v], cacheRefs, everHad)
      BY <1>1 DEF FetchedTips, From
    <2>2. everHad[Other(job[v].to)] \subseteq everHad'[Other(job[v].to)]
      BY <1>0, NextGrows DEF Grows
    <2>3. QED
      BY <1>1, <2>1, <2>2 DEF cacheVars
  <1>2. CASE Fetch(v)
    <2>1. /\ job' = job /\ everHad' = everHad
          /\ cacheRefs' = [cacheRefs EXCEPT ![From(v)] = refs[From(v)]]
      BY <1>2 DEF Fetch, hostVars
    <2>2. cacheRefs'[From(v)] = refs[From(v)]
      BY <1>0, <2>1 DEF From, TypeOK
    <2>3. QED
      BY <1>0, <2>1, <2>2 DEF From, StoresSound
  <1>3. CASE User \/ UNCHANGED vars
    BY <1>1, <1>3 DEF User, UserPush, UserDelete, jobVars, cacheVars, vars
  <1>4. CASE Crash
    BY <1>4 DEF Crash
  <1>5. ASSUME NEW w \in Worker, Start(w)
        PROVE  Had(job'[v], cacheRefs', everHad')
    <2>1. /\ UNCHANGED cacheVars
          /\ \E at \in {"wait", "look"} : \E j : Begin(w, at, j)
      BY <1>5 DEF Start, StartMirror, StartDelete, StartForce, StartRestore, Begin
    <2>2. v # w
      BY <2>1 DEF Begin, TypeOK
    <2>3. QED
      BY <1>1, <1>5, <2>1, <2>2, StepLocal
  <1>6. ASSUME NEW w \in Worker, Step(w), v # w
        PROVE  Had(job'[v], cacheRefs', everHad')
    <2>1. pc[v] \in {"plan", "push"} /\ job'[v] = job[v]
      BY <1>6, StepLocal
    <2>2. UNCHANGED cacheVars
      BY <1>6, <2>1, CacheLocked
    <2>3. QED
      BY <1>1, <2>1, <2>2
  <1>7. CASE Step(v) /\ ~Fetch(v)
    <2>1. ~ \E rows : Return(v, rows)
      BY DEF Return, TypeOK
    <2>2. Plan(v) \/ \E s \in specs[v] : PushRef(v, s)
      BY <1>7, <2>1 DEF Step, Acquire, FetchFails, PushDone, PushFails, CheckTip,
             DeleteRef, RestoreLook, RestoreObject, RestoreCreate, Fails, TypeOK
    <2>3. pc[v] \in {"plan", "push"} /\ job' = job /\ UNCHANGED cacheVars
      BY <2>1, <2>2 DEF Plan, PushRef
    <2>4. QED
      BY <1>1, <2>3
  <1>8. QED
    BY <1>2, <1>3, <1>4, <1>5, <1>6, <1>7 DEF Next

\* A row a step of w writes was written before, or names what its destination has now.
LEMMA StepRows ==
  ASSUME TypeOK, LockDiscipline, JobAllowed, NEW w \in Worker, Step(w),
         NEW row, row \in history' \/ \E v \in Worker : row \in pending'[v]
  PROVE  \/ row \in history \/ \E v \in Worker : row \in pending[v]
         \/ \E r \in Ref : /\ row.to = job[w].to
                           /\ row.tip = refs[job[w].to][r]
                           /\ row.tip # None
  <1> DEFINE Old == row \in history \/ \E v \in Worker : row \in pending[v]
             Seen == \E r \in Ref : /\ row.to = job[w].to
                                   /\ row.tip = refs[job[w].to][r]
                                   /\ row.tip # None
  <1>1. ASSUME NEW rows, Return(w, rows)
        PROVE  Old \/ row \in rows
    BY <1>1 DEF Return, TypeOK
  <1>2. ASSUME NEW rows, pending' = [pending EXCEPT ![w] = rows], history' = history
        PROVE  Old \/ row \in rows
    BY <1>2 DEF TypeOK
  <1>3. CASE pending' = pending /\ history' = history
    BY <1>3
  <1>4. CASE Plan(w)
    <2> DEFINE to   == job[w].to
               src  == cacheRefs[From(w)]
               dst  == refs[to]
               want == Wanted(src, to, job[w].ref)
               differ == {r \in want : job[w].force \/ dst[r] # src[r]}
               kept(unsure) ==
                 {r \in differ : /\ ~job[w].force
                                 /\ Withhold(cacheObjs[From(w)], src[r], dst[r], r \in unsure)}
               holds(unsure) ==
                 {[kind |-> "held", to |-> to, ref |-> r, tip |-> dst[r]] : r \in kept(unsure)}
    <2>1. PICK unsure : \/ Return(w, holds(unsure))
                        \/ pending' = [pending EXCEPT ![w] = holds(unsure)] /\ history' = history
      BY <1>4 DEF Plan
    <2>2. want \subseteq Ref
      BY DEF Wanted, FullRefs, TypeOK, Job
    <2>3. row \in holds(unsure) => Seen
      BY <2>2 DEF Withhold
    <2> HIDE DEF holds
    <2>4. QED
      BY <1>1, <1>2, <2>1, <2>3
  <1>5. ASSUME NEW s \in specs[w], PushRef(w, s), ~(pending' = pending)
        PROVE  Old \/ Seen
    <2> DEFINE old  == refs[job[w].to][s.ref]
               new  == cacheRefs[From(w)][s.ref]
               lost == IF NonFastForward(old, new)
                         THEN {[kind |-> "forced", to |-> job[w].to, ref |-> s.ref, tip |-> old]}
                         ELSE {}
    <2>1. pending' = [pending EXCEPT ![w] = @ \cup lost] /\ history' = history
      BY <1>5 DEF PushRef
    <2>2. s.ref \in Ref
      BY DEF TypeOK, PushSpec
    <2>3. row \in lost => Seen
      BY <2>2 DEF NonFastForward
    <2> HIDE DEF lost
    <2>4. QED
      BY <2>1, <2>3 DEF TypeOK
  <1>6. CASE CheckTip(w)
    <2>1. job[w].ref \in Ref
      BY <1>6 DEF CheckTip, LockDiscipline, JobAllowed
    <2>2. CASE Return(w, {})
      BY <1>1, <2>2
    <2>3. CASE ~Return(w, {})
      BY <1>2, <1>6, <2>1, <2>3 DEF CheckTip
    <2>4. QED
      BY <2>2, <2>3
  <1>7. CASE PushDone(w) \/ PushFails(w) \/ DeleteRef(w)
    <2>1. \E rows \in SUBSET pending[w] : Return(w, rows)
      BY <1>7 DEF PushDone, PushFails, DeleteRef
    <2>2. QED
      BY <1>1, <2>1
  <1>8. CASE FetchFails(w) \/ RestoreCreate(w) \/ Fails(w) \/ (RestoreLook(w) /\ Return(w, {}))
    BY <1>1, <1>8 DEF FetchFails, RestoreCreate, Fails
  <1>9. CASE Acquire(w) \/ Fetch(w) \/ RestoreObject(w) \/ (RestoreLook(w) /\ ~Return(w, {}))
    BY <1>3, <1>9 DEF Acquire, Fetch, RestoreObject, RestoreLook
  <1>10. CASE \E s \in specs[w] : PushRef(w, s) /\ pending' = pending
    BY <1>3, <1>10 DEF PushRef
  <1>11. QED
    BY <1>4, <1>5, <1>6, <1>7, <1>8, <1>9, <1>10 DEF Step

\* Every row names a tip its destination has had, for ever after.
LEMMA NextRows ==
  TypeOK /\ LockDiscipline /\ JobAllowed /\ StoresSound /\ RowsTrue /\ [Next]_vars => RowsTrue'
  <1> SUFFICES ASSUME TypeOK, LockDiscipline, JobAllowed, StoresSound, RowsTrue, [Next]_vars,
                      NEW row, row \in history' \/ \E v \in Worker : row \in pending'[v]
               PROVE  row.tip \in everHad'[row.to]
    BY DEF RowsTrue
  <1>1. CASE row \in history \/ \E v \in Worker : row \in pending[v]
    <2>1. row.tip \in everHad[row.to] /\ row.to \in Side
      BY <1>1 DEF RowsTrue, TypeOK, Row
    <2>2. QED
      BY <2>1, NextGrows DEF Grows
  <1>2. CASE User \/ UNCHANGED vars
    BY <1>1, <1>2 DEF User, UserPush, UserDelete, jobVars, vars
  <1>3. CASE Crash
    BY <1>1, <1>3 DEF Crash
  <1>4. ASSUME NEW w \in Worker, Start(w)
        PROVE  row.tip \in everHad'[row.to]
    BY <1>1, <1>4 DEF Start, StartMirror, StartDelete, StartForce, StartRestore, Begin
  <1>5. ASSUME NEW w \in Worker, Step(w)
        PROVE  row.tip \in everHad'[row.to]
    <2>1. job[w].to \in Side
      BY DEF TypeOK, Job
    <2>2. ASSUME NEW r \in Ref, row.to = job[w].to, row.tip = refs[job[w].to][r], row.tip # None
          PROVE  row.tip \in everHad'[row.to]
      BY <2>1, <2>2, NextGrows DEF Grows, StoresSound
    <2>3. QED
      BY <1>1, <1>5, <2>2, StepRows
  <1>6. QED
    BY <1>2, <1>3, <1>4, <1>5 DEF Next

-----------------------------------------------------------------------------
(* The inductive invariant and what it gives.                              *)

\* The initial states satisfy the invariant.
LEMMA InitInv == Init => IndInv
  <1> SUFFICES ASSUME Init PROVE IndInv
    OBVIOUS
  <1>1. /\ LockDiscipline /\ JobAllowed /\ SpecsAllowed /\ PlanStaysTrue /\ RestoreReady
        /\ FetchedTips /\ RowsTrue
    BY DEF Init, LockDiscipline, JobAllowed, SpecsAllowed, PlanStaysTrue, RestoreReady,
           FetchedTips, RowsTrue
  <1>2. QED
    BY <1>1, InitType, InitStores DEF IndInv

\* Every step keeps it.
LEMMA NextInv == IndInv /\ [Next]_vars => IndInv'
  BY NextType, NextLock, NextJob, NextStores, NextSpecs, NextPlan, NextReady, NextFetched,
     NextRows
  DEF IndInv

\* The inductive invariant holds in every reachable state.
THEOREM Invariant == Spec => []IndInv
  BY InitInv, NextInv, PTL DEF Spec

\* The model keeps its types, for every repository, configuration and schedule.
THEOREM TypeCorrect == Spec => []TypeOK
  <1>1. IndInv => TypeOK
    BY DEF IndInv
  <1>2. QED
    BY <1>1, Invariant, PTL

\* What planPush decided stays true of the cache until the last ref is pushed,
\* for any number of workers: the per-repo mutex is enough.
THEOREM PlanHolds == Spec => []PlanStaysTrue
  <1>1. IndInv => PlanStaysTrue
    BY DEF IndInv
  <1>2. QED
    BY <1>1, Invariant, PTL

-----------------------------------------------------------------------------
(* What a step may do to the hosts.                                        *)

\* Worker w writes ref r of the host its operation is for, as one of:
\* one ref of a push, under a lease that still holds,
PushWrites(w, r) ==
  LET old == refs[job[w].to][r]
      new == cacheRefs[From(w)][r]
  IN /\ job[w].op = "mirror"
     /\ job[w].ref \in {r, NoRef}
     /\ new \in everHad[From(w)]
     /\ new # None
     /\ HostWrite(job[w].to, r, new)
     /\ job[w].force => old = job[w].tip
     /\ ~job[w].force /\ old # None =>
          /\ old \in cacheObjs[From(w)]
          /\ AncestryFaults \/ ~IsAncestor(new, old)

\* a propagated delete,
DeleteWrites(w, r) ==
  /\ job[w].op = "delete"
  /\ job[w].ref = r
  /\ HostWrite(job[w].to, r, None)

\* or a restore of what a recorded delete removed.
RestoreWrites(w, r) ==
  /\ job[w].op = "restore"
  /\ job[w].ref = r
  /\ OwnCache(From(w)) => job[w].tip \in everHad[From(w)]
  /\ job[w].tip \in everHad[job[w].to]
  /\ job[w].tip # None
  /\ refs[job[w].to][r] = None
  /\ HostWrite(job[w].to, r, job[w].tip)

\* A worker's step changes nothing on the hosts, or makes one such write, of a ref
\* the configuration lets it write, holding the mutex.
LEMMA StepWrites ==
  ASSUME IndInv, NEW w \in Worker, Step(w)
  PROVE  /\ UNCHANGED userVars
         /\ \/ UNCHANGED hostVars
            \/ \E r \in Ref :
                 /\ lock = w
                 /\ pc[w] # "idle"
                 /\ MayWrite(job[w].to, r)
                 /\ PushWrites(w, r) \/ DeleteWrites(w, r) \/ RestoreWrites(w, r)
  <1> USE DEF IndInv
  <1>1. UNCHANGED userVars
    BY DEF Step, Acquire, Fetch, FetchFails, Plan, PushRef, PushDone, PushFails, CheckTip,
           DeleteRef, RestoreLook, RestoreObject, RestoreCreate, Fails, Return, userVars
  <1>2. ASSUME NEW s \in specs[w], PushRef(w, s), ~UNCHANGED hostVars
        PROVE  /\ s.ref \in Ref /\ lock = w /\ pc[w] # "idle"
               /\ MayWrite(job[w].to, s.ref)
               /\ PushWrites(w, s.ref)
    <2>1. /\ s \in PushSpec
          /\ job[w].to \in Side
          /\ From(w) \in Side
      BY OtherSide DEF TypeOK, Job, From
    <2>2. /\ lock = w /\ pc[w] = "push" /\ job[w].op = "mirror"
          /\ MayWrite(job[w].to, s.ref)
          /\ job[w].ref \in {s.ref, NoRef}
          /\ job[w].force => s.lease = job[w].tip
      BY <1>2 DEF PushRef, LockDiscipline, SpecsAllowed
    <2>3. LET new == cacheRefs[From(w)][s.ref]
          IN /\ new # None
             /\ ~job[w].force /\ s.lease # None =>
                  /\ s.lease \in cacheObjs[From(w)]
                  /\ AncestryFaults \/ ~IsAncestor(new, s.lease)
      BY DEF PlanStaysTrue
    <2>4. /\ HostWrite(job[w].to, s.ref, cacheRefs[From(w)][s.ref])
          /\ refs[job[w].to][s.ref] = s.lease
      BY <1>2 DEF PushRef, LeaseHolds
    <2>5. cacheRefs[From(w)][s.ref] \in everHad[From(w)]
      BY <2>1, <2>2, <2>3 DEF FetchedTips, PushSpec
    <2>6. QED
      BY <2>1, <2>2, <2>3, <2>4, <2>5 DEF PushWrites, PushSpec
  <1>3. ASSUME DeleteRef(w)
        PROVE  /\ job[w].ref \in Ref /\ lock = w /\ pc[w] # "idle"
               /\ MayWrite(job[w].to, job[w].ref)
               /\ DeleteWrites(w, job[w].ref)
    BY <1>3 DEF DeleteRef, LockDiscipline, JobAllowed, MayWrite, DeleteWrites
  <1>4. ASSUME RestoreCreate(w), ~UNCHANGED hostVars
        PROVE  /\ job[w].ref \in Ref /\ lock = w /\ pc[w] # "idle"
               /\ MayWrite(job[w].to, job[w].ref)
               /\ RestoreWrites(w, job[w].ref)
    <2>1. pc[w] = "create" /\ job[w].op = "restore"
      BY <1>4 DEF RestoreCreate, LockDiscipline
    <2>2. /\ job[w].ref \in Ref /\ lock = w /\ MayWrite(job[w].to, job[w].ref)
          /\ [kind |-> "delete", to |-> job[w].to, ref |-> job[w].ref, tip |-> job[w].tip]
               \in history
      BY <2>1 DEF LockDiscipline, JobAllowed, MayWrite
    <2>3. job[w].tip \in everHad[job[w].to]
      BY <2>2 DEF RowsTrue
    <2>4. QED
      BY <1>4, <2>1, <2>2, <2>3 DEF RestoreCreate, LeaseHolds, RestoreWrites, RestoreReady
  <1>5. CASE ~(\E s \in specs[w] : PushRef(w, s)) /\ ~DeleteRef(w) /\ ~RestoreCreate(w)
    <2>1. UNCHANGED hostVars
      BY <1>5 DEF Step, Acquire, Fetch, FetchFails, Plan, PushDone, PushFails, CheckTip,
                  RestoreLook, RestoreObject, Fails
    <2>2. QED
      BY <1>1, <2>1
  <1>6. QED
    BY <1>1, <1>2, <1>3, <1>4, <1>5

\* When the mirror changes a ref, some worker is making one of those writes to it.
LEMMA ChangeIsWrite ==
  ASSUME IndInv, [Next]_vars, NEW s \in Side, NEW r \in Ref, MirrorChanges(s, r)
  PROVE  \E w \in Worker :
           /\ lock = w
           /\ pc[w] # "idle"
           /\ job[w].to = s
           /\ MayWrite(s, r)
           /\ PushWrites(w, r) \/ DeleteWrites(w, r) \/ RestoreWrites(w, r)
  <1>1. ~UNCHANGED hostVars
    BY DEF MirrorChanges, hostVars
  <1>2. ~User
    BY DEF MirrorChanges, User, UserPush, UserDelete, IndInv, TypeOK
  <1>3. ~Crash /\ ~UNCHANGED vars
    BY <1>1 DEF Crash, vars
  <1>4. \A w \in Worker : ~Start(w)
    <2>1. ASSUME NEW w \in Worker, Start(w)
          PROVE  UNCHANGED hostVars
      <3>1. \E at, j : Begin(w, at, j)
        BY <2>1 DEF Start, StartMirror, StartDelete, StartForce, StartRestore
      <3>2. QED
        BY <3>1 DEF Begin
    <2>2. QED
      BY <1>1, <2>1
  <1>5. PICK w \in Worker : Step(w)
    BY <1>2, <1>3, <1>4 DEF Next
  <1>6. PICK q \in Ref : /\ lock = w /\ pc[w] # "idle" /\ MayWrite(job[w].to, q)
                         /\ PushWrites(w, q) \/ DeleteWrites(w, q) \/ RestoreWrites(w, q)
    BY <1>1, <1>5, StepWrites
  <1>7. PICK t : HostWrite(job[w].to, q, t)
    BY <1>6 DEF PushWrites, DeleteWrites, RestoreWrites
  <1>8. q = r /\ job[w].to = s
    BY <1>7 DEF HostWrite, MirrorChanges, IndInv, TypeOK, Job
  <1>9. QED
    BY <1>6, <1>8

\* The value a write leaves.
LEMMA WriteValue ==
  ASSUME TypeOK, NEW s \in Side, NEW r \in Ref, NEW t, HostWrite(s, r, t)
  PROVE  refs'[s][r] = t
  BY DEF TypeOK, HostWrite

-----------------------------------------------------------------------------
(* The action properties.                                                  *)

\* A one-way repository and a pinned ref are written on one side only.
LEMMA WritableSide ==
  ASSUME NEW s \in Side, NEW r \in Ref, MayWrite(s, r)
  PROVE  /\ OverrideTo[r] \in {s, "both"}
         /\ Direction # IF s = "source" THEN "source-to-target" ELSE "target-to-source"
  BY Setup DEF MayWrite, DirectionAllows, OverrideAllows, Side

\* The guard against the 2026-08-11 loss holds whatever the schedule.
THEOREM NoBlind == Spec => NoBlindOverwrite
  <1>1. ASSUME IndInv, [Next]_vars
        PROVE  GuardedStep
    <2> SUFFICES ASSUME NEW s \in Side, NEW r \in Ref,
                        MirrorChanges(s, r), refs[s][r] # None, refs'[s][r] # None
                 PROVE  \/ /\ OwnCache(Other(s)) => refs[s][r] \in everHad[Other(s)]
                           /\ AncestryFaults \/ ~IsAncestor(refs'[s][r], refs[s][r])
                        \/ [to |-> s, ref |-> r, tip |-> refs[s][r]] \in asked
      BY DEF GuardedStep
    <2>1. PICK w \in Worker : /\ pc[w] # "idle" /\ job[w].to = s
                              /\ PushWrites(w, r) \/ DeleteWrites(w, r) \/ RestoreWrites(w, r)
      BY <1>1, ChangeIsWrite
    <2>2. PushWrites(w, r) /\ refs'[s][r] = cacheRefs[From(w)][r]
      BY <1>1, <2>1, WriteValue DEF PushWrites, DeleteWrites, RestoreWrites, IndInv
    <2>3. CASE job[w].force
      BY <1>1, <2>1, <2>2, <2>3, Setup DEF PushWrites, JobAllowed, IndInv
    <2>4. CASE ~job[w].force
      <3>1. OwnCache(Other(s)) => cacheObjs[Other(s)] \subseteq everHad[Other(s)]
        BY <1>1, OtherSide DEF IndInv, StoresSound
      <3>2. QED
        BY <2>1, <2>2, <2>4, <3>1 DEF PushWrites, From
    <2>5. QED
      BY <2>3, <2>4
  <1>2. QED
    BY <1>1, Invariant, PTL DEF Spec, NoBlindOverwrite

\* An event moves only its own ref, on the side it is sent to.
THEOREM Scope == Spec => EventScope
  <1>1. ASSUME IndInv, [Next]_vars
        PROVE  ScopedStep
    <2> SUFFICES ASSUME NEW s \in Side, NEW r \in Ref, MirrorChanges(s, r)
                 PROVE  /\ lock # NoWorker
                        /\ job[lock].to = s
                        /\ \/ job[lock].ref = r
                           \/ /\ job[lock].ref = NoRef
                              /\ job[lock].op = "mirror"
                              /\ refs'[s][r] # None
      BY DEF ScopedStep
    <2>1. PICK w \in Worker : /\ lock = w /\ job[w].to = s
                              /\ PushWrites(w, r) \/ DeleteWrites(w, r) \/ RestoreWrites(w, r)
      BY <1>1, ChangeIsWrite
    <2>2. PushWrites(w, r) => refs'[s][r] # None
      BY <1>1, <2>1, WriteValue DEF PushWrites, IndInv
    <2>3. QED
      BY <2>1, <2>2, Setup DEF PushWrites, DeleteWrites, RestoreWrites
  <1>2. QED
    BY <1>1, Invariant, PTL DEF Spec, EventScope

\* Nothing is ever written on the side a direction or an override protects.
THEOREM Authority == Spec => AuthoritativeSideKept
  <1>1. ASSUME IndInv, [Next]_vars
        PROVE  AllowedStep
    BY <1>1, ChangeIsWrite, WritableSide DEF AllowedStep
  <1>2. QED
    BY <1>1, Invariant, PTL DEF Spec, AuthoritativeSideKept

\* A restore creates what a recorded delete removed and overwrites nothing.
THEOREM RestoreSafe == Spec => RestoreFillsHole
  <1>1. ASSUME IndInv, [Next]_vars
        PROVE  HoleFillingStep
    <2> SUFFICES ASSUME NEW s \in Side, NEW r \in Ref, MirrorChanges(s, r),
                        job[lock].op = "restore"
                 PROVE  /\ refs[s][r] = None
                        /\ [kind |-> "delete", to |-> s, ref |-> r, tip |-> refs'[s][r]] \in history
      BY DEF HoleFillingStep
    <2>1. PICK w \in Worker : /\ lock = w /\ job[w].to = s /\ pc[w] # "idle"
                              /\ RestoreWrites(w, r)
      BY <1>1, ChangeIsWrite DEF PushWrites, DeleteWrites
    <2>2. refs'[s][r] = job[w].tip
      BY <1>1, <2>1, WriteValue DEF RestoreWrites, IndInv
    <2>3. QED
      BY <1>1, <2>1, <2>2 DEF RestoreWrites, JobAllowed, IndInv
  <1>2. QED
    BY <1>1, Invariant, PTL DEF Spec, RestoreFillsHole

-----------------------------------------------------------------------------
(* MirrorSync implements MirrorContract.                                   *)

\* A step of the contract for every write of a worker.
LEMMA WriteImplements ==
  ASSUME IndInv, NEW w \in Worker, NEW r \in Ref, pc[w] # "idle",
         MayWrite(job[w].to, r), UNCHANGED userVars,
         PushWrites(w, r) \/ DeleteWrites(w, r) \/ RestoreWrites(w, r)
  PROVE  Contract!Next
  <1> DEFINE s == job[w].to
  <1>0. /\ s \in Side
        /\ Contract!Other(s) = Other(s)
        /\ Contract!Side = Side
        /\ Other(s) \in Side
        /\ <<s, r>> \in {p \in Side \X Ref : MayWrite(p[1], p[2])}
    BY OtherSide DEF IndInv, TypeOK, Job, Contract!Other, Other, Contract!Side, Side
  <1>1. /\ OwnCache(Other(s)) => cacheObjs[Other(s)] \subseteq everHad[Other(s)]
        /\ everHad[Other(s)] \subseteq Commit /\ everHad[s] \subseteq Commit
        /\ refs[s][r] # None => refs[s][r] \in everHad[s]
    BY <1>0 DEF IndInv, StoresSound, TypeOK
  <1> DEFINE vouched == Contract!Vouched(s)
  <1>v. /\ everHad[Other(s)] \subseteq vouched
        /\ ~OwnCache(Other(s)) => everHad[s] \subseteq vouched
    BY <1>0 DEF Contract!Vouched
  <1> HIDE DEF vouched
  <1>2. CASE PushWrites(w, r)
    <2> DEFINE new == cacheRefs[From(w)][r]
    <2>1. new \in everHad[Other(s)] /\ new \in Commit
      BY <1>1, <1>2 DEF PushWrites, From
    <2>2. \/ refs[s][r] = None
          \/ refs[s][r] \in vouched /\ (AncestryFaults \/ ~IsAncestor(new, refs[s][r]))
          \/ [to |-> s, ref |-> r, tip |-> refs[s][r]] \in asked
      BY <1>1, <1>2, <1>v, Setup DEF PushWrites, From, IndInv, JobAllowed
    <2>3. Contract!Put(s, r, new)
      BY <1>2 DEF PushWrites, HostWrite, Contract!Put
    <2>4. Contract!MirrorPuts(s, r, new)
      BY <1>0, <1>v, <2>1, <2>2, <2>3
      DEF Contract!MirrorPuts, userVars, Contract!IsAncestor, IsAncestor, vouched
    <2>5. QED
      BY <1>0, <2>1, <2>4 DEF Contract!Next
  <1>3. CASE DeleteWrites(w, r)
    <2>1. Contract!Drop(s, r)
      BY <1>3 DEF DeleteWrites, HostWrite, Contract!Drop
    <2>2. r \in deletedAt[Other(s)]
      BY <1>3 DEF DeleteWrites, IndInv, JobAllowed
    <2>3. Contract!MirrorDrops(s, r)
      BY <1>0, <2>1, <2>2 DEF Contract!MirrorDrops, userVars
    <2>4. QED
      BY <1>0, <2>3 DEF Contract!Next
  <1>4. CASE RestoreWrites(w, r)
    <2>1. /\ job[w].tip \in vouched /\ job[w].tip \in Commit
          /\ refs[s][r] = None
      BY <1>0, <1>1, <1>4, <1>v DEF RestoreWrites, From
    <2>2. Contract!Put(s, r, job[w].tip)
      BY <1>4 DEF RestoreWrites, HostWrite, Contract!Put
    <2>3. Contract!MirrorPuts(s, r, job[w].tip)
      BY <1>0, <2>1, <2>2 DEF Contract!MirrorPuts, userVars, vouched
    <2>4. QED
      BY <1>0, <2>1, <2>3 DEF Contract!Next
  <1>5. QED
    BY <1>2, <1>3, <1>4

\* So do people, and the rest of a worker's steps say nothing to the contract.
LEMMA StepImplements ==
  ASSUME IndInv, [Next]_vars
  PROVE  [Contract!Next]_(Contract!vars)
  <1>0. Contract!Side = Side
    BY DEF Contract!Side, Side
  <1>1. CASE UNCHANGED <<hostVars, userVars>>
    BY <1>1 DEF hostVars, userVars, Contract!vars
  <1>2. CASE User
    <2>1. PICK s \in Side, r \in Ref : UserDelete(s, r) \/ \E c \in Commit : UserPush(s, r, c)
      BY <1>2 DEF User
    <2>2. CASE UserDelete(s, r)
      BY <1>0, <2>2 DEF UserDelete, Contract!Next, Contract!UserWrites, Contract!Drop
    <2>3. ASSUME NEW c \in Commit, UserPush(s, r, c)
          PROVE  Contract!Next
      BY <1>0, <2>3 DEF UserPush, Contract!Next, Contract!UserWrites, Contract!Put
    <2>4. QED
      BY <2>1, <2>2, <2>3
  <1>3. CASE Crash \/ UNCHANGED vars
    BY <1>1, <1>3 DEF Crash, vars
  <1>4. ASSUME NEW w \in Worker, Start(w)
        PROVE  [Contract!Next]_(Contract!vars)
    <2>1. UNCHANGED <<hostVars, userOps>>
      BY <1>4 DEF Start, StartMirror, StartDelete, StartForce, StartRestore, Begin
    <2>2. \/ asked' = asked
          \/ \E s \in Side, r \in Ref, c \in Commit :
               asked' = asked \cup {[to |-> s, ref |-> r, tip |-> c]}
      BY <1>4 DEF Start, StartMirror, StartDelete, StartForce, StartRestore
    <2>3. CASE asked' = asked
      BY <1>1, <2>1, <2>3 DEF userVars
    <2>4. ASSUME NEW s \in Side, NEW r \in Ref, NEW c \in Commit,
                 asked' = asked \cup {[to |-> s, ref |-> r, tip |-> c]}
          PROVE  Contract!Next
      <3>1. Contract!PersonAsks(s, r, c)
        BY <2>1, <2>4 DEF Contract!PersonAsks, hostVars
      <3>2. QED
        BY <1>0, <3>1 DEF Contract!Next
    <2>5. QED
      BY <2>2, <2>3, <2>4
  <1>5. ASSUME NEW w \in Worker, Step(w)
        PROVE  [Contract!Next]_(Contract!vars)
    <2>1. CASE UNCHANGED hostVars
      BY <1>1, <1>5, <2>1, StepWrites
    <2>2. CASE ~UNCHANGED hostVars
      BY <1>5, <2>2, StepWrites, WriteImplements
    <2>3. QED
      BY <2>1, <2>2
  <1>6. QED
    BY <1>2, <1>3, <1>4, <1>5 DEF Next

\* The mirror as written does no more to the two hosts than its contract allows:
\* whatever the configuration, and also where `git merge-base` may not run or one
\* direction may have taken over the other's cache.
THEOREM Refinement == Spec => ImplementsContract
  <1>1. Init => Contract!Init
    BY DEF Init, Contract!Init, Contract!Side, Side, Contract!Tip, Tip,
           Contract!Reachable, Reachable
  <1>2. ASSUME IndInv, [Next]_vars
        PROVE  [Contract!Next]_(Contract!vars)
    BY <1>2, StepImplements
  <1>3. QED
    BY <1>1, <1>2, Invariant, PTL DEF Spec, ImplementsContract, Contract!Spec
=============================================================================
