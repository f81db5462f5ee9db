---------------------------- MODULE ForcedProofs ----------------------------
(***************************************************************************)
(* No overwrite is judged harmless that lost content, for every commit     *)
(* graph, content of commits, number of workers and schedule, and whether  *)
(* or not merge-base answers.                                              *)
(*                                                                         *)
(* That the judgement is right of two tips the cache has is a fact about   *)
(* sets (HarmlessKeeps).  That the cache still has them takes an invariant *)
(* (ForcedKnown): the lease was confirmed in an earlier step, and the      *)
(* mutex keeps the cache as it was until the operation returns.            *)
(***************************************************************************)
EXTENDS ForcedLoss, MirrorProofs

\* What a worker has overwritten is known in the cache it pushes from.
Known(j, f, tips, objs) ==
  /\ tips[Other(j.to)][f.ref] # None
  /\ ~j.force => f.tip \in objs[Other(j.to)]

ForcedKnown == \A w \in Worker : \A f \in pending[w] : f.kind = "forced" =>
  /\ pc[w] = "push"
  /\ Known(job[w], f, cacheRefs, cacheObjs)

LossInv == IndInv /\ ForcedKnown

-----------------------------------------------------------------------------
\* Every commit of the old tip is in the new history, by itself or by its content,
\* or on a branch, if the check found nothing lost.
LEMMA HarmlessKeeps ==
  ASSUME NEW objs, NEW new, NEW tip, NEW others,
         NothingLost(objs, new, tip, others \cup {new}),
         NEW c \in Ancestors[tip]
  PROVE  Survives(c, new, others)
  <1>1. CASE c \in Ancestors[new]
    BY <1>1 DEF Survives, OnBranch
  <1>2. CASE c \in UnmatchedCommits(new, tip)
    BY <1>2 DEF NothingLost, Survives
  <1>3. CASE c \in Only(tip, new) /\ c \notin UnmatchedCommits(new, tip)
    BY <1>3 DEF UnmatchedCommits, Only, Survives
  <1>4. QED
    BY <1>1, <1>2, <1>3 DEF Only

-----------------------------------------------------------------------------
\* A step of w records an overwrite only as it pushes a ref, and forgets what it
\* has overwritten only when it returns.
LEMMA PendingStep ==
  ASSUME TypeOK, LockDiscipline, ForcedKnown, NEW w \in Worker, Step(w),
         NEW f \in pending'[w], f.kind = "forced"
  PROVE  \/ f \in pending[w] /\ pc'[w] = pc[w] /\ job'[w] = job[w] /\ UNCHANGED cacheVars
         \/ \E s \in specs[w] : /\ PushRef(w, s)
                                /\ f.ref = s.ref
                                /\ f.tip = refs[job[w].to][s.ref]
                                /\ cacheRefs[From(w)][s.ref] # None
                                /\ LeaseHolds(refs[job[w].to][s.ref], s.lease)
                                /\ NonFastForward(f.tip, cacheRefs[From(w)][s.ref])
  <1>1. ASSUME NEW rows, Return(w, rows) PROVE FALSE
    BY <1>1 DEF Return, TypeOK
  <1>2. CASE pending' = pending /\ pc[w] # "push"
    BY <1>2 DEF ForcedKnown
  <1>3. CASE Plan(w)
    BY <1>1, <1>3 DEF Plan, TypeOK
  <1>4. CASE CheckTip(w)
    BY <1>1, <1>4 DEF CheckTip, TypeOK
  <1>5. ASSUME NEW s \in specs[w], PushRef(w, s)
        PROVE  \/ f \in pending[w] /\ pc'[w] = pc[w] /\ job'[w] = job[w] /\ UNCHANGED cacheVars
               \/ /\ f.ref = s.ref
                  /\ f.tip = refs[job[w].to][s.ref]
                  /\ cacheRefs[From(w)][s.ref] # None
                  /\ LeaseHolds(refs[job[w].to][s.ref], s.lease)
                  /\ NonFastForward(f.tip, cacheRefs[From(w)][s.ref])
    BY <1>5 DEF PushRef, TypeOK
  <1>6. QED
    BY <1>1, <1>2, <1>3, <1>4, <1>5
    DEF Step, Acquire, Fetch, FetchFails, PushDone, PushFails, DeleteRef, RestoreLook,
        RestoreObject, RestoreCreate, Fails

\* While a worker has overwritten refs it has not recorded, no other touches a cache.
LEMMA PushingAlone ==
  ASSUME LockDiscipline, NEW w \in Worker, NEW v \in Worker, v # w, pc[v] = "push", Step(w)
  PROVE  UNCHANGED cacheVars
  <1>1. lock = v
    BY DEF LockDiscipline
  <1>2. pc[w] \notin {"fetch", "look", "object"} /\ ~LockIsFree
    BY <1>1, Setup DEF LockDiscipline, LockIsFree
  <1>3. QED
    BY <1>2 DEF Step, Acquire, Fetch, FetchFails, Plan, PushRef, PushDone, PushFails, CheckTip,
                DeleteRef, RestoreLook, RestoreObject, RestoreCreate, Fails

\* A step of w leaves what other workers have pending.
LEMMA PendingLocal ==
  ASSUME TypeOK, NEW w \in Worker, Start(w) \/ Step(w), NEW v \in Worker, v # w
  PROVE  pending'[v] = pending[v]
  <1>1. CASE Start(w)
    BY <1>1 DEF Start, StartMirror, StartDelete, StartForce, StartRestore, Begin
  <1>2. CASE \E rows : Return(w, rows)
    BY <1>2 DEF Return, TypeOK
  <1>3. CASE Step(w) /\ ~ \E rows : Return(w, rows)
    BY <1>3 DEF Step, Acquire, Fetch, FetchFails, Plan, PushRef, PushDone, PushFails, CheckTip,
                DeleteRef, RestoreLook, RestoreObject, RestoreCreate, Fails, TypeOK
  <1>4. QED
    BY <1>1, <1>2, <1>3

\* The mutex keeps both tips of an overwrite in the cache until it is judged.
LEMMA NextForced == IndInv /\ ForcedKnown /\ [Next]_vars => ForcedKnown'
  <1> SUFFICES ASSUME IndInv, ForcedKnown, [Next]_vars,
                      NEW v \in Worker, NEW f \in pending'[v], f.kind = "forced"
               PROVE  pc'[v] = "push" /\ Known(job'[v], f, cacheRefs', cacheObjs')
    BY DEF ForcedKnown
  <1>0. /\ TypeOK /\ LockDiscipline /\ PlanStaysTrue
        /\ f \in pending[v] => pc[v] = "push" /\ Known(job[v], f, cacheRefs, cacheObjs)
    BY DEF IndInv, ForcedKnown
  <1>1. CASE f \in pending[v] /\ pc'[v] = pc[v] /\ job'[v] = job[v] /\ UNCHANGED cacheVars
    BY <1>0, <1>1 DEF cacheVars
  <1>2. CASE Crash
    BY <1>2 DEF Crash
  <1>3. CASE User \/ UNCHANGED vars
    BY <1>1, <1>3 DEF User, UserPush, UserDelete, jobVars, vars
  <1>4. ASSUME NEW w \in Worker, Start(w)
        PROVE  f \in pending[v] /\ pc'[v] = pc[v] /\ job'[v] = job[v] /\ UNCHANGED cacheVars
    <2>1. pending' = pending /\ UNCHANGED cacheVars /\ pc[w] = "idle"
      BY <1>4 DEF Start, StartMirror, StartDelete, StartForce, StartRestore, Begin
    <2>2. v # w
      BY <1>0, <2>1
    <2>3. QED
      BY <1>0, <1>4, <2>1, <2>2, StepLocal
  <1>5. ASSUME NEW w \in Worker, Step(w), v # w
        PROVE  f \in pending[v] /\ pc'[v] = pc[v] /\ job'[v] = job[v] /\ UNCHANGED cacheVars
    <2>1. f \in pending[v] /\ pc'[v] = pc[v] /\ job'[v] = job[v]
      BY <1>0, <1>5, PendingLocal, StepLocal
    <2>2. QED
      BY <1>0, <1>5, <2>1, PushingAlone
  <1>6. ASSUME NEW s \in specs[v], PushRef(v, s), f.ref = s.ref,
               f.tip = refs[job[v].to][s.ref], cacheRefs[From(v)][s.ref] # None,
               LeaseHolds(f.tip, s.lease), NonFastForward(f.tip, cacheRefs[From(v)][s.ref])
        PROVE  pc'[v] = "push" /\ Known(job'[v], f, cacheRefs', cacheObjs')
    <2>1. pc'[v] = "push" /\ job'[v] = job[v] /\ UNCHANGED cacheVars
      BY <1>6 DEF PushRef
    <2>2. ~job[v].force => f.tip \in cacheObjs[From(v)]
      BY <1>0, <1>6 DEF PlanStaysTrue, LeaseHolds, NonFastForward
    <2>3. QED
      BY <1>6, <2>1, <2>2 DEF Known, From, cacheVars
  <1>7. CASE Step(v)
    BY <1>0, <1>1, <1>6, <1>7, PendingStep
  <1>8. QED
    BY <1>1, <1>2, <1>3, <1>4, <1>5, <1>7 DEF Next

\* The invariant of the mirror with what it knows of its overwrites.
LEMMA LossAlways == Spec => []LossInv
  <1>1. Init => LossInv
    <2>1. Init => ForcedKnown
      BY DEF Init, ForcedKnown
    <2>2. QED
      BY <2>1, InitInv DEF LossInv
  <1>2. LossInv /\ [Next]_vars => LossInv'
    BY NextInv, NextForced DEF LossInv
  <1>3. QED
    BY <1>1, <1>2, PTL DEF Spec

\* "A loss reported as harmless, the one mistake this check must not make": it is
\* not made, and an overwrite that nobody forced is always one git can look at.
THEOREM LossReported == Spec => []OverwritesJudged
  <1>1. LossInv => OverwritesJudged
    <2> SUFFICES ASSUME LossInv, NEW w \in Worker, NEW f \in pending[w], f.kind = "forced"
                 PROVE  LET objs == cacheObjs[From(w)]
                            new  == cacheRefs[From(w)][f.ref]
                        IN /\ ~job[w].force => {new, f.tip} \subseteq objs
                           /\ \A others \in SUBSET objs :
                                NothingLost(objs, new, f.tip, others \cup {new}) =>
                                  \A c \in Ancestors[f.tip] : Survives(c, new, others)
      BY DEF OverwritesJudged
    <2> DEFINE objs == cacheObjs[From(w)]
               new == cacheRefs[From(w)][f.ref]
    <2>1. new # None /\ (~job[w].force => f.tip \in objs)
      BY DEF LossInv, ForcedKnown, Known, From
    <2>2. From(w) \in Side /\ f.ref \in Ref
      BY OtherSide DEF LossInv, IndInv, TypeOK, Job, Row, From
    <2>3. new \in objs
      BY <2>1, <2>2 DEF LossInv, IndInv, StoresSound
    <2>4. ASSUME NEW others \in SUBSET objs, NothingLost(objs, new, f.tip, others \cup {new})
          PROVE  \A c \in Ancestors[f.tip] : Survives(c, new, others)
      BY <2>4, HarmlessKeeps
    <2>5. QED
      BY <2>1, <2>3, <2>4
  <1>2. QED
    BY <1>1, LossAlways, PTL
=============================================================================
