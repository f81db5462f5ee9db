----------------------------- MODULE MirrorSync -----------------------------
(***************************************************************************)
(* One repository pair as internal/mirror/mirror.go mirrors it: two git    *)
(* hosts whose refs people move at any time, a mirror cache per direction, *)
(* and the concurrent invocations of doMirror, doDeleteRef and             *)
(* doRestoreRef that the webhook, SQS, cron and console entry points start.*)
(*                                                                         *)
(* Each git command is one step, because between two commands anything can *)
(* happen on the hosts.  Triggers come in any order, any number of times   *)
(* and any delay after what caused them: webhook goroutines are unordered, *)
(* SQS redelivers, cron reconciles at will.                                *)
(***************************************************************************)
EXTENDS PushGuard, Naturals, FiniteSets

CONSTANTS
  Ref,            \* full ref names of the repository
  NoRef,          \* EventMeta.Ref = "": a reconcile of the whole repository
  Worker,         \* goroutines that can be inside the mirror at once
  NoWorker,
  Direction,      \* RepoConfig.Direction
  OverrideTo,     \* ref_overrides: the only side each ref may be written on
  Legacy,         \* the side whose provider is named like its type while the other
                  \* side is of that type too, or "none"
  AncestryFaults, \* may `git merge-base` fail to run without the push failing
  Crashes,        \* may the pod be killed
  MaxUserOps,     \* bound: pushes and deletes people make on the hosts
  MaxJobs         \* bound: mirror operations started

Side == {"source", "target"}
Other(s) == IF s = "source" THEN "target" ELSE "source"

ASSUME Setup ==
  /\ NoRef \notin Ref
  /\ NoWorker \notin Worker
  /\ Direction \in {"source-to-target", "target-to-source", "bidirectional"}
  /\ OverrideTo \in [Ref -> Side \cup {"both"}]
  /\ Legacy \in Side \cup {"none"}
  /\ AncestryFaults \in BOOLEAN
  /\ Crashes \in BOOLEAN
  /\ MaxUserOps \in Nat
  /\ MaxJobs \in Nat

VARIABLES
  refs,       \* refs[s][r]: tip of r on host s
  cached,     \* cached[s]: isGitDir of the cache fetched from s
  cacheRefs,  \* cacheRefs[s][r]: tip of r in that cache
  cacheObjs,  \* commits that cache stores
  lock,       \* the per-repo mutex
  pc, job,    \* where each worker is, and what it was asked
  specs,      \* pushPlan.Specs not pushed yet
  pending,    \* what the history row of the operation in flight will say
  history,    \* rows recorded, cut down to the tips they name
  started,
  \* What has happened outside, for the properties only:
  everHad,    \* everHad[s]: commits host s has ever stored
  deletedAt,  \* deletedAt[s]: refs ever deleted on host s
  asked,      \* overwrites a person asked for
  discarded,  \* tips the mirror took off a host
  userOps

hostVars  == <<refs, everHad, deletedAt>>
cacheVars == <<cached, cacheRefs, cacheObjs>>
jobVars   == <<pc, job, specs, pending>>
userVars  == <<asked, userOps>>
vars == <<hostVars, cacheVars, lock, jobVars, history, started, userVars, discarded>>

Row == [kind : {"held", "forced", "delete"}, to : Side, ref : Ref, tip : Commit]
Ask == [to : Side, ref : Ref, tip : Commit]
Job == [op : {"none", "mirror", "delete", "restore"}, to : Side, ref : Ref \cup {NoRef},
        force : BOOLEAN, tip : Tip]
PushSpec == [ref : Ref, lease : Tip]

Task(op, to, r) == [op |-> op, to |-> to, ref |-> r, force |-> FALSE, tip |-> None]
NoJob == Task("none", "source", NoRef)

-----------------------------------------------------------------------------
(* What the configuration lets the mirror write.                           *)

\* allowsSourceToTarget, allowsTargetToSource
DirectionAllows(to) ==
  \/ Direction = "bidirectional"
  \/ Direction = "source-to-target" /\ to = "target"
  \/ Direction = "target-to-source" /\ to = "source"

\* MatchRefOverride against this direction; refOverrideBlocksDelete is its negation
OverrideAllows(to, r) == OverrideTo[r] \in {to, "both"}

MayWrite(to, r) == DirectionAllows(to) /\ OverrideAllows(to, r)

\* buildFullRefspecs: a reconcile leaves out what an override forbids
FullRefsUnfiltered(local, to) == {r \in Ref : local[r] # None}  \* mutant
FullRefs(local, to) == {r \in Ref : local[r] # None /\ OverrideAllows(to, r)}

-----------------------------------------------------------------------------
Init ==
  /\ refs \in [Side -> [Ref -> Tip]]
  /\ everHad = [s \in Side |-> Reachable(refs[s])]
  /\ deletedAt = [s \in Side |-> {}]
  /\ cached = [s \in Side |-> FALSE]
  /\ cacheRefs = [s \in Side |-> [r \in Ref |-> None]]
  /\ cacheObjs = [s \in Side |-> {}]
  /\ lock = NoWorker
  /\ pc = [w \in Worker |-> "idle"]
  /\ job = [w \in Worker |-> NoJob]
  /\ specs = [w \in Worker |-> {}]
  /\ pending = [w \in Worker |-> {}]
  /\ history = {}
  /\ started = 0
  /\ asked = {}
  /\ discarded = {}
  /\ userOps = 0

-----------------------------------------------------------------------------
(* The hosts: people push and delete whenever they like.                   *)

UserPush(s, r, c) ==
  /\ userOps < MaxUserOps
  /\ refs[s][r] # c
  /\ refs' = [refs EXCEPT ![s][r] = c]
  /\ everHad' = [everHad EXCEPT ![s] = @ \cup Ancestors[c]]
  /\ userOps' = userOps + 1
  /\ UNCHANGED <<deletedAt, cacheVars, lock, jobVars, history, started, asked, discarded>>

UserDelete(s, r) ==
  /\ userOps < MaxUserOps
  /\ refs[s][r] # None
  /\ refs' = [refs EXCEPT ![s][r] = None]
  /\ deletedAt' = [deletedAt EXCEPT ![s] = @ \cup {r}]
  /\ userOps' = userOps + 1
  /\ UNCHANGED <<everHad, cacheVars, lock, jobVars, history, started, asked, discarded>>

\* The mirror moves ref r of host s to tip t (None deletes it).
HostWrite(s, r, t) ==
  /\ refs' = [refs EXCEPT ![s][r] = t]
  /\ IF t = None
       THEN deletedAt' = [deletedAt EXCEPT ![s] = @ \cup {r}] /\ UNCHANGED everHad
       ELSE everHad' = [everHad EXCEPT ![s] = @ \cup Ancestors[t]] /\ UNCHANGED deletedAt

-----------------------------------------------------------------------------
(* Entry points: a worker takes an operation past its gates.               *)

Begin(w, at, j) ==
  /\ pc[w] = "idle"
  /\ started < MaxJobs
  /\ started' = started + 1
  /\ pc' = [pc EXCEPT ![w] = at]
  /\ job' = [job EXCEPT ![w] = j]
  /\ UNCHANGED <<hostVars, cacheVars, specs, pending, history, userOps, discarded>>

\* Sync, SyncByTarget and Retry, then the override gate at the top of doMirror,
\* which comes before the lock.  r = NoRef is the hourly reconcile.
StartMirror(w, to, r) ==
  /\ DirectionAllows(to)
  /\ r # NoRef => OverrideAllows(to, r)
  /\ Begin(w, "wait", Task("mirror", to, r))
  /\ UNCHANGED <<lock, asked>>

\* Retry with force, or ForcePush: a person names the ref and the tip to discard.
\* The console button asks for a recorded hold (matchingHoldExists); the retry
\* API takes any tip, so any tip is taken here.
StartForce(w, to, r, tip) ==
  /\ DirectionAllows(to)
  /\ OverrideAllows(to, r)
  /\ Begin(w, "wait", [op |-> "mirror", to |-> to, ref |-> r, force |-> TRUE, tip |-> tip])
  /\ asked' = asked \cup {[to |-> to, ref |-> r, tip |-> tip]}
  /\ UNCHANGED lock

\* SyncDelete, SyncDeleteByTarget: the event of a deletion on the other host,
\* however old it is by now.
StartDelete(w, to, r) ==
  /\ r \in deletedAt[Other(to)]
  /\ DirectionAllows(to)
  /\ OverrideAllows(to, r)
  /\ Begin(w, "wait", Task("delete", to, r))
  /\ UNCHANGED <<lock, asked>>

\* restoreHandler's gate (matchingDeleteExists), RestoreRef's gates, and the
\* TryLock of doRestoreRef: a busy repository refuses and nothing happens.
StartRestore(w, to, r, tip) ==
  /\ [kind |-> "delete", to |-> to, ref |-> r, tip |-> tip] \in history
  /\ DirectionAllows(to)
  /\ OverrideAllows(to, r)
  /\ lock = NoWorker
  /\ lock' = w
  /\ Begin(w, "look", [op |-> "restore", to |-> to, ref |-> r, force |-> FALSE, tip |-> tip])
  /\ UNCHANGED asked

AnyTimeLock == TRUE  \* mutant
LockIsFree == lock = NoWorker

From(w) == Other(job[w].to)

\* mirrorDirFor: a direction without a cache takes over the one named by its
\* provider's type.  Where the other provider bears that name, this is its live
\* cache.  Without such a directory, or if the rename fails, nothing is moved;
\* made says that EnsureBareDir then makes one.
MirrorDirFor(s, made) ==
  \/ /\ Legacy = Other(s) /\ ~cached[s] /\ cached[Other(s)]
     /\ cached' = [cached EXCEPT ![s] = TRUE, ![Other(s)] = FALSE]
     /\ cacheRefs' = [cacheRefs EXCEPT ![s] = cacheRefs[Other(s)],
                                       ![Other(s)] = [r \in Ref |-> None]]
     /\ cacheObjs' = [cacheObjs EXCEPT ![s] = cacheObjs[Other(s)], ![Other(s)] = {}]
  \/ /\ cached' = [cached EXCEPT ![s] = @ \/ made]
     /\ UNCHANGED <<cacheRefs, cacheObjs>>

\* mu.Lock() of doMirror and doDeleteRef
Acquire(w) ==
  /\ pc[w] = "wait"
  /\ LockIsFree
  /\ lock' = w
  /\ IF job[w].op = "mirror"
       THEN pc' = [pc EXCEPT ![w] = "fetch"] /\ MirrorDirFor(From(w), FALSE)
       ELSE pc' = [pc EXCEPT ![w] = "check"] /\ UNCHANGED cacheVars
  /\ UNCHANGED <<hostVars, job, specs, pending, history, started, userVars, discarded>>

\* Return from the operation: defer mu.Unlock(), with these rows recorded.
Return(w, rows) ==
  /\ pc' = [pc EXCEPT ![w] = "idle"]
  /\ job' = [job EXCEPT ![w] = NoJob]
  /\ specs' = [specs EXCEPT ![w] = {}]
  /\ pending' = [pending EXCEPT ![w] = {}]
  /\ lock' = IF lock = w THEN NoWorker ELSE lock
  /\ history' = history \cup rows
  /\ UNCHANGED <<started, userVars>>

-----------------------------------------------------------------------------
(* doMirror *)

\* ensureMirror succeeds.  An incremental fetch keeps what the cache had; a
\* clone, or a fetch whose gc pruned everything unreachable, keeps only what
\* the refs reach.  A gc that prunes some is between the two.
Fetch(w) ==
  LET s == From(w) IN
  /\ pc[w] = "fetch"
  /\ pc' = [pc EXCEPT ![w] = "plan"]
  /\ cached' = [cached EXCEPT ![s] = TRUE]
  /\ cacheRefs' = [cacheRefs EXCEPT ![s] = refs[s]]
  /\ \/ cacheObjs' = [cacheObjs EXCEPT ![s] = @ \cup Reachable(refs[s])]
     \/ cacheObjs' = [cacheObjs EXCEPT ![s] = Reachable(refs[s])]
  /\ UNCHANGED <<hostVars, lock, job, specs, pending, history, started, userVars, discarded>>

\* ensureMirror fails: the fetch got part of the way and the fallback clone did
\* not succeed, or the clone was cut between RemoveAll and Rename.
FetchFails(w) ==
  LET s == From(w) IN
  /\ pc[w] = "fetch"
  /\ cached[s]
  /\ \/ \E updated \in SUBSET Ref :
          /\ cacheRefs' = [cacheRefs EXCEPT ![s] =
                             [r \in Ref |-> IF r \in updated THEN refs[s][r] ELSE @[r]]]
          /\ cacheObjs' = [cacheObjs EXCEPT ![s] = @ \cup Reachable(refs[s])]
          /\ UNCHANGED cached
     \/ /\ cached' = [cached EXCEPT ![s] = FALSE]
        /\ cacheRefs' = [cacheRefs EXCEPT ![s] = [r \in Ref |-> None]]
        /\ cacheObjs' = [cacheObjs EXCEPT ![s] = {}]
  /\ Return(w, {})
  /\ UNCHANGED <<hostVars, discarded>>

WantEverything(local, to, r) == FullRefs(local, to)  \* mutant
\* resolveRefs
Wanted(local, to, r) ==
  IF r = NoRef THEN FullRefs(local, to)
  ELSE {x \in {r} : local[x] # None}

\* resolveRefs and planPush: the local tips are those just fetched, the
\* destination is read once, and each wanted ref is judged.
Plan(w) ==
  LET to   == job[w].to
      src  == cacheRefs[From(w)]
      objs == cacheObjs[From(w)]
      dst  == refs[to]
      want == Wanted(src, to, job[w].ref)
  IN
  /\ pc[w] = "plan"
  /\ \E unsure \in IF AncestryFaults THEN SUBSET Ref ELSE {{}} :
       LET differ == {r \in want : job[w].force \/ dst[r] # src[r]}
           kept   == {r \in differ : /\ ~job[w].force
                                     /\ Withhold(objs, src[r], dst[r], r \in unsure)}
           holds  == {[kind |-> "held", to |-> to, ref |-> r, tip |-> dst[r]] : r \in kept}
           pushes == {[ref |-> r, lease |-> LeaseFor(job[w].force, job[w].tip, dst[r])]
                        : r \in differ \ kept}
       IN IF pushes = {}
            THEN Return(w, holds)
            ELSE /\ pc' = [pc EXCEPT ![w] = "push"]
                 /\ specs' = [specs EXCEPT ![w] = pushes]
                 /\ pending' = [pending EXCEPT ![w] = holds]
                 /\ UNCHANGED <<lock, job, history, started, userVars>>
  /\ UNCHANGED <<hostVars, cacheVars, discarded>>

\* One ref of a push: `ref:ref` under its own lease, no '+'.  git sends whatever
\* the local ref is now.  A ref already there is left alone before the lease is
\* looked at; a stale lease is the guard working and ends nothing.
PushRef(w, s) ==
  LET to  == job[w].to
      new == cacheRefs[From(w)][s.ref]
      old == refs[to][s.ref]
      lost == IF NonFastForward(old, new)
                THEN {[kind |-> "forced", to |-> to, ref |-> s.ref, tip |-> old]} ELSE {}
  IN
  /\ pc[w] = "push"
  /\ s \in specs[w]
  /\ specs' = [specs EXCEPT ![w] = @ \ {s}]
  /\ IF new # None /\ old # new /\ LeaseHolds(old, s.lease)
       THEN /\ HostWrite(to, s.ref, new)
            /\ pending' = [pending EXCEPT ![w] = @ \cup lost]
            /\ discarded' = discarded \cup lost
       ELSE UNCHANGED <<hostVars, pending, discarded>>
  /\ UNCHANGED <<cacheVars, lock, pc, job, history, started, userVars>>

\* Every ref pushed or refused as stale: the row carries Held and Forced.
PushDone(w) ==
  /\ pc[w] = "push"
  /\ specs[w] = {}
  /\ Return(w, pending[w])
  /\ UNCHANGED <<hostVars, cacheVars, discarded>>

\* The push errors: the deadline, a later batch, or a refusal that is not the
\* lease.  runPush and PushMirror drop the result, so only Held is recorded.
PushFails(w) ==
  /\ pc[w] = "push"
  /\ Return(w, {p \in pending[w] : p.kind = "held"})
  /\ UNCHANGED <<hostVars, cacheVars, discarded>>

-----------------------------------------------------------------------------
(* doDeleteRef *)

\* remoteRefTip: an absent ref ends the echo, a present one is remembered.
CheckTip(w) ==
  LET to == job[w].to
      r  == job[w].ref
  IN
  /\ pc[w] = "check"
  /\ IF refs[to][r] = None
       THEN Return(w, {})
       ELSE /\ pc' = [pc EXCEPT ![w] = "delete"]
            /\ pending' = [pending EXCEPT ![w] =
                 {[kind |-> "delete", to |-> to, ref |-> r, tip |-> refs[to][r]]}]
            /\ UNCHANGED <<lock, job, specs, history, started, userVars>>
  /\ UNCHANGED <<hostVars, cacheVars, discarded>>

\* DeleteRef is `push :ref` with no lease: it takes whatever is there.  The row
\* is recorded after a success; a command killed after its effect records none.
DeleteRef(w) ==
  LET to  == job[w].to
      r   == job[w].ref
      old == refs[to][r]
  IN
  /\ pc[w] = "delete"
  /\ old # None
  /\ HostWrite(to, r, None)
  /\ discarded' = discarded \cup {[kind |-> "delete", to |-> to, ref |-> r, tip |-> old]}
  /\ \/ Return(w, pending[w])
     \/ Return(w, {})
  /\ UNCHANGED cacheVars

-----------------------------------------------------------------------------
(* doRestoreRef, under the lock from its start *)

\* Only a hole is filled: the tip being there again, or another one, ends it.
\* Before the object is looked for, the cache is located and made a repository.
RestoreLook(w) ==
  /\ pc[w] = "look"
  /\ IF refs[job[w].to][job[w].ref] = None
       THEN /\ pc' = [pc EXCEPT ![w] = "object"]
            /\ MirrorDirFor(From(w), TRUE)
            /\ UNCHANGED <<lock, job, specs, pending, history, started, userVars>>
       ELSE Return(w, {}) /\ UNCHANGED cacheVars
  /\ UNCHANGED <<hostVars, discarded>>

\* HasObject, or a fetch of the commit by name from the other host, which answers
\* only if it has the commit.
RestoreObject(w) ==
  LET s == From(w)
      c == job[w].tip
  IN
  /\ pc[w] = "object"
  /\ c \in cacheObjs[s] \cup everHad[s]
  /\ cacheObjs' = [cacheObjs EXCEPT ![s] = @ \cup Ancestors[c]]
  /\ pc' = [pc EXCEPT ![w] = "create"]
  /\ UNCHANGED <<hostVars, cached, cacheRefs, lock, job, specs, pending, history, started,
                 userVars, discarded>>

\* CreateRef pushes under the empty lease; it may land and still report failure,
\* which leaves the same state.
RestoreCreate(w) ==
  LET to == job[w].to
      r  == job[w].ref
  IN
  /\ pc[w] = "create"
  /\ IF LeaseHolds(refs[to][r], None)
       THEN HostWrite(to, r, job[w].tip)
       ELSE UNCHANGED hostVars
  /\ Return(w, {})
  /\ UNCHANGED <<cacheVars, discarded>>

-----------------------------------------------------------------------------
(* Any step can fail before it has an effect: the remote, the deadline, the  *)
(* destination refusing.  Nothing but a fail row is left.                    *)
Fails(w) ==
  /\ pc[w] \in {"fetch", "plan", "check", "delete", "look", "object", "create"}
  /\ Return(w, {})
  /\ UNCHANGED <<hostVars, cacheVars, discarded>>

\* The pod is killed: the lock and every operation in flight are gone, the
\* hosts, the cache volume and the history file are not.
Crash ==
  /\ Crashes
  /\ \E w \in Worker : pc[w] # "idle"
  /\ pc' = [w \in Worker |-> "idle"]
  /\ job' = [w \in Worker |-> NoJob]
  /\ specs' = [w \in Worker |-> {}]
  /\ pending' = [w \in Worker |-> {}]
  /\ lock' = NoWorker
  /\ UNCHANGED <<hostVars, cacheVars, history, started, userVars, discarded>>

-----------------------------------------------------------------------------
User == \E s \in Side, r \in Ref :
          \/ UserDelete(s, r)
          \/ \E c \in Commit : UserPush(s, r, c)

Start(w) == \E to \in Side :
  \/ \E r \in Ref \cup {NoRef} : StartMirror(w, to, r)
  \/ \E r \in Ref : StartDelete(w, to, r)
  \/ \E r \in Ref, c \in Commit : StartForce(w, to, r, c) \/ StartRestore(w, to, r, c)

Step(w) ==
  \/ Acquire(w)
  \/ Fetch(w)
  \/ FetchFails(w)
  \/ Plan(w)
  \/ \E s \in specs[w] : PushRef(w, s)
  \/ PushDone(w)
  \/ PushFails(w)
  \/ CheckTip(w)
  \/ DeleteRef(w)
  \/ RestoreLook(w)
  \/ RestoreObject(w)
  \/ RestoreCreate(w)
  \/ Fails(w)

Next == User \/ Crash \/ \E w \in Worker : Start(w) \/ Step(w)

Spec == Init /\ [][Next]_vars
=============================================================================
