---------------------------- MODULE MirrorSafety ----------------------------
(***************************************************************************)
(* What MirrorSync is checked and proved to satisfy.                       *)
(***************************************************************************)
EXTENDS MirrorSync

Phase == {"idle", "wait", "fetch", "plan", "push", "check", "delete",
          "look", "object", "create"}

\* The type invariant: every variable of mirror.go's model keeps its shape.
TypeOK ==
  /\ refs \in [Side -> [Ref -> Tip]]
  /\ cached \in [Side -> BOOLEAN]
  /\ cacheRefs \in [Side -> [Ref -> Tip]]
  /\ cacheObjs \in [Side -> SUBSET Commit]
  /\ lock \in Worker \cup {NoWorker}
  /\ pc \in [Worker -> Phase]
  /\ job \in [Worker -> Job]
  /\ specs \in [Worker -> SUBSET PushSpec]
  /\ pending \in [Worker -> SUBSET Row]
  /\ history \in SUBSET Row
  /\ started \in Nat
  /\ everHad \in [Side -> SUBSET Commit]
  /\ deletedAt \in [Side -> SUBSET Ref]
  /\ asked \in SUBSET Ask
  /\ discarded \in SUBSET Row
  /\ userOps \in Nat

-----------------------------------------------------------------------------
\* What planPush decided is still true of the cache when the push sends
\* `ref:ref`: for every spec not sent yet, the local tip is there, and the tip
\* named in the lease is one this side holds and that does not contain it.  The
\* refspec names no commit, so this is what the per-repo mutex is for: a fetch of
\* another worker in between would change what the lease was judged against.
PlanStaysTrue == \A w \in Worker : \A s \in specs[w] :
  LET src == cacheRefs[From(w)][s.ref]
  IN /\ src # None
     /\ ~job[w].force /\ s.lease # None =>
          /\ s.lease \in cacheObjs[From(w)]
          /\ AncestryFaults \/ ~IsAncestor(src, s.lease)

\* What the proofs need to know of a reachable state, besides TypeOK.

\* Whoever is past mu.Lock() holds the mutex, on an operation of the right kind.
LockDiscipline == \A w \in Worker :
  /\ pc[w] \notin {"idle", "wait"} => lock = w
  /\ pc[w] \in {"fetch", "plan", "push"} => job[w].op = "mirror"
  /\ pc[w] \in {"check", "delete"} => job[w].op = "delete"
  /\ pc[w] \in {"look", "object", "create"} => job[w].op = "restore"
  /\ pc[w] = "wait" => job[w].op \in {"mirror", "delete"}
  /\ pc[w] # "push" => specs[w] = {}

\* An operation under way passed its gates, and its cause is on record.
JobAllowed == \A w \in Worker : pc[w] # "idle" =>
  /\ DirectionAllows(job[w].to)
  /\ job[w].ref \in Ref => OverrideAllows(job[w].to, job[w].ref)
  /\ job[w].op \in {"delete", "restore"} \/ job[w].force => job[w].ref \in Ref
  /\ job[w].force =>
       [to |-> job[w].to, ref |-> job[w].ref, tip |-> job[w].tip] \in asked
  /\ job[w].op = "delete" => job[w].ref \in deletedAt[Other(job[w].to)]
  /\ job[w].op = "restore" =>
       [kind |-> "delete", to |-> job[w].to, ref |-> job[w].ref, tip |-> job[w].tip]
          \in history

\* The cache fetched from s never held another host's commits (see MirrorDirFor).
OwnCache(s) == Legacy # Other(s)

\* A host keeps the history of what it has; a cache holds only what its host had,
\* unless it may have been the other direction's.
StoresSound == \A s \in Side :
  /\ Closed(everHad[s])
  /\ OwnCache(s) => cacheObjs[s] \subseteq everHad[s]
  /\ \A r \in Ref : /\ refs[s][r] # None => refs[s][r] \in everHad[s]
                    /\ cacheRefs[s][r] # None => cacheRefs[s][r] \in cacheObjs[s]

\* A planned push stays within what its operation may write.
SpecsAllowed == \A w \in Worker : \A s \in specs[w] :
  /\ MayWrite(job[w].to, s.ref)
  /\ job[w].ref # NoRef => s.ref = job[w].ref
  /\ job[w].force => s.lease = job[w].tip

\* A restore about to create its ref has found the commit on the other host.
RestoreReady == \A w \in Worker : pc[w] = "create" =>
  /\ job[w].tip # None
  /\ OwnCache(From(w)) => job[w].tip \in everHad[From(w)]

\* What doMirror pushes is what the other host had when it was fetched, even where
\* the cache was taken over from the other direction.
FetchedTips == \A w \in Worker : pc[w] \in {"plan", "push"} =>
  \A r \in Ref : cacheRefs[From(w)][r] # None =>
    cacheRefs[From(w)][r] \in everHad[From(w)]

\* Held, Forced and DeletedTip name tips their destination has had.
RowsTrue ==
  /\ \A row \in history : row.tip \in everHad[row.to]
  /\ \A w \in Worker : \A row \in pending[w] : row.tip \in everHad[row.to]

IndInv ==
  /\ TypeOK
  /\ LockDiscipline
  /\ JobAllowed
  /\ StoresSound
  /\ SpecsAllowed
  /\ PlanStaysTrue
  /\ RestoreReady
  /\ FetchedTips
  /\ RowsTrue

-----------------------------------------------------------------------------
\* The ref s/r is being changed by the mirror, not by a person.
MirrorChanges(s, r) == userOps' = userOps /\ refs'[s][r] # refs[s][r]

GuardedStep == \A s \in Side, r \in Ref :
  LET old == refs[s][r]
      new == refs'[s][r]
  IN MirrorChanges(s, r) /\ old # None /\ new # None =>
       \/ /\ OwnCache(Other(s)) => old \in everHad[Other(s)]
          /\ AncestryFaults \/ ~IsAncestor(new, old)
       \/ [to |-> s, ref |-> r, tip |-> old] \in asked

\* The 2026-08-11 loss (planPush, PushSpec): a push nobody forced never replaces
\* a tip the pushing side has not had, and never one that already contains what
\* is pushed, whatever lands on either host between the fetch, the check and the
\* push.  A forced one replaces only the tip the person was shown.  A cache taken
\* over from the other direction (MirrorDirFor) may vouch for commits the pushing
\* side never had, and a `git merge-base` that did not run lets a rewind through;
\* each takes away its own half of the guard and no more.
NoBlindOverwrite == [][GuardedStep]_vars

ScopedStep == \A s \in Side, r \in Ref : MirrorChanges(s, r) =>
  /\ lock # NoWorker
  /\ job[lock].to = s
  /\ \/ job[lock].ref = r
     \/ job[lock].ref = NoRef /\ job[lock].op = "mirror" /\ refs'[s][r] # None

\* The 2026-08-10 loss (resolveRefs): the mirror changes nothing but the ref its
\* event named, on the side the event is sent to.  Only a reconcile, which names
\* none, may touch every ref, and it never deletes.
EventScope == [][ScopedStep]_vars

AllowedStep == \A s \in Side, r \in Ref : MirrorChanges(s, r) =>
  /\ OverrideTo[r] \in {s, "both"}
  /\ Direction # IF s = "source" THEN "source-to-target" ELSE "target-to-source"

\* A ref pinned by a ref_override, and every ref of a one-way repository, is never
\* written on its authoritative side: not by an event, a reconcile, a forced push,
\* a propagated delete or a restore (doMirror, buildFullRefspecs,
\* refOverrideBlocksDelete, RestoreRef).
AuthoritativeSideKept == [][AllowedStep]_vars

HoleFillingStep == \A s \in Side, r \in Ref :
  MirrorChanges(s, r) /\ lock # NoWorker /\ job[lock].op = "restore" =>
    /\ refs[s][r] = None
    /\ [kind |-> "delete", to |-> s, ref |-> r, tip |-> refs'[s][r]] \in history

\* A restore only fills a hole it can still see, with the tip a recorded delete
\* removed, even if someone re-creates the ref after doRestoreRef looked.
RestoreFillsHole == [][HoleFillingStep]_vars

\* The mirror implements its contract on the two hosts.
Contract == INSTANCE MirrorContract WITH
  Writable <- {p \in Side \X Ref : MayWrite(p[1], p[2])},
  Unsure <- AncestryFaults,
  Blind <- {s \in Side : ~OwnCache(Other(s))}
ImplementsContract == Contract!Spec

-----------------------------------------------------------------------------
(* What the documentation says and the code does not do.                   *)

\* history.go: "DeletedTip is the tip a delete removed".
DeletedTipWasRemoved == \A row \in history : row.kind = "delete" => row \in discarded

\* README: the tip of a deleted ref is written to the history before the delete
\* runs.
DeletedTipOnRecord == \A row \in discarded : row.kind = "delete" => row \in history

\* retry-api.md and README: an overwrite that discards commits is recorded.
ForcedOnRecord ==
  (\A w \in Worker : pc[w] = "idle") =>
    \A row \in discarded : row.kind = "forced" => row \in history
=============================================================================
