# git-bridge in TLA+

git-bridge keeps the two sides of a repository pair equal: two git hosts (GitLab,
GitHub, CodeCommit) that people push to at any time, and one Go process between
them. This directory holds TLA+ models of it, the TLC configurations that check
them on small instances, and TLAPS proofs of their safety for every instance. All
paths below are relative to the repository.

- [The system](#the-system): inventory
- [The modules](#the-modules): how state and actions correspond to the code
- [The runs](#the-runs): what is checked, bounds, fairness
- [The proofs](#the-proofs)
- [Disagreements found](#disagreements-between-code-and-documentation)
- [What no property forbids](#what-no-property-forbids)
- [What is not modelled](#what-is-not-modelled)
- [Plan](#plan)

## The system

| Part | State it keeps | Operations | Talks to |
|---|---|---|---|
| **Mirror service** `internal/mirror/mirror.go` | a mutex per repository; on disk one bare cache per (repository, provider fetched from) | `Sync`, `SyncByTarget`, `Retry`, `ForcePush` (all `doMirror`); `SyncDelete`, `SyncDeleteByTarget` (`doDeleteRef`); `RestoreRef` (`doRestoreRef`) | git on both hosts, history, Slack |
| **Configuration** `internal/config` | read once, immutable | `Load`/`validate`, `HostResolver`, `MatchRefOverride` | everything |
| **Webhook** `internal/consumer/webhook.go` | none | answer 200, detach a sync or a delete | task group, mirror |
| **Retry API** `internal/consumer/retry.go` | none | answer 202, detach a retry, a reconcile (cron) or a forced push | task group, mirror |
| **SQS consumer** `internal/consumer/sqs.go` | the batch in hand | poll, handle serially, delete on success | queue, mirror |
| **Console** `internal/server/console.go` | none | history rows; re-run and force (detached), restore (inside the request) | history, task group, mirror |
| **Task group** `internal/task` | number of syncs in flight | `Go`, `Wait`, `WaitAll` with a timeout | main |
| **main** `cmd/git-bridge/main.go` | two contexts: serving and working | start; SIGTERM: stop serving, drain, stop working, exit | all |
| **History** `internal/history` | `events.jsonl`, `events.jsonl.1`, a ring of the newest rows | `New`, `Record` (with `rotate`), `Close`, queries | mirror writes, console reads |
| **Public server** `internal/server/health.go`, **askpass**, **providers**, **notify**, **version** | none | routes; credentials; URLs; one Slack post | |

### What is hard about it

*Concurrency.* Handlers detach their sync and answer; the goroutines queue on a
Go mutex in no particular order. The mutex covers one process and one repository,
never the hosts: between any two git commands people push and delete.

*Ordering and delivery.* Every write the mirror makes produces an event of its
own (the echo). Webhooks are never retried and may be arbitrarily late; SQS
delivers at least once; an hourly cron reconciles whole repositories. An event
only names a ref: what is pushed is whatever the cache fetched when its turn came.

*Failure.* Every git command has a deadline and may be killed after its effect. A
push has one lease per ref and may land on some refs only. Fetches and clones can
leave the cache half way. The pod is killed, the cache volume survives.

*Shutdown.* A drain with a bound, over work that is counted in two groups and
some that is in neither.

### What makes each component correct

- Mirror: a push nobody forced discards nothing its side never had (the loss of
  2026-08-11 in `planPush`'s comments), an event touches only the ref it names
  (2026-08-10), pinned refs and one-way repositories are never written on their
  authoritative side, a restore only fills a hole, a delete follows a delete.
- Convergence: when people stop, the two sides become equal, or what keeps them
  apart is on record where a person can decide it.
- History: the console shows the newest rows; the disk is bounded; a kill costs
  little; what a delete or an overwrite discarded is on record; an overwrite
  judged harmless lost nothing. A button the console draws passes its gate.
- SQS and shutdown: acknowledged only after the sync; nothing sent is forgotten;
  a drained pod has finished what it began; a shutdown ends.
- Dispatch: an event runs the repository that has its endpoint, in the direction
  away from it; a row's button writes the side the row wrote.

`PROJECT.json` lists the hazards of the code one by one, each at its line, with
the properties that would catch it, or the reason why none does (see also
[What no property forbids](#what-no-property-forbids)).

## The modules

An arrow reads "is extended by"; modules in brackets are checked by TLC, those in
braces hold proofs.

```
GitObjects ─> PushGuard ─> MirrorSync ─> MirrorSafety ─> [MCMirrorSync] {MirrorProofs}
                           MirrorSync ─> ForcedLoss   ─> [MCMirrorSync] {ForcedProofs}
              PushGuard ─> Convergence                ─> [MCConvergence]
                           Convergence ─> ConvergenceContract ─> {ConvergenceProofs}
GitObjects ─> MirrorContract     (an INSTANCE of it in MirrorSafety and in ConvergenceContract)
HistoryWriter ─> ConsoleGate                          ─> [MCHistory] {RingProofs}
HistoryWriter                                         ─> {HistoryProofs} ─> {KillProofs} ─> {RingProofs}
Delivery                         (an INSTANCE of it in Lifecycle)
Lifecycle                                             ─> [MCLifecycle] {LifecycleProofs}
Dispatch                                              ─> [MCDispatch] {DispatchProofs}
```

`ForcedProofs` extends `MirrorProofs` as well.

### GitObjects
The part of git the mirror's decisions rest on: a fixed commit graph as the set of
ancestors of each commit, what a ref tip, an object store and a
`--force-with-lease` are. External, and modelled from how mirror.go drives git.

### PushGuard
What `planPush` decides of one ref: withhold it or not, and under which lease. No
step; MirrorSync and Convergence take theirs by it.

### MirrorSync
One repository pair. `refs` are the tips on the two hosts; `cached`, `cacheRefs`
and `cacheObjs` the bare cache of each direction (`repo-provider.git`); `lock` the
per-repo mutex; `pc`, `job`, `specs` and `pending` the goroutines inside
`doMirror`, `doDeleteRef` and `doRestoreRef`; `history` the rows, cut down to the
tips they name. `everHad`, `deletedAt`, `asked` and `discarded` record what has
happened outside and are read by guards of the environment (an event of a deletion
exists once there was one) and by properties, never by a decision of the code.

| Action | Code |
|---|---|
| `UserPush`, `UserDelete` | people on a host |
| `StartMirror` | `Sync`, `SyncByTarget`, `Retry`: direction gate, then the override gate of `doMirror`, before the lock. No ref = reconcile |
| `StartForce` | a forced retry, `ForcePush` |
| `StartDelete` | `SyncDelete`, `SyncDeleteByTarget`, `refOverrideBlocksDelete` |
| `StartRestore` | the console's gate, `RestoreRef`, `TryLock` |
| `Acquire` | `mu.Lock()`, then `mirrorDirFor`: where the cache is, and whether one is taken over |
| `Fetch`, `FetchFails` | `ensureMirror`: fetch, gc, clone; part-way failures |
| `Plan` | `resolveRefs` and `planPush`: wanted refs, withheld refs, leases |
| `PushRef` | one ref of `git push --force-with-lease` (a push is not atomic) |
| `PushDone`, `PushFails` | the rest of `doMirror`; the error path, which drops the result |
| `CheckTip`, `DeleteRef` | `doDeleteRef` |
| `RestoreLook`, `RestoreObject`, `RestoreCreate` | `doRestoreRef`, with its own call of `mirrorDirFor` |
| `Fails`, `Crash` | any step failing without an effect; the pod killed |

Each git command is one step, so anything may happen between two. Triggers are
enabled at any time and any number of times (up to `MaxJobs`): every reordering,
duplication or delay of webhooks, redelivery by SQS and reconcile is among the
behaviours. A commit is opaque; `IsAncestor` failing to run is
`AncestryFaults` (the code reads it as "no").

`Legacy` is the configuration in which the one-time rename of `mirrorDirFor` is
dangerous: both sides have one provider type and one of the providers is named like
it, so the "old, type-named" cache the other direction looks for is that provider's
live one. `Legacy = "none"` is every other configuration.

### ForcedLoss
What `classifyForced` says of an overwrite afterwards, over the state of MirrorSync:
`UnmatchedCommits` compares the commits each side alone reaches by content
(`ContentOf`, for `git patch-id`; an empty diff has none, a merge never matches), and
gives no answer if a tip is missing or the range is too long. It adds no step.

### Convergence
One branch of a bidirectional pair, and causes: every move of a host, by a person or
by the mirror, puts an event in that host's `queue`; a sync starts because an event is
taken, the cron comes round (`Reconcile`) or a person presses the button of a hold
(`Press`). `op` is the operation that holds the mutex, so `Fetch`, `Plan`, `Push`,
`Delete` are the steps of one at a time while the hosts keep moving. `held` are the
hold rows, kept for ever (the ring's end is ConsoleGate's). `Lose`, `OpFails` and
`Kill` are the faults: nobody sends a webhook again. An event names the ref and no
commit. Neither tags nor restores, and no `ref_override`: MirrorSync has those.

### MirrorContract
What is promised about the two hosts with none of the machinery: a ref changes by
a person, or by the mirror where the configuration lets it write, to a commit the
other host has had, over nothing, over a tip the other host has had and that does
not contain the new one, or over exactly the tip a person asked to overwrite; or
it is dropped because it was deleted on the other host. `MirrorSafety!Contract`
instantiates it; the mapping is the identity on `refs`, `everHad`, `deletedAt`,
`asked`, `userOps`, and `Writable` is the configuration. Two parameters say by how
much the code can fall short: `Unsure` (a `merge-base` that fails is read as "no":
`AncestryFaults`) gives up "does not contain the new one", `Blind` (the sides written
from a cache that was taken over: `Legacy`) gives up "the other host has had" for the
tip replaced. Neither gives up where the new commit comes from, the configuration, or
the cause a delete needs.

### ConvergenceContract
The same contract over Convergence. It remembers what the contract speaks of (which
commits a host has had, whether the branch was ever deleted on it, what a person asked
for) in history variables that `Observe` computes from each step, and instantiates
MirrorContract with `Unsure` FALSE and no `Blind` side.

### MirrorSafety, MirrorProofs, ForcedProofs
The properties of MirrorSync and their proofs; the proof of ForcedLoss's.

### HistoryWriter
`live` and `old` are the two files as sequences of writes (row, position, length,
bytes that arrived), `ring` the in-memory tail, `sink` whether rows reach a file,
memory alone or nothing. `Record` (one step, one mutex) pushes to the ring,
rotates when the row would cross the limit, writes; with `DiskFaults` renames,
reopens and writes fail. `Killed` is SIGKILL inside `Record`: before
the rename of a rotation, after it, or in the write. `Start` is `New` with
`tail`; `Parses` is what the scanner and `json.Unmarshal` can still read of lines
that were cut or glued together. `misses` counts the rotations whose rename failed
and is read by no decision.

### ConsoleGate
What the console makes of the ring: `Recent` with its filters, the page
`historyHandler` renders, and the window `gateQuery` gives `matchingDeleteExists` and
`matchingHoldExists`. `KindOf` says what each row is (repository, trigger, what it
deleted or withheld, whether it is an idle reconcile). Reads only: no step.

### Lifecycle
`phase` is main (`stopServing`, `WaitAll`, `stopWork`), `listening` the two HTTP
servers, `req` and `tasks` the requests and `task.Group`, `consumer` and `batch`
the SQS loop, `queue` and `received` the queue. `waited` is that `tasks.Wait` has
returned, which it does once: what is detached later is not waited for.
`ListenerReturns` is `ListenAndServe` returning as soon as `Shutdown` begins,
handlers or not. What a sync does to a repository is MirrorSync.

### Delivery
What queue and consumer promise about each event between them, with no pod, batch,
timeout or signal: it is handed over at most `MaxReceives` times, each hand-over is tried
at most once or lost, it is done only after a try that synced it or found it malformed,
and given up only after its last hand-over. `Lifecycle!Contract` instantiates it: `fate`
is `queue` with visible and hidden taken together, `tries` is `received`, `inHand` the
batch.

### Dispatch
The list of repositories `validate` accepts grows one `Configure` at a time, then
one event at a time is looked up: `Webhook` (instance host, then `SyncByTarget`),
`SQS` (`Sync`), `Row` (`endpoint`, `endpointMatches`, `endpointAmbiguous`, in the
notation of today or of old rows), `Retry` (`resolveAutoDirection`,
`directionAllowed`). `SyncDelete` and `SyncDeleteByTarget` look up the same way.
`Sources` is all an SQS event is found by: the source path, no provider.
Names and types are values of one kind, as strings are in the code, so a provider
may be named like a type.

## The runs

| Run | Bounds | Shows |
|---|---|---|
| `mirror_races` | 1 ref, 2 workers, root with two children, 2 user operations, 2 jobs, crashes | `TypeOK`, `PlanStaysTrue`, `OverwritesJudged`, `NoBlindOverwrite`, `RestoreFillsHole`, `ImplementsContract` |
| `mirror_scope` | 2 refs, one pinned, 1 worker, 2 commits, 1 user operation, 2 jobs, crashes, `Legacy = "target"`, failing comparisons | `IndInv`, `NoBlindOverwrite`, `EventScope`, `AuthoritativeSideKept`, `ImplementsContract` |
| `settles` | root with two children, 2 acts of people, 1 fault, events in any order, reconcile | `TypeOK`, `NothingForgotten`, `Settles` |
| `history_kept` | rows of 1 or 2 units, files of 5, a tail window of 4, ring of 3, 5 rows, 3 starts, disk faults, pages and gates of 2 | `TypeOK`, `ConsoleShowsNewest`, `ConsoleSkipsNothing`, `DiskBounded`, `KillCostsTwoRows`, `ButtonsWork` |
| `shutdown_drain` | one detached request, one restore, two messages (one malformed), 2 receives, one stop or kill | `TypeOK`, `AckedMeansSynced`, `DrainedStartedWork`, `ImplementsDelivery`, `ShutdownEnds`, `EventsEnd` |
| `dispatch_owner` | 2 repositories over 3 GitLab instances and one CodeCommit, 2 paths | `TypeOK`, `NarrowedToSender`, `ReachesOwner`, `SQSReachesOwner`, `RowWritesItsSide`, `AutoRetryRuns` |
| `echo_loop` | 2 commits, 2 acts of people, no fault, events in order, no reconcile | the disagreement below |
| `deleted_tip_race`, `forced_lost`, `history_restart`, `shutdown_quiet`, `dispatch_key` | the same instances | the disagreements below |

*Why the bounds are enough to mean something.* Every race the mirror guards
against needs at most two operations and a person between them: a late echo
against a newer push, a fetch against a plan, a delete against a re-creation, a
restore against a push. The fork has all relations two tips can have (equal,
ancestor, descendant, unrelated). Scope needs two refs, not two workers: the
proofs cover both together, for any number. `Init` is every pair of host states, so
divergence does not have to be produced step by step. Two
acts of people make every conflict of `settles`: two pushes that diverge, a push and a
delete, a push and a forced overwrite; `MaxQueue` only keeps a reconcile from piling up
echoes without end. In `mirror_races` one child of the root carries the content of the
other, as after a rebase, so that an overwrite can be harmless, and every set of
branches the cache may have besides is tried. Five rows over a file of five units make
every rotation position, two rotations included; a file holds more than the tail window
and more rows than the ring, so that `tail` has something to leave out; the ring of three
is longer than the two rows a page or a gate reaches. Two messages fill a
batch of two, so the second waits while the first is synced. Two repositories are
what a lookup by first match can confuse.
`mirror_scope` is where `NoBlindOverwrite` and the contract meet a cache taken over and a
`merge-base` that fails; `mirror_races` has neither, so there both are the strict ones.
Both runs are of a bidirectional repository: what `AuthoritativeSideKept` says of a
one-way one rests on the theorem `Authority`.
`KeepsContract` is in no run: its history variables more than double the states of
`settles`. It and `HistoryInv` were checked once on the constants of that run, under
`HistorySpec` (533 730 states), before they were proved.
`MaxUserOps`, `MaxJobs`, `MaxFaults`, `MaxQueue`, `MaxRows`, `MaxStarts`,
`MaxReceives`, `MaxStops` and `MaxRepos` are the bounds, each a guard; only
`MaxReceives` (the redrive policy) belongs to the system. Deadlock is checked in
`dispatch_owner` and `settles`; in the others the bounded environment really runs out
of things to do.

*Symmetry.* Workers are interchangeable, and so are the two children of the root
(swapping them maps the graph onto itself); paths are in `dispatch_owner`. No run
with a liveness property uses symmetry. The action properties and the refinement
are safety properties that name no particular value of a symmetric set.

*Fairness.* `Lifecycle!FairSpec`: weak fairness of main, the listener and
the consumer's loop: the Go scheduler runs what can run, and `WaitAll`'s timer
fires. Weak fairness of `Handle`: each sync an SQS message starts is bounded by
`withGitTimeout`. None for detached syncs and restores, so `ShutdownEnds` holds
even if they hang. Weak fairness of the visibility timeout and of the redrive
policy, strong fairness of receiving a given message: the queue eventually
delivers a message that keeps being visible to a consumer that keeps asking.
Nothing is assumed of people, stops or kills.

`Convergence!FairSpec`: weak fairness of `Finish`, the operation under way, which
`withGitTimeout` ends. Strong fairness of taking an event of each host: its goroutine
waits for a `sync.Mutex`, which is free again and again and starves nobody (a waiter of
more than a millisecond is handed the lock). Strong fairness of the reconcile of each
direction: the CronJob is external and comes round every hour. People and faults owe
nothing, so `Settles` speaks of what happens once they have stopped.

*What `Settles` allows.* Truly diverged sides stay apart until a person presses one of
the two buttons, both of which are then on record; and a delete that is echoed for ever
(`echo_loop`) is excepted by its own disjunct. Nothing else keeps the sides apart, not
a lost webhook, a kill, a failed or refused push, or events in the wrong order.

*Mutants.* Every property of a passing run is paired in `PROJECT.json` with a
plausible bug of the code (a definition marked `mutant` beside the one it stands
for) under which TLC finds it violated.

## The proofs

Each holds for every value of the constants that satisfies the named assumptions;
nothing else is assumed. Theorems marked * are the inductive invariant itself.

| Module | Theorem | Property |
|---|---|---|
| MirrorProofs | `Invariant`*, `TypeCorrect`, `PlanHolds` | `IndInv`, `TypeOK`, `PlanStaysTrue` |
| | `NoBlind` | `NoBlindOverwrite` |
| | `Scope`, `Authority`, `RestoreSafe` | `EventScope`, `AuthoritativeSideKept`, `RestoreFillsHole` |
| | `Refinement` | `ImplementsContract`: MirrorSync implements MirrorContract |
| ForcedProofs | `LossReported` | `OverwritesJudged` |
| ConvergenceProofs | `TypeCorrect`, `Remembered` | `TypeOK`; `NothingForgotten` |
| | `ExchangeKeepsContract` | `KeepsContract`: Convergence, with its histories, implements MirrorContract |
| | `NoStandoff` | of `Withhold`: both directions withhold only tips that truly diverged |
| HistoryProofs | `Bounded` | `DiskBounded` |
| KillProofs | `KillsCostTwo` | `KillCostsTwoRows` |
| RingProofs | `TypeCorrect`, `Newest`, `NoHole`, `Buttons` | `TypeOK`, `ConsoleShowsNewest`, `ConsoleSkipsNothing`, `ButtonsWork` |
| LifecycleProofs | `TypeCorrect`, `CleanDrain`, `AckedAfterSync` | `TypeOK`, `DrainedStartedWork`, `AckedMeansSynced` |
| | `KeepsDelivery` | `ImplementsDelivery`: Lifecycle implements Delivery |
| DispatchProofs | `TypeCorrect`, `Narrowing`, `OwnerReached`, `SQSOwnerReached`, `RowSide`, `RetryAccepted` | `TypeOK`, `NarrowedToSender`, `ReachesOwner`, `SQSReachesOwner`, `RowWritesItsSide`, `AutoRetryRuns` |

*Assumptions.* `CommitGraph`: ancestry is reflexive, transitive and antisymmetric.
`Setup`: directions and overrides are what `validate` lets through. `ContentSetup`: every
commit has a content. `LifecycleSetup`: finitely many messages, positive limits, and a
request is a restore or is detached, not both. `DispatchSetup`: finitely many providers,
and an instance URL that none of them claims. `HistorySetup`: no row alone is longer than
`maxBytes`. `ConsoleSetup`: every row has a kind, and "no filter" is not itself a value
of one. `ConvergenceSetup`: its flags and bounds have their types. The bounds
(`MaxRows`, `MaxJobs`, ...) are any numbers.

*The mirror.* None of the properties is inductive. That a push discards nothing
unknown is decided in `Plan`, several steps before the push, from what the cache
held then; `PlanStaysTrue` carries the decision to the push, and it survives
because no other worker can fetch in between. So `LockDiscipline` comes first:
whoever is past `mu.Lock()` holds the mutex, therefore at most one worker is. It
needs to be known what that worker may do (`JobAllowed`, established by the gates
in front of the lock and kept because nobody changes a job), that the planned
pushes stay within it (`SpecsAllowed`), that a cache holds only commits its host
had (`StoresSound`: this turns "the cache has the tip" into "the other host has had
the tip"; it speaks of caches that were not taken over), and that a restore about to
create has found its commit (`RestoreReady`). A cache that was taken over still hands out
only what the last fetch put into its refs (`FetchedTips`), and the rows a restore or a
forced push starts from name tips their host has had (`RowsTrue`): these two carry the
contract where `StoresSound` is silent. Together with `TypeOK` they are `IndInv`:
`InitInv` and `NextInv` prove it, one lemma per conjunct and one step per action. For
the action properties `StepWrites` names the only three ways the mirror writes to a
host (a pushed spec under its lease, a delete, a restore over nothing) and
`ChangeIsWrite` shows that every change of a ref in a step that is not a person's is one
of them; each theorem then reads its conclusion off the invariant. `Refinement` maps the
same three writes to `MirrorPuts` and `MirrorDrops`, starting a forced job to
`PersonAsks`, a person's step to `UserWrites`, everything else to a stutter. `NoBlind`
and `Refinement` have no hypothesis: where a comparison fails or a cache was taken over,
the statement itself says which half of the guard is left.

*An overwrite judged harmless.* `HarmlessKeeps` is about sets: if every commit only the
old tip reaches is on a branch, or has a commit of equal content among those only the new
tip reaches, no content is gone. `ForcedKnown` is what makes it apply: between the push
that overwrote and the judgement the mutex keeps the cache, so it still has both tips.

*Convergence.* `Accounted` names who answers for a difference between the hosts: an
event not yet taken that is still true of its host, an operation that has read both
sides as they are, or a hold on record. Every step passes the debt on: a push that lands
raises an event, a refused one means somebody moved the host and that move is queued.
Before the first act of a person the debt has no such origin, which is what
`ByMirrorAlone` covers. `Remembered` needs no fairness; that the debt is *paid* is
`Settles`, and stays with TLC. Part of what it rests on is proved: `NoStandoff` says that
two tips which both directions withhold contain neither the other, so a branch that is
only behind is brought up by one of the two reconciles. `ExchangeKeepsContract` adds to
that invariant what an operation under way knows of the two histories (`Informed`) and
what hosts, caches and waiting events say did happen (`Remembers`); each step of the
exchange is then a step of the contract or none.

*History.* `DiskBounded` fails to be inductive because the writer never looks at the file
again: `Counted` says by how much its count may fall behind. `KillCostsTwoRows` counts
the damage of a kill twice: now, and when the next row is glued to the stump, which also
takes a row that lacked only its newline. `Due` is what a torn file has still to lose and
`Paid` that missing plus due never exceed two rows for each kill; `Lines` (rows ascend
through both files) makes a rotation forget whole rows only. `ConsoleShowsNewest` needs
that `tail` returns rows of the file in order: `RankFromEnd` finds the row of a given
rank by the least position where the count from the end falls low enough, in place of an
induction over the file. `NoHole` asks more: not which rows the ring has but that none
is missing among them. Rows and positions ascend in a file (`InLine`, `Offsets`), so the
window `tail` reads is an end of the file, and of the lines in it that parse an earlier one
has the higher rank from the end (`RankFalls`): what `tail` leaves out is older than all it
keeps, and what `push` drops is the oldest. The older generation cannot show through,
because its rows come before every row of the live file. `Buttons` is a statement about pages and windows of one ring and
needs no history.

*Lifecycle.* `DrainInv`: only answered requests have detached (`EarlyAnswered`), and
what `tasks.Wait` saw settled stays settled, since nobody joins the early ones after
SIGTERM (`WaitedForEarly`). `KeepsDelivery` needs of the batch that it holds no message
twice and only messages that were sent (`BatchSound`): then handling its head is one try
of the contract, receiving is a hand-over, and a stop or a kill with a batch in hand a
`Forget`; a message that reappears while it waits in the batch is the same one waiting.

*Dispatch.* `ConfigInv` is what `validate` has let through, kept by each `Configure`;
`EventInv` judges one event in such a configuration. A lookup by first match finds the
owner because no endpoint is listed twice (`DistinctEndpoints`), and that there is a
first match is `LeastIndex`, by well-foundedness of `<`.

*Only model-checked*: `Settles`, `ShutdownEnds`, `EventsEnd` (liveness under fairness is
out of the prover's reach), and what the six runs that show a disagreement refute. The proofs cover
every other property of a passing run.

## Disagreements between code and documentation

| Run | The text | The code |
|---|---|---|
| `deleted_tip_race` | history.go: `DeletedTip` "is the tip a delete removed" | the delete has no lease: a push after the ls-remote is removed instead |
| `forced_lost` | retry-api.md, README: an overwrite that loses commits is recorded and alerted | a push that errors after some refs moved drops what they overwrote |
| `history_restart` | history.go: a restart "does not blank the console" | only the live file is read back, which a rotation has just emptied |
| `shutdown_quiet` | main.go: both groups settle "before it is safe to start killing git" | a restore is in neither group, and a handler may detach after `tasks.Wait` |
| `dispatch_key` | config.go: "(provider name, path) is the dispatch key" | `Sync` and `SyncDelete` compare the path alone |
| `echo_loop` | README: the delete echo "auto-terminates the bidirectional delete loop" (ADVANCE.md, gitlab-to-gitlab-mirror.md alike) | a branch pushed and deleted while the sync of the push runs: the push echo of one host and the delete echo of the other undo each other for as long as they overlap |

Met while modelling, without a run of their own:

- README says the tip of a deleted ref is written to the history *before* the delete
  runs, while `doDeleteRef` records after it (`MirrorSafety!DeletedTipOnRecord` states
  the promise).
- config.go says the visibility window "has to cover the whole batch" above the line that
  defaults it to the timeout of one sync.
- `planPush`'s comment says a destination commit the cache has never seen is always
  withheld, and docs/gitlab-to-gitlab-mirror.md that caches are "unique per direction".
  With `Legacy` as above, the one-time rename hands one direction the cache of the other,
  whose objects came from the destination itself: an unforced push may then discard a tip
  the pushing side never had. `NoBlindOverwrite` and `MirrorContract` except the direction
  that took a cache over from that half of the guard.
- `gateQuery`'s comment wants no button that is clickable without working. It holds on
  pages not narrowed to a trigger or an outcome (`ButtonsWork`); a narrowed page reaches
  further back in the ring than the gate does, and a reconcile that withheld a ref while
  everything else was up to date is filtered out of the gate's window.

## What no property forbids

What the code lets happen and neither it nor a document promises against. The models
contain each of these; a property about them would have to be invented.

- A propagated delete that runs late removes a branch created again meanwhile, whatever
  tip it has: an event names a ref and no commit, and `doDeleteRef` looks only at whether
  the ref is there. `MirrorDrops` permits any removal once a deletion was asked for.
- The same delete removes a tip the deleting side never had; `planPush` would have
  withheld it.
- A reconcile brings back a branch whose delete is waiting, failed or was lost: to
  `Settles` a branch on both sides is agreement, and `NothingForgotten` speaks only of
  runs in which no event was lost.
- A page rendered before a restart has buttons whose row the ring of the new process may
  lack. They are refused, and write nothing.

## What is not modelled

- `askpass`, `provider`, `notify`, `version`: no state that anything else reads.
- HTTP authentication, decoding and status codes; HTML and wording. `Repos` and
  `Sources`, the lists behind the console's drop-downs.
- The content of Slack messages, and how `classifyForced` words what it found; what it
  decides is ForcedLoss.
- More than one repository in MirrorSync and Convergence: they share nothing but the
  history and the process.
- Batches of refspecs: a push of several lands ref by ref anyway, so where it is cut into
  batches adds no behaviour.

## Plan

Done, in this order: the mirror core (GitObjects, PushGuard, MirrorSync, MirrorContract,
MirrorSafety) and its proofs; HistoryWriter, Lifecycle, Dispatch; legacy caches in
MirrorSync; Convergence; ForcedLoss; ConsoleGate; the proofs of all of these; the contracts
(Delivery, ConvergenceContract, MirrorContract with `Unsure` and `Blind`) and theirs.

Left, in the order of what it would add:
1. A repository of two branches in Convergence, so that a reconcile and an event of the
   same host carry different refs, and pinned refs there.
2. Tags and restores in Convergence: a restore's own echo against a late delete.
3. `DeletedTipOnRecord` as a run: the kill after the delete and the lost reply.
4. In the proofs: what a completed forced push records (`ForcedOnRecord` where no error
   and no kill comes between the push and its row).
