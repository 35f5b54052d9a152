# kuso: a verification of its control loops

kuso is a self-hosted platform on Kubernetes. A Go server (`src/server-go`) keeps
everything it knows in custom resources (`KusoBuild`, `KusoEnvironment`,
`KusoCron`, ...) on the apiserver, reads most of them through informers, and
drives them from leader-elected loops. This directory models first the part that
decides *which code runs where*: a push becomes builds, a build waits for its
turn, its image waits for its gates, runs its release hook (migration) and is
then written to environments, workers and crons, while users cancel, retry and
roll back; and old images are swept. Then come the loops beside it: previews of pull requests, one-off
runs, sleep and wake, notifications and incidents.

The TLA+ modules are checked with TLC, and the theorems with TLAPS.
`PROJECT.json` maps every definition to its lines in the source, and lists the
hazards, the runs, the mutants and the theorems.

## 1. Inventory

All paths are under `src/server-go/internal/` unless they say otherwise.

| Component | State it keeps | Operations | What is hard | What makes it correct | Here |
|---|---|---|---|---|---|
| **Build promotion** `builds/builds.go` (markSucceeded and below), `promote_retry.go`, `release_retry.go` | phase, done, tag of `KusoBuild`; image, promoted-at, replicaCount of `KusoEnvironment`; image of `KusoCron` | markSucceeded, promoteImageCount, promoteEnvImageCAS, fan-out to workers and crons, abandon, retry | detached goroutines, two leaders for a moment, read - guard - write races, best-effort patches, partial failure | last trigger wins; succeeded means deployed; no image before its migration; every build ends | `Promotion`, `EnvRegister` |
| **User operations** `builds/lifecycle.go`, `release_retry.go` | the same objects | Cancel, RetryRelease, Rollback | race every step of a promotion | as above | `Promotion`, `ReleaseRun`, `BuildQueue` |
| **Promotion gates** `promotion_group.go`, `vulngate.go` | hold annotations | promotionHoldVerdict, notePromotionHold, expiry, supersession | judged from a lagging informer; siblings wait on each other | a push goes out whole; nobody waits for ever | `PromotionGate` |
| **Release hook runner** `releaserun/releaserun.go` | Jobs with one name per (environment, image) | Run, replaceFailedJob, poll | delete by name, cached polls, deletion under the poll | success is a Job that completed; only a failed Job is replaced | `ReleaseRun` |
| **Admission and queue** `admission.go`, `builds.go` (create, dispatchQueued, promoteOne) | build-state label, admitReserved, admitRecent, service locks | Create, tick | check-then-act against an informer, three locks that do not nest | the cap; one build per service; the queue drains | `BuildQueue` |
| **CI gate** `ci_gate.go` | ci-gate annotation | evaluateCIGate, cancelForCI | two patches, the second may fail | a rejected commit is never built | `BuildQueue`, `PromotionGate` |
| **Build controller** `buildcontroller/` | build Jobs | reconcile, retry ladder | a stale copy renders a Job | no Job for a build that is done | `BuildQueue.StartJob` only |
| **Housekeeping** `cleanup.go`, `registry_client.go`, `lifecycle.go` (Rollback), `db/build_records.go` | finished CRs, their records, images in the registry | sweeps, rollback | lists of different moments, deletion by digest, every replica sweeps | no sweep deletes what is in use; the rollback depth | `ImageRetention` (orphaned repositories, releases and volumes: not modelled) |
| **GitHub dispatcher** `github/dispatcher.go`, `serial.go` | queues and tombstones in memory; preview environments | ensurePreviewEnv, teardownPreview | lost, reordered, failing deliveries; restarts; finalizers | a closed preview goes, an open one shows the head | `Preview` (push events end in builds.Create: `BuildQueue`) |
| **Preview databases** `previewdb/` | per-PR clones | ensure, adopt, delete | shared by the repos of a project | a clone goes with its last preview | `Preview` (the copy of the data: not modelled) |
| **One-off runs** `runs/` | `KusoRun`, its Job | create, observe, cancel, collect | a Job that expires unseen, a stale list | a command runs once; a run ends as its Job did | `OneOffRun` |
| **Sleep and wake** `scaledown/`, `activator/` | replicaCount, notes on the CR, the Deployment, the route | sleep, wake, hold a request | two writes in opposite orders, an operator and an autoscaler between | a request is answered; who opts out runs | `Scaledown` |
| **Notifications** `notify/`, `db/notification_outbox.go` | SQL outbox, a cache per replica | emit, claim, deliver, mark | crashes and lost marks after the send, leases, stale caches | at least once; duplicates only by faults; every row settles | `Outbox`, `AtLeastOnce` (digests, formats: not modelled) |
| **Incidents** `incidents/`, `http/handlers/incidents.go`, `db/incidents.go` | SQL rows, agent Jobs | open, report, approve, reap | late reports by id, Jobs that die | one open incident per target; the cap; slots come free | `Incidents` |
| Remediation `remediate/` | restarts | | | | not modelled |
| Build reuse `reuse.go` | reuse-from annotation | checkReuse | source fails or is collected | a reused image exists | not modelled |
| Leader election `leader/` | a lease | | old leader finishes its step | covered as "two pollers" | constants `Runs`, `Runners`, `Managers`, `Leaders`, `OutboxWorkers` |
| Image release watcher `imagerelease/` | last released digest | poll | retries | hook before image | not modelled (calls `Runner.Run`) |
| Project and service config `projects/` | specs | CRUD | merge patches | | `Promotion.ForeignWrite`; the TTL sweep of previews is in `Preview` |
| Crons `crons/` | CronJobs | sync | | | cron images are in `Promotion` and `ImageRetention` |
| Updater `updater/` | a ConfigMap | start | single flight | | not modelled |
| Add-ons, instance databases `addons/`, `instancepg/` | Helm values | CRUD | | | not modelled: provisioning |
| Observability `alerts/`, `cronwatch/`, `uptime/`, `drains/`, `logship/`, `metrics/`, `nodewatch/`, `health/` | counters | | | | not modelled: readers |
| Nodes, backups, secrets; HTTP, auth, DB; `src/web`, `src/cli`, `src/mcp`; `src/operator`; `src/compose`, `src/coolify` | | | | | not modelled: I/O, clients, charts, pure translation |

How they interact: HTTP handlers and the GitHub dispatcher call
`builds.Service`. The poller (leader only) lists builds from the informer every
five seconds, dispatches the queue, evaluates CI gates and checks each build;
a build whose Job is green is promoted in a goroutine of its own, at most one per
build and process. That goroutine calls the gates, then the release runner, then
writes environments. All of them meet only in the apiserver's objects, mostly
through merge patches, which carry no resourceVersion; on this path the only write that does carry
one is the Update of an environment by a promotion. Sleep and wake, previews and one-off runs meet the Helm
operator in the same objects. Outbox and incidents live in SQL, where a row lock, a lease or a unique index
takes the place of the resourceVersion. The image sweep reads what all the others
refer to, and writes only the registry and the records.

## 2. Modules

| Module | Models | Extends |
|---|---|---|
| `EnvRegister` | abstract: an environment's image as a register ordered by trigger | |
| `Promotion` | a green build's way to environments, workers, crons; cancel, retry, rollback | `INSTANCE EnvRegister` |
| `PromotionProofs` | theorems about `Promotion` | `Promotion`, `TLAPS` |
| `ReleaseHook` | abstract: attempts at a hook, one at a time, and honest answers about them | |
| `ReleaseRun` | `Runner.Run` and the Job it polls | `INSTANCE ReleaseHook` |
| `PromotionGate` | scan and same-commit wave | |
| `PromotionGateProofs` | theorems about `PromotionGate` | `PromotionGate`, `WellFoundedInduction`, `TLAPS` |
| `BuildQueue` | admission, service lock, dispatcher, CI gate, ends of builds | |
| `BuildQueueProofs` | theorems about `BuildQueue` | `BuildQueue`, `FiniteSetTheorems`, `TLAPS` |
| `ImageRetention`, `ImageProofs` | a service's images, what refers to them, and the sweep | |
| `AtLeastOnce` | abstract: what an outbox promises | |
| `Outbox`, `OutboxProofs` | rows, leases, caches, deliveries and marks of one channel | `INSTANCE AtLeastOnce` |
| `Incidents`, `IncidentProofs` | incidents, their agents, the operator and the reaper | |
| `OneOffRun` | a `KusoRun`, its Job, the poller and a cancel | |
| `Scaledown` | one environment that sleeps and wakes | |
| `WorkloadProofs` | theorems about `ReleaseRun`, `OneOffRun` and `Scaledown` | these three, `TLAPS` |
| `Preview` | the previews of one pull request number over the repos of a project | |
| `PreviewProofs` | theorems about `Preview` | `Preview`, `SequenceTheorems`, `WellFoundedInduction`, `TLAPS` |
| `MC*` | functions for the configurations | the module they instantiate |

`MCOverlap`, `MCThreeSafety`, `MCBackground` and `MCRunsPreviews` hold two or three components that do
not share state in their models. They check them side by side: `part` is chosen in the first state, and only that
component moves. A state of a sum is thus a state of one component, nothing is composed, and one
fairness condition may speak for an action of each component.

### Promotion

The actions are cut at apiserver calls: one read or one write per step,
with the code between them folded into the step that follows. `cr` is the live
`KusoBuild`, `seen` the informer's copy; `image`, `promotedAt`, `awaiting`
(replicaCount 0 of a new environment) the `KusoEnvironment`; `released` the
hooks that completed, or that ProductionDataGuard skipped: a promotion takes "skipped" for a success, so wherever
this project says of a promotion that a hook completed, it may also have been skipped for the sake of production's data. `current[e]` is the resourceVersion: the runs whose
Get no later write has outdated. `pc` and the locals are one promotion goroutine
per run `<<poller, build>>`. `Start` is checkBuild handing a green build to
promoteDetached; `ReadPhase` the first re-read; `ListEnvs` to `FinishEnvs` the loop of
promoteImageCount, `GetEnv`/`UpdateAccepted`/`UpdateConflict` promoteEnvImageCAS;
`RepointCrons`, `PickWorker`... the fan-out; `Recheck`, `StampSucceeded`,
`RetryLater`, `Abandon` the end of markSucceeded. A cancel, a retry and a
rollback are a read and then a patch, with anything in between.

What the gates decide is left open here: they are a step that may hold, end
(superseded, expired) or pass, and a hold changes nothing that this module
keeps. The release runner is a step that succeeds or fails: `ReleaseRun` says why that is
right. A scan that blocks is in `PromotionGate`.

### ReleaseRun

Jobs are numbered in the order of creation, because one *name* stands for many of
them: `live` is the Job that has the name now, `cached` the informer's picture of
the name. `Call`, `Guard`, `GetJob`, `DeleteFailed`, `AwaitGone`, `CreateJob`,
`PollEnds` follow `Run`; `CancelList` and `CancelDelete` are deleteReleaseJobs with
its gap between the list and the delete. A Job being deleted keeps its name until
`Vanish`. `Fate` reads a Job as an attempt at the hook: at work, complete, failed, or killed when it lost the name before it
ended; with it `ReleaseRun` implements `ReleaseHook`, which is all that `Promotion` relies on in its steps
`HookSucceeds` and `HookFails`. `Guard` includes ProductionDataGuard, whose "skipped" counts as a success
without a Job; the model tells it apart from the success of a Job. The day-long TTL after which
Kubernetes collects finished Jobs is not modelled.

### PromotionGate

`Proceeds` is promotionHoldVerdict, evaluated on the informer's copy; `NoteHold`
notePromotionHold, with its patch that may be lost; `StampHeld` supersession and expiry; `ScanPending`,
`ScanBlocks` runVulnGate. The variable `settled` is history: which builds have ever been
green with their scan over, or cancelled by a user or for a newer build. A build that the CI gate cancelled is not settled but
`Rejected`. `old` stands for the age of a hold.

### BuildQueue

`Admit`, `Check`, `Write`, `Refuse` are one Create: reservation, live active-check under
the lock of the service, CR and noteBuildStarted, or a failure in between. `List`, `Pick`, `Patch`,
`Note`, `EndTick` are one dispatchQueued with promoteOne's re-read and its patch
apart. `live` is the KusoBuilds, `cached` the informer's copy of them (the names that
Promotion also has begin with `Queue` here, so that `MCOverlap` can extend both). `waits` is history: the builds Create queued. A tick counts slots once, from the informer and
the process's own memory (`recent`, `reserved`); `Forget` is admitRecentTTL, which the
model lets pass only once the informer shows the build: lag is shorter than the
minute. With `ReadsFail`, Create's live list may fail, which queues the build, and so may promoteOne's re-read, which is then
skipped. Left out: the per-project cap, the order over projects (a tick takes services
in any order, and every service has a project of its own), the pods clause of
countActiveBuilds (which only ever counts more), reused builds, and failed lists and
patches of the dispatcher and the poller, which change nothing and are tried again. `Age` is the order in which Creates
take the lock of the service, under which the trigger time is stamped that the queue is sorted by.

### ImageRetention

One service, one environment, one cron and the pods of the environment. `time` orders creations and
the `createdAt` of records; `live`, `born` are the `KusoBuild`, `record` the archived row, `registry` the tags.
`PushImage` to `CollectBuild` follow a build from its Job's push to the collection of its CR; a commit that is
pushed again afterwards has the same build name, tag and record. `RollbackChecks` and
`RollbackPatchesEnv` are the two halves of Rollback. A sweep is a step per list (`ListBuilds`, then
`ListConsumer` for environments, crons and pods), `ResolveInUse`, and for each target `CheckTarget` and
`DeleteTarget`, so that anything may move in between; an informer that lags is a list made earlier.
`DeleteTarget` deletes by digest: every tag of the manifest goes. `steady` is history: the consumers that had
their image when the sweep began and have kept it. Left out: other
namespaces, one-off runs (listed and protected like crons), failed builds (which have no slot in the window), a
repeated build whose bytes differ from the first one's.

### Outbox

One channel and the rows its events make. `Enqueue` and `EditChannel` are the API's, on any replica;
`ClaimOutboxRow` takes a due row for a lease; `Decode`, `LookupChannel`/`LookupFails`, `Send`/`SendUnanswered` and
`MarkOutboxDelivered`/`MarkOutboxAttempt` follow drainOne, whose row lock ends with the claim; `Forget` is a crash. Time is
what is left of each wait: of leases and backoff (`due`), of the replica's cache (`ttl`), of a call
(`left`, at most `CallBound`, which is smaller than the lease). Two histories serve the properties: `wasOff`
(was the channel off, for anybody, since the row is there) and `spoiled` (faults that may have doubled the row).

### Incidents

`DecideToOpen` and `OpenIncident` are handle under slotMu and the insert; `Report`/`StoreReport` the handler
that checks the state and then writes it by id; `Approve` to `RecordJob` SpawnImplementFor; `Close` the operator;
`ReaperLists`, `Reap`, `ReapSkips` the three passes of the reaper, which judges by a list. Every write of an open state
goes through `IndexAllows`, the partial unique index of the table. Left out: implementGrace and remediate.go.

### OneOffRun, Scaledown, Preview

`OneOffRun`: the poller's tick lists (`Observe`) and then patches by what it has read (`MarkFromJob`, `MarkRunning`,
`FailIfJobLost`); `CancelChecks`, `CancelPatches`, `CancelDeletesJob` are Cancel; `OperatorReads`/`OperatorApplies` the
chart, which renders the Job as long as spec.done is false, and may do so from an old copy. The
clock (`RunTick`) bounds an outage of the poller by `MaxOutage` and removes a Job `JobTTL` after its end.

`Scaledown`: `WakePersists` then `WakePatches` (CR first, Deployment second) against `SleepReads`,
`SleepPatches`, `SleepPersists` (Deployment first); `WatcherWakes` and `SetAutoSleep` are evaluateEnv; `Serve`,
`HoldRequest`, `Retry` the activator; `Render` the operator, `Autoscale` the autoscaler. A stamp that wakes must be
visible before the replicas go up: that order is what `RequestsAreServed` is about.

`Preview`: `wire` holds GitHub's deliveries in any order, `inbox` the queue of a pull request, `tombstone` what
markPRClosed remembers until a restart. `Take` begins a delivery; `CancelPreviewBuilds` to `DeletePRAddons` are
teardownPreview, `AwaitPreviewTeardown` to `StampExistingBuildImage` ensurePreviewEnv. `Sweep*` is
SweepExpiredPreviews with deleteEnvironment, `Finalize*` the operator's finalizers that keep an object
terminating. `Refuse` is any failing call on the way to a preview, the list of prior builds, Create and the stamp among them. There is one
server process; a tombstone lasts until it restarts (in the code also at most a day: closedPRTombstoneTTL). Left out: the two-week cap on asking GitHub in vain (previewPRCheckGraceCap), and the copy of the data
into a clone.

## 3. Runs

| Run | Instance | Checks | States, time |
|---|---|---|---|
| `overlap` | promotion: 2 builds (triggers 1, 3), 1 environment, 1 rollback, 2 attempts, 1 fault, clock to 4; queue: 3 builds of one service, the middle one CI-gated, cap 2, 1 cancel, failing reads | `TypeOK`, `LastTriggerWins` (refinement of `EnvRegister`), `SucceededIsDeployed`; `SameDoorExcludes`, `FirstClickRunsFirst` | 2.2 M, 2 min |
| `promotion_hooks` | 1 build, 2 hooked environments, 1 worker, cancel, release retry, rollback, 1 fault | `HookedRunsReleased`, `WorkerRunsReleased` | 4.9 M, 1.5 min |
| `promotion_liveness` | 1 build that 2 pollers promote, and a younger one of the service that is still building (it supersedes a held first one), 1 hooked environment, cancel, 1 fault, clock to 3 | `EveryBuildEnds` | 365 k, 50 s |
| `gate_progress` | a push to 2 services, one scanned and CI-gated, the other cancellable; both may fail; 1 lost patch | `GreenBuildsEnd`, `GreenWaveGoesOut` | 25 k, 45 s |
| `build_queue` | 2 builds of one service, 1 CI-gated build of another, cap 1, 1 cancel, failing reads | `QueueTypeOK`, `EachDoorKeepsTheCap`, `RedIsNotBuilt`, `QueueDrains` | 306 k, 1.5 min |
| `three_safety` | gate: a push to 2 services and a retry of one; incidents: 2 of 2 targets, cap 1; images: 2 builds of one digest and one more, window 1, 1 push, 1 failed call | `TypeOK` and `AtomicWave` of the gate; `OneOpenPerTarget`, `InvestigationsKeepTheCap`; `ImageTypeOK`, `SteadyImagesStay` | 2.1 M, 3 min |
| `background` | release: 1 runner, 3 Jobs, 2 cancels, 2 faults; incidents: 1, with timeouts and 2 approvals; sleep: 2 replicas, 1 leader, 1 change of the setting | `TypeOK`, `RunnerDeletesOnlyFailed`, `HookIsHonest` (refinement of `ReleaseHook`), `EveryRunReturns`; `AgentPhasesEnd`; `ScaleTypeOK`, `RequestsAreServed`, `OptedOutWakes` | 101 k, 2.5 min |
| `outbox` | 2 rows, one that does not decode; 2 workers on 2 replicas; 2 sends, lease 2, call 1, backoff 1 to 2, cache 1; 1 fault | `OutboxTypeOK`, `OneWorkerPerRow`, `DuplicatesNeedAFault`, `DeliversAtLeastOnce` (refinement of `AtLeastOnce`), `EveryRowSettles` | 253 k, 2 min |
| `runs_previews` | run: Job TTL 4, outage 1, 2 executions; previews: 1 repo, 3 events, 2 commits, 1 mishap | `CommandRunsOnce`, `RunOutcomeIsTheJobs`, `EveryRunEnds`; `PreviewTypeOK`, `ClosedPreviewsGo`, `OpenPreviewShowsHead`, `LateDeliveryDoesNotRebuild` | 200 k, 2 min |

Every property of these runs has a mutant in `PROJECT.json`: a plausible bug in one
definition under which TLC finds it violated.

**Why the bounds are enough to be of interest.** Two builds are what an order
between triggers takes, and the gap between triggers 1 and 3 leaves room for a rollback stamped
before, between and after them. Two attempts instead of four
already lose, win and run out of the race; one fault can be the lost stamp, the failed write or the
interruption. Two hooked environments give "one passed, the other failed", the
case the worker's gate is about. Three Jobs are a failed one, its
replacement and one more after a cancel. Three builds over two services give a
wave and a build that forgives or supersedes one of its members; progress needs only the wave. With a cap of one, three
builds of two services meet the cap; with a cap of two, three builds of one service are kept apart by the service and not by the cap.
The promotion of `overlap` has no hooks and one environment: that a lost release-failed patch, or a retry, lets a build be stamped
succeeded without an environment is in the findings (below), and what holds with hooks and several environments in the theorem.
Two incidents and two targets make both the duplicate of one target and the second one over the cap. A window
of one with three builds has a kept build, an aged-out one of the same digest and a third that pushes the
window on. Two workers with a lease of two ticks and calls of one can let a
lease run out between them; one fault is the crash, the lost mark or the lost answer. A pull request
with three events is closed and reopened, or pushed to and closed, and its deliveries come in every order. In
`OneOffRun` a Job's TTL is longer than an outage and two ticks, as a day is longer than a leader's absence.
The bounds are constants (`Horizon`, every `Max...`) and appear in the guards. Deadlock is not checked: all of
these systems stop when no user does anything any more.

**Fairness.** The leader ticks every few seconds and a started goroutine goes on (weak
fairness of a run's steps, of the tick, of a Create that has begun); every
apiserver call and every Job has a deadline (`JobEnds`); informers catch up; the
clock moves. Nothing is assumed about users, about other writers, about
whether a call fails, or about a Job's pod starting. The scan's end has strong fairness in
`PromotionGate`: a run may find it pending again and again, but
vulnGateMaxWait makes a later look end it. `promoteHoldMaxAge` (two hours) is taken to be longer
than anything that moves by itself: `HoldAges` waits for the rest to be quiet.

In the later modules: a worker's step and the clock are weakly fair, and the claim of a *given* row strongly, since claims go
by nextAttemptAt and an older row is not passed over for ever (`Outbox`). A poller, reaper or watcher ticks; what it
patches or deletes is tried at every tick and succeeds now and then (strong fairness of `Reap`, of
`OneOffRun`'s marks and of a wake's writes). Agents' Jobs have a deadline, so they end (`AgentEnds`). The oldest webhook of a pull request that is under way
arrives in the end (`Deliver(r, 1)`); a later one may overtake it, which is a mishap, and a restart loses what is queued.
Finalizers and the TTL sweep go on. No fairness is assumed of users, GitHub's events, requests, the autoscaler or faults.

`GreenWaveGoesOut` counts a build that expired as sound for its siblings. In `QueueDrains` a service held by
a build without a label that is done is excepted; `queue_wedged` shows that case on its own.

### Runs that end in a violation

Each is a place where the code does not do what one of its comments says.

- `queue_wedged`: a cancel between promoteOne's re-read and its patch leaves a build that is
  done and has no label. Nothing ends it, and it blocks its service until it is cancelled again.
- `queue_verdict`: CI gates are evaluated in goroutines of their own. The verdict of an older queued build may land after a tick has listed
  the queue without it; that tick starts the younger build, and the next one, over a copy that shows the verdict but not the
  start, the older. With waitForCI two consecutive pushes to a service are enough.
- `images_lost`: the sweep protects the digests of what is in use, but compares what its window keeps by
  tag only. When the build that ages out has the digest of a kept one that nothing runs, both lose their image.

`PROJECT.json` lists further ones that TLC showed while these modules were written, and that no run
repeats. Each has a definition that states what is violated: `Promotion.DeployedIsNotHeld` (an environment whose first image is a
rollback stays at zero), `Promotion.SucceededIsDeployed` with a hook and a lost patch, or with a retry of the release that lands while the
failed run is still at another environment, `Promotion.HookedRunsReleased` without its exception for rollbacks (a build that was passed over for
a newer one is succeeded, and a rollback may choose it although its hook never ran), `ReleaseRun.FailureIsFresh`
(a replaced Job's failure is reported again), `BuildQueue.OneBuildPerService` also with no gated build, when a Create runs between a
tick's check and its patch (the dispatcher does not take Create's lock; by the same overlap the cap is kept by each way in, and not by both
together), `PromotionGate.RejectedDoesNotForgive` (a failed sibling is forgiven for a newer build that is "cancelled", also when it was the CI
gate that cancelled it: a commit goes out on one service although its other one failed and the next commit was rejected),
`Incidents.ImplementationsEnd` and `ReportsDoNotReopen`, `OneOffRun.CancelSticks`,
`Scaledown.CapacityIsKept` and `StrandedWakes`, `Outbox.SettledWasSentOrOff`, `Preview.CloneIsKept`, `Preview.ClonesGo` (a close whose
list of the other previews fails keeps the database clone, and the sweep that is to reap it walks environments, of which none is left), `Preview.TombstoneHolds` (after a
close, a reopening, a push and a second close, a late `reopened` clears the tombstone of the second close for the push, which is later
still). A
build with a release retry violates `EveryBuildEnds`, which is why `promotion_liveness` has none (see the hazard
at `release_retry.go`). Not covered by any property: a rollback, or a second build of one commit that waits for
its gates, refers to an image after the sweep has made its lists, and may lose it.

## 4. Proofs

| Theorem | Module | Says |
|---|---|---|
| `TypeCorrect` | `PromotionProofs` | `Spec => []TypeOK` |
| `LastTriggerWinsHolds` | `PromotionProofs` | `Spec => LastTriggerWins`: `Promotion` implements `EnvRegister` |
| `HookGatesItsEnvironment` | `PromotionProofs` | `Spec => []HookedRunsReleased` |
| `HookGatesTheWorkers` | `PromotionProofs` | `Spec => []WorkerRunsReleased` |
| `SucceededMeansDeployed` | `PromotionProofs` | `Hooked = {}`, or `MaxFaults = 0` and `Retriable = {}`, implies `Spec => SucceededIsDeployed` |
| `OnlyRollbacksKeepTheHold` | `PromotionProofs` | `Spec => []HeldWasRolledBack`: what violates `DeployedIsNotHeld` is always a rollback |
| `HookIsHonestHolds` | `WorkloadProofs` | `Spec => HookIsHonest`: `ReleaseRun` implements `ReleaseHook`, any number of overlapping runners |
| `SuccessIsReal` | `WorkloadProofs` | `Spec => []SuccessIsCompleted`: what became of a Job stays so, so a reported success remains one |
| `OnlyFailedIsReplaced` | `WorkloadProofs` | if calls do not overlap, `Spec => []RunnerDeletesOnlyFailed` |
| `ReleaseTypeCorrect` | `WorkloadProofs` | `Spec => []TypeOK` |
| `ScaleTypeCorrect` | `WorkloadProofs` | `ScaleSpec => []ScaleTypeOK` |
| `NeverAllowedStaysUpHolds` | `WorkloadProofs` | `ScaleSpec => []NeverAllowedStaysUp`: an environment that was never allowed to sleep keeps its replicas |
| `QueueTypeCorrect` | `BuildQueueProofs` | `QueueSpec => []QueueTypeOK` |
| `SameDoorExcludesHolds` | `BuildQueueProofs` | `QueueSpec => []SameDoorExcludes`, any cap: two builds of a service that Create started, or that it queued, are not at work together unless the older one waits for CI |
| `FirstClickRunsFirstHolds` | `BuildQueueProofs` | `QueueSpec => []FirstClickRunsFirst`, any cap: the queue of a service goes by age, but for older builds that wait for CI |
| `RedIsNotBuiltHolds` | `BuildQueueProofs` | `QueueSpec => []RedIsNotBuilt` |
| `EachDoorKeepsTheCapHolds` | `BuildQueueProofs` | `QueueSpec => []EachDoorKeepsTheCap`, any cap |
| `GateTypeCorrect` | `PromotionGateProofs` | `Spec => []TypeOK` |
| `AtomicWaveHolds` | `PromotionGateProofs` | `Spec => AtomicWave`, any builds, services, pushes and retries |
| `CommandRunsOnceHolds`, `RunOutcomeIsTheJobsHolds` | `WorkloadProofs` | `RunSpec` implies each of the two invariants, any lifetime of a finished Job that outlasts the poller's outage by two ticks |
| `PreviewTypeCorrect` | `PreviewProofs` | `PreviewSpec => []PreviewTypeOK` |
| `LateDeliveryDoesNotRebuildHolds` | `PreviewProofs` | `PreviewSpec => LateDeliveryDoesNotRebuild`, any repos, events, commits and mishaps |
| `IncidentTypeCorrect`, `OneOpenPerTargetHolds`, `InvestigationsKeepTheCapHolds` | `IncidentProofs` | `IncidentSpec` implies each of the three invariants, any number of servers |
| `OutboxTypeCorrect`, `LeaseExcludes`, `DuplicatesNeedAFaultHolds` | `OutboxProofs` | `OutboxSpec` implies each of the three invariants |
| `OutboxImplements` | `OutboxProofs` | `OutboxSpec => DeliversAtLeastOnce`: `Outbox` implements `AtLeastOnce` |
| `OneReplicaSettlesHonestly` | `OutboxProofs` | with one replica, `OutboxSpec => []SettledWasSentOrOff` |
| `ImageTypeCorrect` | `ImageProofs` | `ImageSpec => []ImageTypeOK` |
| `SteadyImagesStayHolds` | `ImageProofs` | `ImageSpec => SteadyImagesStay`, any builds, sweeps and shared digests |

They hold for all sets of builds, environments, workers, pollers and requests and
all bounds that satisfy the modules' `ASSUME`s (`PromotionAssumption`, that of
`ReleaseRun`; `QueueAssumption`: finitely many builds, no two of a service as old as each
other, a cap of at least one; `OutboxAssumption`: a lease longer than a call; `IncidentAssumption`;
`OneOffRunAssumption`: a finished Job outlives the poller's longest outage by two ticks; `ScaledownAssumption`; `PreviewAssumption`: a repo and a commit at least; `ImageAssumption`: finitely many builds, in some order); TLC evaluates those assumptions on every run.

**Last trigger wins.** The guard and the write of promoteEnvImageCAS are two steps, so the
invariant has to carry the guard across: a run that is about to update, and whose Get no
write has outdated (`r \in current[env[r]]`), still has a trigger no older than promoted-at
(`UpdateIsGuarded`). It is kept because every write empties `current`. It needs that such a run
works on a real environment (`AtEnv`), and that a rollback that is about to patch is stamped after
the trigger of its build (`RollbackIsLater`). With `TypeOK` they make `IInv`; the step theorem has one case per
action, and the refinement follows from `IInv` and each step.

**Hooks.** A run only gets as far as reading a hooked environment when its hook's Job is in
`released`, and it stays there. For the workers the invariant says of each run past the
environments, whose hooks did not block it, that every hooked environment was either released or has something newer.
Promoted-at only becomes smaller by a rollback, whose stamp may be older than a promotion that overtook it; so "something newer" is
kept until a user rolls the environment back, and that it was rolled back is kept for good (`PromotedAtGrows`).

**Succeeded means deployed.** Of each environment a run has dealt with it knows that it failed there, or the build or something newer is there
(`DealtWith`). With hooks there is a third case: the hook failed, the run goes on, and only the phase it has stamped keeps the end of markSucceeded from calling
the build green. `Spared` says that this phase stands: nothing turns a build that ended without being green into a running one but a retry, and into a
succeeded one but another run, which has been everywhere. So the theorem is for services without hooks, whatever fails, and for those with hooks as long as
nothing fails and no release is retried; beyond that the statement is false (section 3).

**How far the findings reach.** Three theorems say of a property that section 3 lists as violated where it does hold. What has an image and
is held at zero was rolled back: the first commit lifts the hold, only a rollback's patch writes an image without doing so, and that it was
rolled back stays true. On one replica a delivered event was sent or its channel was off: whoever accepts an event sees the channel on in the
only cache there is, so no row begins as "stale", and a mark has the reason that `DeliveredForAReason` gives it. An environment that was never
allowed to sleep is untouched (`Untouched`): no call on it has begun, and none of the overlaps that cost a sleeping one its replicas can arise.

**Release runner.** `IInv` says that nothing refers to a Job that was never created and that only created ones have a status, that the
informer may show an old status but never invents an end, that a call that has begun has not answered, and that a reported
success is a Job that completed. From it each step is a step of `ReleaseHook` or a stutter: a Job is created only while the name is free, so no
other is at work; a pod's start and a lagging informer change nothing that the abstract hook shows; a Job that vanishes at work is killed, one that vanishes after its end
has the fate it had; and an answer, though it goes by the informer's copy, is the fate of the Job it names. That only failed Jobs are
replaced needs more: between its Get and its delete, a runner's Job is either still the failed one or gone,
which holds only as long as no second runner can create one; the theorem
assumes that calls do not overlap. Honesty needs no such assumption.

**One door, one build.** For the builds that Create starts it is the lock and the live list
(`StartedAlone`). The dispatcher has neither: what saves it is order. Creates of a service take
their turns (`TurnsInv`), so whenever the informer shows a build it shows the older ones too
(`SeenInv`); a tick that holds a queued build therefore holds the older queued ones as well, but for those the
informer shows started (`TickInv`); so when it starts one, the older ones are over
(`DispatchedInOrder`, which is also `FirstClickRunsFirst`). A build that waits for CI breaks the chain: it is in the informer and not in the
queue, and joins it behind a younger one's back when its verdict lands. So both properties except a pair whose *older* build is
gated, whatever the younger one is, and `queue_verdict` shows that this exception is needed. None of this mentions the cap or needs a read to succeed
but Create's own. That a red build has no Job needs `GateInv`: as long as the gate holds, nobody who could
start the build has it, be it the dispatcher's queue or the informer's list of active builds.

**The cap.** `SlotInv` says that a build at work is counted - by a reservation, by `recent` or by the
informer - except between the dispatcher's patch and its note. `CapInv` says of Create's door that
what it started, plus what it is about to start, is at most the cap; and of the dispatcher's that what it started plus what the
tick may still start is. Both rest on `Forget`: the informer lags by less than admitRecentTTL.

**Atomic wave.** `SettledInv`: what the informer shows as green, held for the wave or cancelled by anybody but the CI gate has been green or cancelled
so at some time, since such a hold is only written of a build that is green and scanned, and nothing unsettles a build. `RejectedInv` says the same of what
the CI gate rejected: it stays rejected, and is neither green nor on its way out. So when the
verdict lets a build go, the youngest build of each other service that it sees of the commit is settled, or forgiven for a newer one that is, or for one of another commit that
was rejected (`RejectedDoesNotForgive`).
A build that runs has been seen itself, and with it everything no younger (`WaveInv`): what the informer shows later,
a retry of the commit for instance, is younger and takes nothing back. So the verdict still stands when the build goes out. That the youngest
exists is the one use of well-foundedness: no induction is needed, only that a set of naturals has a least element.

**One-off runs.** Everything rests on there being one Job (`OneJob`): when it is gone, nobody will render it again. It goes by the
operator, which read the run as done, or by its TTL, and then `LookInv` has counted the ticks since it ended. Until the run is done the poller has been
away for all of them but one: a look that was begun before the end is at most one tick old, and one begun later sees the end and
marks it. So the run is done with two ticks to spare, which is what a late operator may need to get rid of what it read. As there is one
Job, whatever a look or an informer shows of its end is how it ended (`OutcomeInv`).

**Incidents.** Every step of `Incidents` is one of five kinds (`Inserts`, `Moves`, `Decides`, `GivesUp`, `Leaves`), and one lemma per
action says which. The index is asked whenever a row becomes open, so two open rows of one target would need a step that opens the second
past it. For the cap the invariant `RoomIsCounted` counts a server that has decided as if it had opened: the decision
is made below the cap, and every server has at most one under way, so the sum never exceeds the cap by more than the
other servers.

**Outbox.** One invariant, `OutboxInv`, carries all of them. `ClaimHolds` ties a worker to its row: as long as it is at work,
the row is open, its attempts are those the worker read, and its lease still covers the rest of the call. So nobody else can
claim it. `SentIsCounted` says that a row may be ahead of its faults by one delivery, and then only when it is marked or about to be. `NeverMeansOn`
says that no cache shows the channel off while an open row never saw it off: that makes a settled row one that was sent
or was unwanted, which is the step of the refinement.

**Images.** What a sweep knows of a consumer that has not moved grows with its lists (`KnowsOf`): once the consumer's list is made its tag is
in use, once the digests are resolved its digest is guarded, and a target that has been checked does not have that digest. A consumer that moves is no longer
steady, an image that is pushed again ends the steadiness of all that share its digest, and nothing else adds to the registry. So the
deletion of a checked target leaves it.

**Previews.** Without restarts every event that GitHub counts is either on its way, queued, being handled or has been handled, and what has been handled is in
the tombstone, the builds and the environment (`EventsInv`). Each reopening and each trigger of a build was paid for by a delivery of
its own (`TriggersInv`). For a pull request that was never reopened its one close is
then either ahead of us or taken (`ClosedOnceInv`); once it is taken the tombstone stands, as only a `reopened` removes it, and a
delivery that had passed the tombstone before is over, because the queue of a pull request has one worker. If there were no mishaps, deliveries come in the
order of the events (`InOrderInv`), so the last one taken of a closed pull request is its last close. One of the two is what the
theorem assumes, and `TombstoneHolds` (section 3) shows what happens with neither.

**Only model-checked.** Liveness (`EveryBuildEnds`, `EveryRunReturns`, `GreenBuildsEnd`,
`GreenWaveGoesOut`, `QueueDrains`, `EveryRowSettles`, `AgentPhasesEnd`, `RequestsAreServed`, `OptedOutWakes`,
`EveryRunEnds`, `ClosedPreviewsGo`, `OpenPreviewShowsHead`) is out of the prover's reach, and so is
whatever recursion over data would need induction. Every invariant and every action property of the passing runs has a theorem. The other way
round, `IncidentTypeOK` is only proved: no run repeats it.

## 5. Plan

The order is by what a mistake would cost: wrong code in production first.

1. **Done**: `Promotion` with `EnvRegister`, `ReleaseRun`, `PromotionGate`, `BuildQueue`, `ImageRetention`, `Outbox`
   with `AtLeastOnce`, `Incidents`, `OneOffRun`, `Scaledown`, `Preview`, and the proofs of section 4.
2. **Composition**: `Promotion`'s gate step implemented by `PromotionGate`, as its hook steps are by `ReleaseRun` through `ReleaseHook`.
3. **Properties that are still missing**: crons follow production; a retry request is not erased unanswered; an image that a rollback
   has chosen stays. All are expected to be violated (see the hazards without properties).
4. **Proofs**: the refinement of step 2.

### Not modelled

Most of the source is not control but requests, storage and rendering: HTTP handlers, the CLI, the MCP server and the web
console decode and display; `projects/`, `addons/` and `instancepg/` translate specs into Helm values and patch them,
last writer wins; the observers count. A model of those would restate their assignments. Of the loops,
remediation, build reuse, the build controller's retry ladder, the updater's single flight and the orphan sweep are not
modelled yet. Translations (`compose/`, `coolify/`) are pure functions of text.

## 6. Running it

    tlc -workers 2 -config BuildQueue.cfg MCBuildQueue
    tlapm PromotionProofs.tla

Each run of section 3 is a `.cfg` and the module `PROJECT.json` names for it.
