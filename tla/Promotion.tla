------------------------------ MODULE Promotion ------------------------------
(***************************************************************************)
(* How the image of a green build reaches the environments of its service: *)
(* markSucceeded and what it calls (builds.go), next to the user's         *)
(* operations on the same objects, Cancel and Rollback (lifecycle.go) and  *)
(* RetryRelease (release_retry.go).                                        *)
(*                                                                         *)
(* Every apiserver read and every write is a step of its own, so between   *)
(* two of them anything else may happen.  Get is always live; the poller's *)
(* list comes from an informer and may lag (seen).  A KusoEnvironment is   *)
(* written back with Update, which carries the resourceVersion of the Get; *)
(* a KusoBuild is written with a merge patch, which carries none.  Two     *)
(* pollers may be at work at once (a leader that has not yet noticed it    *)
(* was replaced), so a run is a pair <<poller, build>>: each poller has at *)
(* most one promotion of a build in flight (its "promoting" set).          *)
(***************************************************************************)
EXTENDS Naturals, FiniteSets

CONSTANTS
    Builds,       \* builds of one service, for one branch, whose Job can succeed
    SourceEnvs,   \* environments of that service that track the branch
    Workers,      \* environments of the services that reuse its image (fromService)
    Production,   \* the environment crons take their image from
    Hooked,       \* environments that carry a release command
    NoBuild,
    Trigger,      \* [Builds -> Nat \ {0}]
    Horizon,      \* bound on the clock
    Runs,         \* promotions that can be in flight: a set of <<poller, build>>
    MaxAttempts,  \* attempts of promoteEnvImageCAS (4 in the code)
    MaxFaults,    \* bound on apiserver errors, foreign writes and lost leaderships
    Cancellable,  \* builds a user may cancel
    Retriable,    \* builds whose release a user may retry
    Requests      \* the rollbacks users ask for

Envs == SourceEnvs \cup Workers

ASSUME PromotionAssumption ==
    /\ NoBuild \notin Builds
    /\ SourceEnvs \cap Workers = {}
    /\ Production \in SourceEnvs
    /\ Hooked \subseteq SourceEnvs
    /\ Horizon \in Nat
    /\ Trigger \in [Builds -> 1..Horizon]
    /\ \A r \in Runs : r[2] \in Builds
    /\ MaxAttempts \in Nat \ {0}
    /\ MaxFaults \in Nat
    /\ Cancellable \subseteq Builds
    /\ Retriable \subseteq Builds

VARIABLES
    clock,       \* the instant a rollback issued now is stamped with
    faults,      \* faults so far
    \* KusoBuild
    cr,          \* [Builds -> Record]: the live objects
    seen,        \* [Builds -> Record]: the informer's copy
    \* KusoEnvironment, KusoCron, release Jobs
    image,       \* [Envs -> Builds \cup {NoBuild}]: spec.image and promoted-build
    promotedAt,  \* [Envs -> 0..Horizon]: promoted-at, 0 when absent
    awaiting,    \* environments still held at replicaCount 0 for a first build
    current,     \* [Envs -> SUBSET Runs]: runs whose Get no write has outdated
    cron,        \* [{Production} \cup Workers -> Builds \cup {NoBuild}]
    released,    \* <<environment, build>> whose release hook completed, or was skipped there
    \* one promotion run
    pc, todo, env, attempt, matched, failed, blocked, retrying,
    \* user requests
    cancelling,  \* builds whose cancel has passed its phase check
    retryAsked,  \* builds whose release retry has passed its checks
    rollback     \* [Requests -> [step, env, build, at]]

objects == <<image, promotedAt, awaiting, current, cron, released>>
locals == <<todo, env, attempt, matched, failed, blocked, retrying>>
requests == <<cancelling, retryAsked, rollback>>
vars == <<clock, faults, cr, seen, objects, pc, locals, requests>>

-----------------------------------------------------------------------------

BuildOf(r) == r[2]

Phases == {"running", "succeeded", "failed", "release-failed", "cancelled"}
NotGreen == {"failed", "release-failed", "cancelled"}
Labels == {"idle", "read", "gate", "envs", "hook", "mark", "get", "update", "crons",
           "workers", "workerCrons", "fail", "recheck", "stamp", "clear", "clearPatch"}

\* phase; build-state=done with spec.done; spec.image.tag not blanked;
\* retry-release; hold-expired.  "running" stands for every phase before the end.
Record == [phase : Phases, done : BOOLEAN, tag : BOOLEAN,
           retry : BOOLEAN, expired : BOOLEAN]

Fresh == [phase |-> "running", done |-> FALSE, tag |-> TRUE,
          retry |-> FALSE, expired |-> FALSE]

BuildsTypeOK ==
    /\ clock \in 0..Horizon
    /\ faults \in 0..MaxFaults
    /\ cr \in [Builds -> Record]
    /\ seen \in [Builds -> Record]

ObjectsTypeOK ==
    /\ image \in [Envs -> Builds \cup {NoBuild}]
    /\ promotedAt \in [Envs -> 0..Horizon]
    /\ awaiting \subseteq Envs
    /\ current \in [Envs -> SUBSET Runs]
    /\ cron \in [{Production} \cup Workers -> Builds \cup {NoBuild}]
    /\ released \subseteq Hooked \X Builds

RunsTypeOK ==
    /\ pc \in [Runs -> Labels]
    /\ todo \in [Runs -> SUBSET Envs]
    /\ env \in [Runs -> Envs]
    /\ attempt \in [Runs -> 0..MaxAttempts]
    /\ matched \in [Runs -> BOOLEAN]
    /\ failed \in [Runs -> BOOLEAN]
    /\ blocked \in [Runs -> BOOLEAN]
    /\ retrying \in [Runs -> BOOLEAN]

RequestsTypeOK ==
    /\ cancelling \subseteq Cancellable
    /\ retryAsked \subseteq Retriable
    /\ rollback \in [Requests -> [step : {"new", "patch", "crons", "done"},
                                  env : SourceEnvs, build : Builds \cup {NoBuild},
                                  at : 0..Horizon]]

TypeOK == BuildsTypeOK /\ ObjectsTypeOK /\ RunsTypeOK /\ RequestsTypeOK

Init ==
    /\ clock = 0
    /\ faults = 0
    /\ cr = [b \in Builds |-> Fresh]
    /\ seen = [b \in Builds |-> Fresh]
    /\ image = [e \in Envs |-> NoBuild]
    /\ promotedAt = [e \in Envs |-> 0]
    /\ awaiting = Envs
    /\ current = [e \in Envs |-> {}]
    /\ cron = [e \in {Production} \cup Workers |-> NoBuild]
    /\ released = {}
    /\ pc = [r \in Runs |-> "idle"]
    /\ todo = [r \in Runs |-> {}]
    /\ env = [r \in Runs |-> Production]
    /\ attempt = [r \in Runs |-> 0]
    /\ matched = [r \in Runs |-> FALSE]
    /\ failed = [r \in Runs |-> FALSE]
    /\ blocked = [r \in Runs |-> FALSE]
    /\ retrying = [r \in Runs |-> FALSE]
    /\ cancelling = {}
    /\ retryAsked = {}
    /\ rollback = [k \in Requests |->
                     [step |-> "new", env |-> Production, build |-> NoBuild, at |-> 0]]

-----------------------------------------------------------------------------
(* Helpers *)

Exists(b) == Trigger[b] < clock

\* promotedAtIsNewer: a build triggered after b already reached e, or a rollback did.
Newer(e, b) == promotedAt[e] > Trigger[b]

\* occupiesServiceSlot: no build-state label, or mid release retry.
Occupies(b) == Exists(b) /\ (~cr[b].done \/ (cr[b].retry /\ cr[b].phase = "running"))

Goto(r, l) == pc' = [pc EXCEPT ![r] = l]

\* The run's goroutine ends; its locals with it.
EndLocals(r) ==
    /\ todo' = [todo EXCEPT ![r] = {}]
    /\ env' = [env EXCEPT ![r] = Production]
    /\ attempt' = [attempt EXCEPT ![r] = 0]
    /\ matched' = [matched EXCEPT ![r] = FALSE]
    /\ failed' = [failed EXCEPT ![r] = FALSE]
    /\ blocked' = [blocked EXCEPT ![r] = FALSE]

\* markSucceeded returns nil: retryRelease goes on to clear its request.
Return(r) ==
    /\ Goto(r, IF retrying[r] THEN "clear" ELSE "idle")
    /\ EndLocals(r)
    /\ UNCHANGED retrying

\* The step returns an error, or its context is cancelled: a later tick starts over.
Quit(r) ==
    /\ Goto(r, "idle")
    /\ EndLocals(r)
    /\ retrying' = [retrying EXCEPT ![r] = FALSE]

Stamp(b, phase) == cr' = [cr EXCEPT ![b].phase = phase, ![b].done = TRUE]

Fault ==
    /\ faults < MaxFaults
    /\ faults' = faults + 1

\* Where a run goes on after an environment: the loop it is in.
Loop(r) == IF env[r] \in Workers THEN "workers" ELSE "envs"

-----------------------------------------------------------------------------
(* A promotion run: markSucceeded *)

\* observeNamespace hands a build to promoteDetached, by what the informer shows.
Start(r) ==
    /\ pc[r] = "idle"
    /\ Exists(BuildOf(r))
    /\ \/ seen[BuildOf(r)].retry
       \/ ~seen[BuildOf(r)].done /\ seen[BuildOf(r)].phase = "running"
    /\ retrying' = [retrying EXCEPT ![r] = seen[BuildOf(r)].retry]
    /\ Goto(r, "read")
    /\ UNCHANGED <<clock, faults, cr, seen, objects, todo, env, attempt, matched, failed,
                   blocked, requests>>

\* The re-read at the top: a cancelled build is left alone.  A re-read that fails counts
\* as "not cancelled", here and below.
ReadPhase(r) ==
    /\ pc[r] = "read"
    /\ IF cr[BuildOf(r)].phase = "cancelled"
         THEN \/ Return(r) /\ UNCHANGED faults
              \/ Fault /\ Goto(r, "gate") /\ UNCHANGED locals
         ELSE Goto(r, "gate") /\ UNCHANGED <<locals, faults>>
    /\ UNCHANGED <<clock, cr, seen, objects, requests>>

\* Its gates open (see PromotionGate), and the environments are listed; one that
\* shows a newer trigger is skipped right away.
ListEnvs(r) ==
    /\ pc[r] = "gate"
    /\ todo' = [todo EXCEPT ![r] = {e \in SourceEnvs : ~Newer(e, BuildOf(r))}]
    /\ Goto(r, "envs")
    /\ UNCHANGED <<clock, faults, cr, seen, objects, env, attempt, matched, failed, blocked,
                   retrying, requests>>

\* Or its hold ends it: superseded by a newer build, or held for too long.
StampHeldSuperseded(r) ==
    /\ pc[r] = "gate"
    /\ \E b \in Builds : Exists(b) /\ Trigger[b] > Trigger[BuildOf(r)]
    /\ Stamp(BuildOf(r), "cancelled")
    /\ Return(r)
    /\ UNCHANGED <<clock, faults, seen, objects, requests>>

StampHoldExpired(r) ==
    /\ pc[r] = "gate"
    /\ cr' = [cr EXCEPT ![BuildOf(r)].phase = "cancelled", ![BuildOf(r)].done = TRUE,
                        ![BuildOf(r)].expired = TRUE]
    /\ Return(r)
    /\ UNCHANGED <<clock, faults, seen, objects, requests>>

PickEnv(r) ==
    /\ pc[r] = "envs"
    /\ \E e \in todo[r] :
        /\ todo' = [todo EXCEPT ![r] = @ \ {e}]
        /\ env' = [env EXCEPT ![r] = e]
        /\ attempt' = [attempt EXCEPT ![r] = 0]
        /\ Goto(r, IF e \in Hooked THEN "hook" ELSE "get")
    /\ UNCHANGED <<clock, faults, cr, seen, objects, matched, failed, blocked, retrying,
                   requests>>

\* The release hook came back, or ProductionDataGuard skipped it, which the promotion takes
\* for a success.  A cancel that landed while it ran wins: the phase is read again before
\* anything else is done with the outcome.
HookSucceeds(r) ==
    /\ pc[r] = "hook"
    /\ released' = released \cup {<<env[r], BuildOf(r)>>}
    /\ \/ /\ Goto(r, IF cr[BuildOf(r)].phase = "cancelled" THEN "recheck" ELSE "get")
          /\ UNCHANGED faults
       \/ cr[BuildOf(r)].phase = "cancelled" /\ Fault /\ Goto(r, "get")
    /\ UNCHANGED <<clock, cr, seen, image, promotedAt, awaiting, current, cron, locals,
                   requests>>

\* Mutant: a failed migration is only reported; its environment gets the image.
HookFailsPromotes(r) ==
    /\ pc[r] = "hook"
    /\ \/ <<env[r], BuildOf(r)>> \notin released /\ UNCHANGED faults
       \/ Fault
    /\ Goto(r, "get")
    /\ blocked' = [blocked EXCEPT ![r] = TRUE]
    /\ UNCHANGED <<clock, cr, seen, objects, todo, env, attempt, matched, failed, retrying,
                   requests>>

\* The migration failed or timed out, or (a fault) it could not be run or read back.  A
\* Job that completed earlier is observed, not run again, so it cannot fail any more.
HookFails(r) ==
    /\ pc[r] = "hook"
    /\ \/ <<env[r], BuildOf(r)>> \notin released /\ UNCHANGED faults
       \/ Fault
    /\ \/ /\ cr[BuildOf(r)].phase = "cancelled"
          /\ Goto(r, "recheck")
          /\ UNCHANGED blocked
       \/ /\ cr[BuildOf(r)].phase # "cancelled" \/ faults' # faults
          /\ Goto(r, "mark")
          /\ blocked' = [blocked EXCEPT ![r] = TRUE]
    /\ UNCHANGED <<clock, cr, seen, objects, todo, env, attempt, matched, failed, retrying,
                   requests>>

\* The snapshot before the migration failed: no phase is read on this path.
SnapshotFails(r) ==
    /\ pc[r] = "hook"
    /\ Fault
    /\ blocked' = [blocked EXCEPT ![r] = TRUE]
    /\ Goto(r, "mark")
    /\ UNCHANGED <<clock, cr, seen, objects, todo, env, attempt, matched, failed, retrying,
                   requests>>

\* Mutant: the slot is freed, but the phase stays.
MarkReleaseFailedKeepsPhase(r) ==
    /\ pc[r] = "mark"
    /\ \/ cr' = [cr EXCEPT ![BuildOf(r)].done = TRUE] /\ UNCHANGED faults
       \/ Fault /\ UNCHANGED cr
    /\ Goto(r, "envs")
    /\ UNCHANGED <<clock, seen, objects, locals, requests>>

\* markReleaseFailed: best effort, then on to the next environment.
MarkReleaseFailed(r) ==
    /\ pc[r] = "mark"
    /\ \/ Stamp(BuildOf(r), "release-failed") /\ UNCHANGED faults
       \/ Fault /\ UNCHANGED cr
    /\ Goto(r, "envs")
    /\ UNCHANGED <<clock, seen, objects, locals, requests>>

-----------------------------------------------------------------------------
(* promoteEnvImageCAS *)

\* Mutant: the environment is compared when it is listed, not again at each Get.
GetEnvUnguarded(r) ==
    /\ pc[r] = "get"
    /\ Goto(r, "update")
    /\ current' = [current EXCEPT ![env[r]] = @ \cup {r}]
    /\ UNCHANGED <<clock, faults, cr, seen, image, promotedAt, awaiting, cron, released, locals,
                   requests>>

\* Get, and the guard against what it shows.
GetEnv(r) ==
    /\ pc[r] = "get"
    /\ IF Newer(env[r], BuildOf(r))
         THEN Goto(r, Loop(r)) /\ UNCHANGED current
         ELSE /\ Goto(r, "update")
              /\ current' = [current EXCEPT ![env[r]] = @ \cup {r}]
    /\ UNCHANGED <<clock, faults, cr, seen, image, promotedAt, awaiting, cron, released, locals,
                   requests>>

\* Update was accepted: nobody wrote the environment since the Get.  The first build to
\* reach an environment lifts its hold at zero replicas.
Commit(r) ==
    /\ r \in current[env[r]]
    /\ image' = [image EXCEPT ![env[r]] = BuildOf(r)]
    /\ promotedAt' = [promotedAt EXCEPT ![env[r]] = Trigger[BuildOf(r)]]
    /\ awaiting' = IF image[env[r]] = NoBuild THEN awaiting \ {env[r]} ELSE awaiting
    /\ current' = [current EXCEPT ![env[r]] = {}]
    /\ UNCHANGED <<cron, released>>

UpdateAccepted(r) ==
    /\ pc[r] = "update"
    /\ Commit(r)
    /\ matched' = [matched EXCEPT ![r] = @ \/ env[r] \in SourceEnvs]
    /\ Goto(r, IF env[r] \in Workers THEN "workerCrons" ELSE "envs")
    /\ UNCHANGED <<clock, faults, cr, seen, todo, env, attempt, failed, blocked, retrying,
                   requests>>

\* Mutant: one attempt too many.
UpdateConflictOnceMore(r) ==
    /\ pc[r] = "update"
    /\ r \notin current[env[r]]
    /\ attempt' = [attempt EXCEPT ![r] = @ + 1]
    /\ IF attempt[r] <= MaxAttempts
         THEN Goto(r, "get") /\ UNCHANGED failed
         ELSE /\ Goto(r, Loop(r))
              /\ failed' = [failed EXCEPT ![r] = @ \/ env[r] \in SourceEnvs]
    /\ UNCHANGED <<clock, faults, cr, seen, objects, todo, env, matched, blocked, retrying,
                   requests>>

\* Mutant: when the attempts are used up the environment is passed over.
UpdateConflictPassesOver(r) ==
    /\ pc[r] = "update"
    /\ r \notin current[env[r]]
    /\ attempt' = [attempt EXCEPT ![r] = @ + 1]
    /\ Goto(r, IF attempt[r] + 1 < MaxAttempts THEN "get" ELSE Loop(r))
    /\ UNCHANGED <<clock, faults, cr, seen, objects, todo, env, matched, failed, blocked,
                   retrying, requests>>

\* A conflict is tried again; the last one is an error.  Errors on the service's own
\* environments make the run fail, those on a worker's are only logged.
UpdateConflict(r) ==
    /\ pc[r] = "update"
    /\ r \notin current[env[r]]
    /\ attempt' = [attempt EXCEPT ![r] = @ + 1]
    /\ IF attempt[r] + 1 < MaxAttempts
         THEN Goto(r, "get") /\ UNCHANGED failed
         ELSE /\ Goto(r, Loop(r))
              /\ failed' = [failed EXCEPT ![r] = @ \/ env[r] \in SourceEnvs]
    /\ UNCHANGED <<clock, faults, cr, seen, objects, todo, env, matched, blocked, retrying,
                   requests>>

\* The apiserver answers a Get or an Update with an error; an Update may still have
\* gone through.
EnvError(r) ==
    /\ pc[r] \in {"get", "update"}
    /\ Fault
    /\ \/ pc[r] = "update" /\ Commit(r)
       \/ /\ current' = [current EXCEPT ![env[r]] = @ \ {r}]
          /\ UNCHANGED <<image, promotedAt, awaiting, cron, released>>
    /\ failed' = [failed EXCEPT ![r] = @ \/ env[r] \in SourceEnvs]
    /\ Goto(r, Loop(r))
    /\ UNCHANGED <<clock, cr, seen, todo, env, attempt, matched, blocked, retrying, requests>>

-----------------------------------------------------------------------------
(* The rest of promoteImageCount: crons, then the workers that share the image *)

\* Mutant: the workers are served although a release hook failed.
FinishEnvsIgnoresHooks(r) ==
    /\ pc[r] = "envs"
    /\ todo[r] = {}
    /\ Goto(r, IF matched[r] THEN "crons" ELSE "workers")
    /\ todo' = [todo EXCEPT ![r] = Workers]
    /\ UNCHANGED <<clock, faults, cr, seen, objects, env, attempt, matched, failed, blocked,
                   retrying, requests>>

FinishEnvs(r) ==
    /\ pc[r] = "envs"
    /\ todo[r] = {}
    /\ IF blocked[r]
         THEN Goto(r, "recheck") /\ UNCHANGED todo
         ELSE /\ Goto(r, IF matched[r] THEN "crons" ELSE "workers")
              /\ todo' = [todo EXCEPT ![r] = Workers]
    /\ UNCHANGED <<clock, faults, cr, seen, objects, env, attempt, matched, failed, blocked,
                   retrying, requests>>

\* repointCrons; an error is logged and forgotten.
RepointCrons(r) ==
    /\ pc[r] = "crons"
    /\ \/ cron' = [cron EXCEPT ![Production] = BuildOf(r)] /\ UNCHANGED faults
       \/ Fault /\ UNCHANGED cron
    /\ Goto(r, "workers")
    /\ UNCHANGED <<clock, cr, seen, image, promotedAt, awaiting, current, released, locals,
                   requests>>

PickWorker(r) ==
    /\ pc[r] = "workers"
    /\ \E w \in todo[r] :
        /\ todo' = [todo EXCEPT ![r] = @ \ {w}]
        /\ IF Newer(w, BuildOf(r))
             THEN UNCHANGED <<pc, env, attempt>>
             ELSE /\ env' = [env EXCEPT ![r] = w]
                  /\ attempt' = [attempt EXCEPT ![r] = 0]
                  /\ Goto(r, "get")
    /\ UNCHANGED <<clock, faults, cr, seen, objects, matched, failed, blocked, retrying,
                   requests>>

RepointWorkerCrons(r) ==
    /\ pc[r] = "workerCrons"
    /\ \/ cron' = [cron EXCEPT ![env[r]] = BuildOf(r)] /\ UNCHANGED faults
       \/ Fault /\ UNCHANGED cron
    /\ Goto(r, "workers")
    /\ UNCHANGED <<clock, cr, seen, image, promotedAt, awaiting, current, released, locals,
                   requests>>

FinishWorkers(r) ==
    /\ pc[r] = "workers"
    /\ todo[r] = {}
    /\ Goto(r, IF failed[r] THEN "fail" ELSE "recheck")
    /\ UNCHANGED <<clock, faults, cr, seen, objects, locals, requests>>

-----------------------------------------------------------------------------
(* The end of markSucceeded, and of retryRelease *)

\* Some environment failed: leave the build for the next tick, ...
RetryLater(r) ==
    /\ pc[r] = "fail"
    /\ Quit(r)
    /\ UNCHANGED <<clock, faults, cr, seen, objects, requests>>

\* ... or end it once this has gone on for promoteRetryMaxAge.
Abandon(r) ==
    /\ pc[r] = "fail"
    /\ Stamp(BuildOf(r), "failed")
    /\ Return(r)
    /\ UNCHANGED <<clock, faults, seen, objects, requests>>

\* A terminal phase written during the promotion is not overwritten, if it can be read.
Recheck(r) ==
    /\ pc[r] = "recheck"
    /\ IF cr[BuildOf(r)].phase \in NotGreen
         THEN \/ Return(r) /\ UNCHANGED faults
              \/ Fault /\ Goto(r, "stamp") /\ UNCHANGED locals
         ELSE Goto(r, "stamp") /\ UNCHANGED <<locals, faults>>
    /\ UNCHANGED <<clock, cr, seen, objects, requests>>

StampSucceeded(r) ==
    /\ pc[r] = "stamp"
    /\ Stamp(BuildOf(r), "succeeded")
    /\ Return(r)
    /\ UNCHANGED <<clock, faults, seen, objects, requests>>

\* retryRelease: the request is cleared once the build is terminal again.
ReadRetried(r) ==
    /\ pc[r] = "clear"
    /\ IF cr[BuildOf(r)].phase = "running"
         THEN Quit(r)
         ELSE Goto(r, "clearPatch") /\ UNCHANGED locals
    /\ UNCHANGED <<clock, faults, cr, seen, objects, requests>>

ClearRetry(r) ==
    /\ pc[r] = "clearPatch"
    /\ cr' = [cr EXCEPT ![BuildOf(r)].retry = FALSE]
    /\ Quit(r)
    /\ UNCHANGED <<clock, faults, seen, objects, requests>>

\* A call fails and the step returns its error, the 30 minutes run out, or the
\* leadership is lost: the run stops where it is.
Interrupt(r) ==
    /\ pc[r] # "idle"
    /\ Fault
    /\ current' = [e \in Envs |-> current[e] \ {r}]
    /\ Quit(r)
    /\ UNCHANGED <<clock, cr, seen, image, promotedAt, awaiting, cron, released, requests>>

-----------------------------------------------------------------------------
(* User requests *)

\* cancelBuild: the phase check, then the patch that also blanks the tag.
CancelRead(b) ==
    /\ b \in Cancellable \ cancelling
    /\ Exists(b)
    /\ cr[b].phase \notin {"succeeded", "failed", "cancelled"}
    /\ cancelling' = cancelling \cup {b}
    /\ UNCHANGED <<clock, faults, cr, seen, objects, pc, locals, retryAsked, rollback>>

CancelPatch(b) ==
    /\ b \in cancelling
    /\ cancelling' = cancelling \ {b}
    /\ cr' = [cr EXCEPT ![b].phase = "cancelled", ![b].done = TRUE, ![b].tag = FALSE]
    /\ UNCHANGED <<clock, faults, seen, objects, pc, locals, retryAsked, rollback>>

\* RetryRelease: only a release-failed build, and only while no other build of the
\* service is active.
RetryRead(b) ==
    /\ b \in Retriable \ retryAsked
    /\ cr[b].phase = "release-failed"
    /\ cr[b].tag
    /\ \A o \in Builds \ {b} : ~Occupies(o)
    /\ retryAsked' = retryAsked \cup {b}
    /\ UNCHANGED <<clock, faults, cr, seen, objects, pc, locals, cancelling, rollback>>

RetryPatch(b) ==
    /\ b \in retryAsked
    /\ retryAsked' = retryAsked \ {b}
    /\ cr' = [cr EXCEPT ![b].phase = "running", ![b].retry = TRUE]
    /\ UNCHANGED <<clock, faults, seen, objects, pc, locals, cancelling, rollback>>

\* Rollback: the checks (a hold-expired build may be rolled to only where no release hook
\* has to run first), the instant, then a merge patch of the environment, then its crons.
RollbackRead(k) ==
    /\ rollback[k].step = "new"
    /\ \E e \in SourceEnvs, b \in Builds :
        /\ Exists(b)
        /\ \/ cr[b].phase = "succeeded"
           \/ cr[b].phase = "cancelled" /\ cr[b].expired /\ e \notin Hooked
        /\ cr[b].tag
        /\ rollback' = [rollback EXCEPT ![k] =
                          [step |-> "patch", env |-> e, build |-> b, at |-> clock]]
    /\ UNCHANGED <<clock, faults, cr, seen, objects, pc, locals, cancelling, retryAsked>>

RollbackPatch(k) ==
    /\ rollback[k].step = "patch"
    /\ image' = [image EXCEPT ![rollback[k].env] = rollback[k].build]
    /\ \E now \in rollback[k].at .. clock :
          promotedAt' = [promotedAt EXCEPT ![rollback[k].env] = now]
    /\ current' = [current EXCEPT ![rollback[k].env] = {}]
    /\ rollback' = [rollback EXCEPT ![k].step =
                      IF rollback[k].env = Production THEN "crons" ELSE "done"]
    /\ UNCHANGED <<clock, faults, cr, seen, awaiting, cron, released, pc, locals, cancelling,
                   retryAsked>>

RollbackCrons(k) ==
    /\ rollback[k].step = "crons"
    /\ cron' = [cron EXCEPT ![Production] = rollback[k].build]
    /\ rollback' = [rollback EXCEPT ![k].step = "done"]
    /\ UNCHANGED <<clock, faults, cr, seen, image, promotedAt, awaiting, current, released, pc,
                   locals, cancelling, retryAsked>>

-----------------------------------------------------------------------------
(* The cluster around them *)

Tick ==
    /\ clock < Horizon
    /\ clock' = clock + 1
    /\ UNCHANGED <<faults, cr, seen, objects, pc, locals, requests>>

\* The informer catches up.
Observe(b) ==
    /\ seen[b] # cr[b]
    /\ seen' = [seen EXCEPT ![b] = cr[b]]
    /\ UNCHANGED <<clock, faults, cr, objects, pc, locals, requests>>

\* Someone else (a spec edit, the scaler) writes another field of the environment.
ForeignWrite(e) ==
    /\ Fault
    /\ current[e] # {}
    /\ current' = [current EXCEPT ![e] = {}]
    /\ UNCHANGED <<clock, cr, seen, image, promotedAt, awaiting, cron, released, pc, locals,
                   requests>>

RunStep(r) ==
    \/ Start(r) \/ ReadPhase(r) \/ ListEnvs(r) \/ StampHeldSuperseded(r)
    \/ StampHoldExpired(r) \/ PickEnv(r)
    \/ HookSucceeds(r) \/ HookFails(r) \/ SnapshotFails(r) \/ MarkReleaseFailed(r)
    \/ GetEnv(r) \/ UpdateAccepted(r) \/ UpdateConflict(r) \/ EnvError(r)
    \/ FinishEnvs(r) \/ RepointCrons(r) \/ PickWorker(r) \/ RepointWorkerCrons(r)
    \/ FinishWorkers(r) \/ RetryLater(r) \/ Abandon(r) \/ Recheck(r) \/ StampSucceeded(r)
    \/ ReadRetried(r) \/ ClearRetry(r) \/ Interrupt(r)

BuildStep(b) ==
    \/ CancelRead(b) \/ CancelPatch(b) \/ RetryRead(b) \/ RetryPatch(b) \/ Observe(b)

RollbackStep(k) == RollbackRead(k) \/ RollbackPatch(k) \/ RollbackCrons(k)

Next ==
    \/ \E r \in Runs : RunStep(r)
    \/ \E b \in Builds : BuildStep(b)
    \/ \E k \in Requests : RollbackStep(k)
    \/ Tick
    \/ \E e \in Envs : ForeignWrite(e)

Spec == Init /\ [][Next]_vars

\* The leader ticks every few seconds, a started run's goroutine goes on, each call and
\* each release Job has a deadline, and the informer catches up.  What users do, what
\* other writers do and how often calls fail is not under the server's control.
Fairness ==
    /\ \A r \in Runs : WF_vars(RunStep(r))
    /\ \A b \in Builds : WF_vars(Observe(b))
    /\ WF_vars(Tick)

FairSpec == Spec /\ Fairness

-----------------------------------------------------------------------------
(* Properties *)

Register == INSTANCE EnvRegister

\* Last trigger wins.  Whatever promotions and rollbacks overlap, whoever loses a race on
\* the resourceVersion and tries again, no environment is ever moved to a build triggered
\* before what it stands for (promotedAtIsNewer, promoteEnvImageCAS, Rollback).
LastTriggerWins == Register!RegisterSpec

\* A user has rolled e back to b.
RolledTo(e, b) ==
    \E k \in Requests :
        rollback[k].env = e /\ rollback[k].build = b /\ rollback[k].step \in {"crons", "done"}

RolledBack(e) == \E b \in Builds : RolledTo(e, b)

\* A build is only ever stamped succeeded when each of its environments has it, or has
\* something newer, or was rolled back by a user: never green while an environment was
\* silently left behind (markSucceeded promotes before it stamps).
SucceededIsDeployed ==
    [][\A b \in Builds :
         cr[b].phase # "succeeded" /\ cr'[b].phase = "succeeded"
           => \A e \in SourceEnvs : promotedAt[e] >= Trigger[b] \/ RolledBack(e)]_vars

\* No promotion gives an environment with a release hook a build whose hook did not
\* complete on it, and was not skipped there for the sake of production's data: what it runs
\* was released there, or is what a user rolled it back to.
HookedRunsReleased ==
    \A e \in Hooked :
        image[e] # NoBuild => <<e, image[e]>> \in released \/ RolledTo(e, image[e])

\* A worker has no hook of its own: it only gets a build whose hook completed, or was
\* skipped, on every hooked environment of its source, or whose turn there had already
\* passed, to a newer build or to a user's rollback.
WorkerRunsReleased ==
    \A w \in Workers, e \in Hooked :
        image[w] # NoBuild => \/ <<e, image[w]>> \in released
                             \/ Newer(e, image[w])
                             \/ RolledBack(e)

\* An environment that has an image serves: its hold at zero replicas is over.
DeployedIsNotHeld == \A e \in Envs : image[e] # NoBuild => e \notin awaiting

\* Every build whose image is there, so that a poller promotes it, ends, and so frees the
\* slot of its service (a build that stayed active would queue all later builds of the
\* service forever): markSucceeded, promoteRetryExhausted.
EveryBuildEnds ==
    \A b \in {BuildOf(r) : r \in Runs} :
        Exists(b) /\ cr[b].phase = "running" ~> cr[b].phase # "running"
=============================================================================
