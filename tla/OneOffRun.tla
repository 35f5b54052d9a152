------------------------------- MODULE OneOffRun -------------------------------
(***************************************************************************)
(* A one-off run (internal/runs, the kusorun chart): a user's command as a  *)
(* Job that the Helm operator renders while spec.done is false.  The        *)
(* server's poller copies the Job's end to the CR and sets spec.done;       *)
(* Cancel does both and deletes the Job.  The poller reads informers, so    *)
(* the CR it judges may be older than the one it patches.                   *)
(***************************************************************************)
EXTENDS Naturals

CONSTANTS
    JobTTL,     \* ttlSecondsAfterFinished, in ticks
    MaxOutage,  \* the longest the poller is away, in ticks
    LostAfter,  \* the run's timeout and jobLostGrace
    MaxExecutions \* bound on starts of the command

ASSUME OneOffRunAssumption ==
    /\ JobTTL \in Nat /\ MaxOutage \in Nat /\ LostAfter \in Nat /\ MaxExecutions \in Nat
    /\ JobTTL > MaxOutage + 2

VARIABLES
    runPhase,     \* the CR's phase annotation; "none" before it is created, "gone" after
    runDone,      \* spec.done
    wasCancelled,
    runJob,       \* the Job under the run's name
    executions,   \* how often the command was started
    succeeded,    \* some execution completed
    ttlLeft,      \* ticks until the finished Job is removed
    runSeen, jobSeen, \* the informers' copies of runPhase and runJob
    look,         \* the poller in observe: the run as listed, the Job as read
    runOperator,     \* the Helm operator: idle, or about to apply what it read
    lookLate, operatorLate, \* that call began before the last tick of the clock
    user,         \* the user's Cancel
    age,          \* ticks since the run was created, up to LostAfter
    away          \* ticks since the poller was last through with the run

cr == <<runPhase, runDone, wasCancelled>>
job == <<runJob, executions, succeeded, ttlLeft>>
informers == <<runSeen, jobSeen>>
poller == <<look, lookLate>>
helm == <<runOperator, operatorLate>>
RunVars == <<cr, job, informers, poller, helm, user, age, away>>

RunPhases == {"none", "pending", "running", "succeeded", "failed", "cancelled", "gone"}
RunTerminal(p) == p \in {"succeeded", "failed", "cancelled"}
InFlight == {"pending", "running"}
JobStates == {"none", "pending", "active", "complete", "failed"}
JobOver(j) == j \in {"complete", "failed"}
NoLook == [at |-> "idle", snapshot |-> "none", job |-> "none"]

RunInit ==
    /\ runPhase = "none" /\ runSeen = "none"
    /\ runDone = FALSE /\ wasCancelled = FALSE
    /\ runJob = "none" /\ jobSeen = "none"
    /\ executions = 0
    /\ succeeded = FALSE
    /\ ttlLeft = JobTTL
    /\ look = NoLook
    /\ runOperator = "idle"
    /\ lookLate = FALSE /\ operatorLate = FALSE
    /\ user = "idle"
    /\ age = 0 /\ away = 0

Exists == runPhase \notin {"none", "gone"}

\* Create snapshots the production environment's image; without one there is no run.
CreateRun ==
    /\ runPhase = "none"
    /\ runPhase' = "pending"
    /\ UNCHANGED <<runDone, wasCancelled, job, informers, poller, helm, user, age, away>>

-----------------------------------------------------------------------------
(* The poller: tick, observe *)

\* A tick lists what the informer takes for unfinished, and reads each one's Job: the
\* informer's if it has one, a live Get otherwise.
Observe ==
    /\ look = NoLook
    /\ IF runSeen \in InFlight
         THEN /\ look' = [at |-> "patch", snapshot |-> runSeen,
                          job |-> IF jobSeen # "none" THEN jobSeen ELSE runJob]
              /\ UNCHANGED away
         ELSE away' = 0 /\ UNCHANGED look
    /\ UNCHANGED <<cr, job, informers, lookLate, helm, user, age>>

Through == look' = NoLook /\ lookLate' = FALSE /\ away' = 0

\* A merge patch, blind to what the CR says by now.
Patch(p, done) ==
    /\ look.at = "patch"
    /\ runPhase' = IF Exists THEN p ELSE runPhase
    /\ runDone' = IF Exists THEN runDone \/ done ELSE runDone
    /\ Through
    /\ UNCHANGED <<wasCancelled, job, informers, helm, user, age>>

JobOutcome == IF look.job = "complete" THEN "succeeded" ELSE "failed"

\* Mutant: the phase is patched, and spec.done is forgotten.
MarkFromJobNotDone == JobOver(look.job) /\ Patch(JobOutcome, FALSE)

\* Mutant: a Job with a terminal condition has succeeded.
MarkFromJobGreen == JobOver(look.job) /\ Patch("succeeded", TRUE)

\* markSucceeded, markFailed
MarkFromJob == JobOver(look.job) /\ Patch(JobOutcome, TRUE)

MarkRunning == look.job = "active" /\ look.snapshot # "running" /\ Patch("running", FALSE)

\* Mutant: a Job that is not there is one that is not there yet.
FailIfJobLostWaits == FALSE

\* Long after its own timeout a run without a Job is given up.
FailIfJobLost == look.job = "none" /\ age = LostAfter /\ Patch("failed", TRUE)

NothingToMark ==
    /\ look.at = "patch"
    /\ \/ look.job = "pending"
       \/ look.job = "active" /\ look.snapshot = "running"
       \/ look.job = "none" /\ age < LostAfter
    /\ Through
    /\ UNCHANGED <<cr, job, informers, helm, user, age>>

\* A call fails or the leader dies: a later tick looks again.
LookFails ==
    /\ look # NoLook
    /\ look' = NoLook
    /\ lookLate' = FALSE
    /\ UNCHANGED <<cr, job, informers, helm, user, age, away>>

\* A user's Delete reads the run itself, sweepFinishedRuns goes by the informer.
RemoveRun ==
    /\ Exists
    /\ RunTerminal(runSeen) \/ RunTerminal(runPhase)
    /\ runPhase' = "gone"
    /\ UNCHANGED <<runDone, wasCancelled, job, informers, poller, helm, user, age, away>>

-----------------------------------------------------------------------------
(* Cancel *)

CancelChecks ==
    /\ user = "idle"
    /\ runPhase \in InFlight
    /\ user' = "patch"
    /\ UNCHANGED <<cr, job, informers, poller, helm, age, away>>

CancelPatches ==
    /\ user = "patch"
    /\ IF Exists
         THEN /\ runPhase' = "cancelled"
              /\ runDone' = TRUE
              /\ wasCancelled' = TRUE
              /\ user' = "delete"
         ELSE user' = "idle" /\ UNCHANGED cr
    /\ UNCHANGED <<job, informers, poller, helm, age, away>>

\* The delete is best effort: a failure is logged.
CancelDeletesJob ==
    /\ user = "delete"
    /\ user' = "idle"
    /\ runJob' \in {"none", runJob}
    /\ UNCHANGED <<cr, executions, succeeded, ttlLeft, informers, poller, helm, age, away>>

-----------------------------------------------------------------------------
(* The Helm operator, the Job controller, the informers and time *)

\* The chart renders the Job while the run exists and is not done.
OperatorReads ==
    /\ runOperator = "idle"
    /\ runOperator' = IF Exists /\ ~runDone THEN "render" ELSE "remove"
    /\ UNCHANGED <<cr, job, informers, poller, operatorLate, user, age, away>>

OperatorApplies ==
    /\ runOperator # "idle"
    /\ runOperator' = "idle"
    /\ operatorLate' = FALSE
    /\ runJob' = IF runOperator = "remove" THEN "none"
                 ELSE IF runJob = "none" THEN "pending" ELSE runJob
    /\ ttlLeft' = IF runJob = "none" THEN JobTTL ELSE ttlLeft
    /\ UNCHANGED <<cr, executions, succeeded, informers, poller, user, age, away>>

RunPodStarts ==
    /\ runJob = "pending"
    /\ executions < MaxExecutions
    /\ runJob' = "active"
    /\ executions' = executions + 1
    /\ UNCHANGED <<cr, succeeded, ttlLeft, informers, poller, helm, user, age, away>>

\* backoffLimit is 0, and activeDeadlineSeconds ends what does not end by itself.
RunJobEnds ==
    /\ runJob \in {"pending", "active"}
    /\ \/ runJob = "active" /\ runJob' = "complete" /\ succeeded' = TRUE
       \/ runJob' = "failed" /\ UNCHANGED succeeded
    /\ UNCHANGED <<cr, executions, ttlLeft, informers, poller, helm, user, age, away>>

JobExpires ==
    /\ JobOver(runJob)
    /\ ttlLeft = 0
    /\ runJob' = "none"
    /\ UNCHANGED <<cr, executions, succeeded, ttlLeft, informers, poller, helm, user, age, away>>

SyncRun ==
    /\ runSeen # runPhase
    /\ runSeen' = runPhase
    /\ UNCHANGED <<cr, job, jobSeen, poller, helm, user, age, away>>

SyncJob ==
    /\ jobSeen # runJob
    /\ jobSeen' = runJob
    /\ UNCHANGED <<cr, job, runSeen, poller, helm, user, age, away>>

\* A tick is far longer than an informer lags, and no call of the poller, of Cancel or of
\* the operator lasts from one tick beyond the next.  The poller is never away for longer
\* than MaxOutage.
RunTick ==
    /\ Exists
    /\ away < MaxOutage
    /\ user = "idle" /\ ~lookLate /\ ~operatorLate
    /\ runSeen = runPhase /\ jobSeen = runJob
    /\ lookLate' = (look # NoLook)
    /\ operatorLate' = (runOperator # "idle")
    /\ away' = away + 1
    /\ age' = IF age < LostAfter THEN age + 1 ELSE age
    /\ ttlLeft' = IF JobOver(runJob) /\ ttlLeft > 0 THEN ttlLeft - 1 ELSE ttlLeft
    /\ UNCHANGED <<cr, runJob, executions, succeeded, informers, look, runOperator, user>>

RunNext ==
    \/ CreateRun
    \/ Observe \/ MarkFromJob \/ MarkRunning \/ FailIfJobLost \/ NothingToMark
    \/ LookFails \/ RemoveRun
    \/ CancelChecks \/ CancelPatches \/ CancelDeletesJob
    \/ OperatorReads \/ OperatorApplies
    \/ RunPodStarts \/ RunJobEnds \/ JobExpires \/ SyncRun \/ SyncJob
    \/ RunTick

RunSpec == RunInit /\ [][RunNext]_RunVars

\* The poller's ticker and the clock go on, a call that is tried for ever gets through
\* once, a Job has a deadline, what was begun ends.  Nothing makes the operator render the
\* Job, or its pod start.
RunFairness ==
    /\ WF_RunVars(Observe)
    /\ SF_RunVars(MarkFromJob \/ MarkRunning \/ FailIfJobLost \/ NothingToMark)
    /\ WF_RunVars(CancelPatches) /\ WF_RunVars(CancelDeletesJob)
    /\ WF_RunVars(OperatorApplies) /\ WF_RunVars(RunJobEnds)
    /\ WF_RunVars(SyncRun) /\ WF_RunVars(SyncJob) /\ SF_RunVars(RunTick)

-----------------------------------------------------------------------------
(* Properties *)

\* The command runs once, whatever the poller misses: spec.done is set before the finished
\* Job is removed, since the Job outlives any outage (job.yaml, ttlSecondsAfterFinished).  A
\* cancel may still cross with the operator, which then renders the deleted Job again.
CommandRunsOnce == executions <= 1 \/ wasCancelled

\* A run that was not cancelled is only shown as succeeded if its command completed, and
\* only as failed if it did not, or its Job had not appeared when it was given up (observe).
RunOutcomeIsTheJobs ==
    ~wasCancelled =>
        /\ runPhase = "succeeded" => succeeded
        /\ runPhase = "failed" /\ age < LostAfter => ~succeeded

\* Every run ends, and stays ended, also one whose Job never appears or was removed unseen
\* (failIfJobLost): "Such a run stayed non-terminal forever and was never GC'd".
EveryRunEnds == runPhase = "pending" ~> [](RunTerminal(runPhase) \/ runPhase = "gone")

\* A cancel that got through is not undone: the run is not shown as running, succeeded or
\* failed afterwards (runs.go: "Cancel marks a pending/running run as cancelled").  Violated.
CancelSticks == [][runPhase = "cancelled" => runPhase' \in {"cancelled", "gone"}]_runPhase
=============================================================================
