------------------------------ MODULE ReleaseRun ------------------------------
(***************************************************************************)
(* One release hook: the migration Job of one environment and one image    *)
(* (releaserun.go), whose name is the same for every attempt.  Run looks   *)
(* at the Job that holds the name, replaces it if it failed, and polls     *)
(* until it ends; a cancel of the build removes it (lifecycle.go).  Gets   *)
(* and deletes are live and go by name, polls read the informer's copy     *)
(* first.  What Promotion abstracts to HookSucceeds and HookFails.         *)
(***************************************************************************)
EXTENDS Naturals

CONSTANTS
    Runners,     \* calls of Run that may overlap: one, but for a leader overlap
    MaxJobs,     \* bound on the Jobs created under the name
    MaxCancels,  \* bound on cancels of the build
    MaxFaults    \* bound on failed calls and cancelled contexts

ASSUME ReleaseRunAssumption ==
    MaxJobs \in Nat /\ MaxCancels \in Nat /\ MaxFaults \in Nat

Jobs == 1 .. MaxJobs
None == 0

VARIABLES
    status,   \* [Jobs -> Status] of every Job ever created under the name
    made,     \* how many there have been
    live,     \* the Job that holds the name, or None
    cached,   \* the informer's copy: [job, status]
    deletedBy,\* [Jobs -> who deleted it]
    pc,       \* [Runners -> label]
    replaced, \* [Runners -> Jobs \cup {None}]: the failed Job this call set out to replace
    result,   \* [Runners -> [outcome, job]] of the last call
    cancel,   \* where the cancel is
    cancels, faults

vars == <<status, made, live, cached, deletedBy, pc, replaced, result, cancel, cancels, faults>>

\* A Job is pending until its pod is active; a deadline exceeded is a failure.
Status == {"unborn", "pending", "running", "complete", "failed"}
Outcomes == {"none", "skipped", "succeeded", "failed", "timedOut", "error"}

TypeOK ==
    /\ status \in [Jobs -> Status]
    /\ made \in 0..MaxJobs
    /\ live \in 0..made
    /\ cached \in [job : 0..MaxJobs, status : Status]
    /\ deletedBy \in [Jobs -> {"nobody", "runner", "cancel"}]
    /\ pc \in [Runners -> {"idle", "guard", "get", "delete", "await", "create", "poll"}]
    /\ replaced \in [Runners -> 0..MaxJobs]
    /\ result \in [Runners -> [outcome : Outcomes, job : 0..MaxJobs]]
    /\ cancel \in {"idle", "delete"}
    /\ cancels \in 0..MaxCancels
    /\ faults \in 0..MaxFaults

Init ==
    /\ status = [j \in Jobs |-> "unborn"]
    /\ made = 0
    /\ live = None
    /\ cached = [job |-> None, status |-> "unborn"]
    /\ deletedBy = [j \in Jobs |-> "nobody"]
    /\ pc = [r \in Runners |-> "idle"]
    /\ replaced = [r \in Runners |-> None]
    /\ result = [r \in Runners |-> [outcome |-> "none", job |-> None]]
    /\ cancel = "idle"
    /\ cancels = 0
    /\ faults = 0

Goto(r, l) == pc' = [pc EXCEPT ![r] = l]

Return(r, outcome, j) ==
    /\ Goto(r, "idle")
    /\ result' = [result EXCEPT ![r] = [outcome |-> outcome, job |-> j]]

Fault == faults < MaxFaults /\ faults' = faults + 1

Terminating == live # None /\ deletedBy[live] # "nobody"

\* The name is free at once, or only when the Job's finalizers are through.
DeleteByName(who) ==
    /\ live' \in {None, live}
    /\ deletedBy' = IF live = None \/ Terminating THEN deletedBy
                    ELSE [deletedBy EXCEPT ![live] = who]

-----------------------------------------------------------------------------
(* Run *)

Call(r) ==
    /\ pc[r] = "idle"
    /\ made < MaxJobs
    /\ Goto(r, "guard")
    /\ result' = [result EXCEPT ![r] = [outcome |-> "none", job |-> None]]
    /\ replaced' = [replaced EXCEPT ![r] = None]
    /\ UNCHANGED <<status, made, live, cached, deletedBy, cancel, cancels, faults>>

\* ProductionDataGuard: a hook that would migrate production's data from another
\* environment is not run, and counts as a success.
Guard(r) ==
    /\ pc[r] = "guard"
    /\ \/ Goto(r, "get") /\ UNCHANGED result
       \/ Return(r, "skipped", None)
    /\ UNCHANGED <<status, made, live, cached, deletedBy, replaced, cancel, cancels, faults>>

\* Mutant: whatever is not complete is an earlier attempt.
GetJobReplacesUnfinished(r) ==
    /\ pc[r] = "get"
    /\ \/ live = None /\ Goto(r, "create") /\ UNCHANGED replaced
       \/ live # None /\ status[live] = "complete" /\ Goto(r, "poll") /\ UNCHANGED replaced
       \/ /\ live # None
          /\ status[live] # "complete"
          /\ Goto(r, "delete")
          /\ replaced' = [replaced EXCEPT ![r] = live]
    /\ UNCHANGED <<status, made, live, cached, deletedBy, result, cancel, cancels, faults>>

\* A Job under the name is observed, whatever its phase, unless it failed.
GetJob(r) ==
    /\ pc[r] = "get"
    /\ \/ live = None /\ Goto(r, "create") /\ UNCHANGED replaced
       \/ live # None /\ status[live] # "failed" /\ Goto(r, "poll") /\ UNCHANGED replaced
       \/ /\ live # None
          /\ status[live] = "failed"
          /\ Goto(r, "delete")
          /\ replaced' = [replaced EXCEPT ![r] = live]
    /\ UNCHANGED <<status, made, live, cached, deletedBy, result, cancel, cancels, faults>>

\* replaceFailedJob
DeleteFailed(r) ==
    /\ pc[r] = "delete"
    /\ DeleteByName("runner")
    /\ Goto(r, "await")
    /\ UNCHANGED <<status, made, cached, replaced, result, cancel, cancels, faults>>

AwaitGone(r) ==
    /\ pc[r] = "await"
    /\ live = None
    /\ Goto(r, "create")
    /\ UNCHANGED <<status, made, live, cached, deletedBy, replaced, result, cancel, cancels,
                   faults>>

\* Half a minute later the name is still taken.
AwaitTimesOut(r) ==
    /\ pc[r] = "await"
    /\ live # None
    /\ Return(r, "error", None)
    /\ UNCHANGED <<status, made, live, cached, deletedBy, replaced, cancel, cancels, faults>>

\* AlreadyExists is no error: the Job that won is polled.
CreateJob(r) ==
    /\ pc[r] = "create"
    /\ IF live = None
         THEN /\ made < MaxJobs
              /\ made' = made + 1
              /\ live' = made + 1
              /\ status' = [status EXCEPT ![made + 1] = "pending"]
         ELSE UNCHANGED <<made, live, status>>
    /\ Goto(r, "poll")
    /\ UNCHANGED <<cached, deletedBy, replaced, result, cancel, cancels, faults>>

\* poll and getJobCached: the informer's copy if it has one, a live Get otherwise.
Observed == IF cached.job # None THEN cached
            ELSE [job |-> live, status |-> IF live = None THEN "unborn" ELSE status[live]]

\* Mutant: a Job that is gone was cleaned up after it completed.
PollEndsGoneIsDone(r) ==
    /\ pc[r] = "poll"
    /\ \/ Observed.status = "complete" /\ Return(r, "succeeded", Observed.job)
       \/ Observed.status = "failed" /\ Return(r, "failed", Observed.job)
       \/ Observed.job = None /\ Return(r, "succeeded", None)
    /\ UNCHANGED <<status, made, live, cached, deletedBy, replaced, cancel, cancels, faults>>

\* Mutant: a Job that is gone may come back.
PollEndsWaitsForGone(r) ==
    /\ pc[r] = "poll"
    /\ \/ Observed.status = "complete" /\ Return(r, "succeeded", Observed.job)
       \/ Observed.status = "failed" /\ Return(r, "failed", Observed.job)
    /\ UNCHANGED <<status, made, live, cached, deletedBy, replaced, cancel, cancels, faults>>

\* Mutant: the Job's condition is handed on as the outcome.
PollEndsRaw(r) ==
    /\ pc[r] = "poll"
    /\ Observed.status \in {"complete", "failed"} /\ Return(r, Observed.status, Observed.job)
    /\ UNCHANGED <<status, made, live, cached, deletedBy, replaced, cancel, cancels, faults>>

PollEnds(r) ==
    /\ pc[r] = "poll"
    /\ \/ Observed.status = "complete" /\ Return(r, "succeeded", Observed.job)
       \/ Observed.status = "failed" /\ Return(r, "failed", Observed.job)
       \/ Observed.job = None /\ Return(r, "error", None)
    /\ UNCHANGED <<status, made, live, cached, deletedBy, replaced, cancel, cancels, faults>>

\* A call fails, or the context ends.
GiveUp(r) ==
    /\ pc[r] # "idle"
    /\ Fault
    /\ Return(r, "error", None)
    /\ UNCHANGED <<status, made, live, cached, deletedBy, replaced, cancel, cancels>>

\* The Job should have met its own deadline 30 seconds ago, and nobody has said so.
PollExpires(r) ==
    /\ pc[r] = "poll"
    /\ Fault
    /\ Return(r, "timedOut", None)
    /\ UNCHANGED <<status, made, live, cached, deletedBy, replaced, cancel, cancels>>

-----------------------------------------------------------------------------
(* Cancel of the build: deleteReleaseJobs leaves a Job with an active pod alone *)

CancelList ==
    /\ cancel = "idle"
    /\ cancels < MaxCancels
    /\ cancels' = cancels + 1
    /\ live # None
    /\ status[live] # "running"
    /\ cancel' = "delete"
    /\ UNCHANGED <<status, made, live, cached, deletedBy, pc, replaced, result, faults>>

CancelDelete ==
    /\ cancel = "delete"
    /\ DeleteByName("cancel")
    /\ cancel' = "idle"
    /\ UNCHANGED <<status, made, cached, pc, replaced, result, cancels, faults>>

-----------------------------------------------------------------------------
(* The cluster *)

PodStarts ==
    /\ live # None
    /\ status[live] = "pending"
    /\ status' = [status EXCEPT ![live] = "running"]
    /\ UNCHANGED <<made, live, cached, deletedBy, pc, replaced, result, cancel, cancels, faults>>

JobEnds ==
    /\ live # None
    /\ status[live] \in {"pending", "running"}
    /\ \E s \in {"complete", "failed"} :
        /\ s = "complete" => status[live] = "running"
        /\ status' = [status EXCEPT ![live] = s]
    /\ UNCHANGED <<made, live, cached, deletedBy, pc, replaced, result, cancel, cancels, faults>>

Vanish ==
    /\ Terminating
    /\ live' = None
    /\ UNCHANGED <<status, made, cached, deletedBy, pc, replaced, result, cancel, cancels, faults>>

\* The informer catches up with what the apiserver holds.
Sync ==
    /\ cached' = [job |-> live, status |-> IF live = None THEN "unborn" ELSE status[live]]
    /\ cached' # cached
    /\ UNCHANGED <<status, made, live, deletedBy, pc, replaced, result, cancel, cancels, faults>>

\* What a call that has begun does next.
Proceed(r) ==
    \/ Guard(r) \/ GetJob(r) \/ DeleteFailed(r) \/ AwaitGone(r) \/ AwaitTimesOut(r)
    \/ CreateJob(r) \/ PollEnds(r) \/ PollExpires(r) \/ GiveUp(r)

Next ==
    \/ \E r \in Runners : Call(r) \/ Proceed(r)
    \/ CancelList \/ CancelDelete
    \/ PodStarts \/ JobEnds \/ Vanish \/ Sync

Spec == Init /\ [][Next]_vars

\* A call goes on (its loops have a ticker), a Job has a deadline, the informer catches
\* up.  Nothing makes a caller call again, or a pod start in time.
Fairness ==
    /\ \A r \in Runners : WF_vars(Proceed(r))
    /\ WF_vars(JobEnds)
    /\ WF_vars(Sync)

FairSpec == Spec /\ Fairness

-----------------------------------------------------------------------------
(* Properties *)

\* Run only reports a success for a Job that completed: not for one that was created by
\* somebody else and is still at work, nor for one that vanished while it was polled
\* (poll; its caller promotes the image on this word).
SuccessIsCompleted ==
    \A r \in Runners :
        result[r].outcome = "succeeded" =>
            result[r].job # None /\ status[result[r].job] = "complete"

\* The delete in replaceFailedJob goes by name, and the name is the same for every
\* attempt: it never hits a Job that did not fail, whatever a cancel does to the failed
\* one between the Get and the delete.
RunnerDeletesOnlyFailed ==
    \A j \in Jobs : deletedBy[j] = "runner" => status[j] = "failed"

\* A Job is an attempt at the hook; one that loses the name before it has ended is killed.
Fate ==
    [j \in Jobs |-> IF status[j] \notin {"pending", "running"} THEN status[j]
                    ELSE IF j = live THEN "working" ELSE "killed"]

Hook == INSTANCE ReleaseHook WITH
    Callers <- Runners, Attempts <- Jobs, NoAttempt <- None, fate <- Fate, answer <- result

\* What a call of Run returns is what became of a Job: a success completed and a failure
\* failed, in this attempt or an earlier one, whoever created it, whoever deletes it
\* meanwhile, and however old the copy is that poll reads; and no Job is created while
\* another is at work (Run, poll; markSucceeded promotes or fails on this word).
HookIsHonest == Hook!HookSpec

\* Every call of Run returns, also when the Job it polls is deleted under it: the poller's
\* goroutine for the build, and the build's slot, do not leak.
EveryRunReturns == \A r \in Runners : pc[r] # "idle" ~> pc[r] = "idle"

\* "A FAILED Job is a previous attempt, not a result to reuse": a call that replaced a
\* failed Job never reports that Job's failure as its own.
FailureIsFresh ==
    \A r \in Runners :
        result[r].outcome = "failed" /\ replaced[r] # None => result[r].job # replaced[r]
=============================================================================
