--------------------------- MODULE PromotionProofs ---------------------------
(***************************************************************************)
(* What holds of Promotion for every value of its constants: any number of *)
(* builds, environments, pollers and rollbacks, any schedule of faults.    *)
(* First that the last trigger wins; then that the release hook gates: no  *)
(* promotion gives an environment a build its hook did not pass, nor the   *)
(* workers that share the image; and that the succeeded stamp is never     *)
(* given to a build that was left out of an environment, where there are   *)
(* no hooks, or neither faults nor retries.                                *)
(***************************************************************************)
EXTENDS Promotion, TLAPS

-----------------------------------------------------------------------------
(* The inductive invariant *)

\* A run that is at an environment: only a hooked one's hook runs, and its attempts are
\* not used up while it is being written.
AtEnv ==
    \A r \in Runs :
        /\ pc[r] = "hook" => env[r] \in Hooked /\ attempt[r] = 0
        /\ pc[r] \in {"get", "update"} => attempt[r] < MaxAttempts

\* A run whose Get is still current may write: no newer trigger has got there since.
UpdateIsGuarded ==
    \A r \in Runs : pc[r] = "update" /\ r \in current[env[r]] => ~Newer(env[r], BuildOf(r))

\* A rollback is stamped after the trigger of the build it rolls to.
RollbackIsLater ==
    \A k \in Requests :
        rollback[k].step = "patch" =>
            /\ rollback[k].build \in Builds
            /\ Trigger[rollback[k].build] < rollback[k].at

IInv == TypeOK /\ AtEnv /\ UpdateIsGuarded /\ RollbackIsLater

-----------------------------------------------------------------------------
(* Helpers *)

LEMMA BuildOfRun == \A r \in Runs : BuildOf(r) \in Builds
BY PromotionAssumption DEF BuildOf

\* Moving a run to another label, with its locals as they were.
LEMMA GotoType ==
    ASSUME RunsTypeOK, NEW r \in Runs, NEW l \in Labels, Goto(r, l), UNCHANGED locals
    PROVE  RunsTypeOK'
BY DEF RunsTypeOK, Goto, locals

LEMMA EndLocalsType ==
    ASSUME RunsTypeOK, NEW r \in Runs, EndLocals(r)
    PROVE  /\ todo' \in [Runs -> SUBSET Envs]
           /\ env' \in [Runs -> Envs]
           /\ attempt' \in [Runs -> 0..MaxAttempts]
           /\ matched' \in [Runs -> BOOLEAN]
           /\ failed' \in [Runs -> BOOLEAN]
           /\ blocked' \in [Runs -> BOOLEAN]
<1>1. Production \in Envs /\ 0 \in 0..MaxAttempts
  BY PromotionAssumption DEF Envs
<1>. QED BY <1>1 DEF RunsTypeOK, EndLocals

LEMMA ReturnType ==
    ASSUME RunsTypeOK, NEW r \in Runs, Return(r)
    PROVE  RunsTypeOK'
<1>1. pc' \in [Runs -> Labels] /\ retrying' \in [Runs -> BOOLEAN]
  BY DEF RunsTypeOK, Return, Goto, Labels
<1>. QED BY <1>1, EndLocalsType DEF RunsTypeOK, Return

LEMMA QuitType ==
    ASSUME RunsTypeOK, NEW r \in Runs, Quit(r)
    PROVE  RunsTypeOK'
<1>1. pc' \in [Runs -> Labels] /\ retrying' \in [Runs -> BOOLEAN]
  BY DEF RunsTypeOK, Quit, Goto, Labels
<1>. QED BY <1>1, EndLocalsType DEF RunsTypeOK, Quit

LEMMA StampType ==
    ASSUME BuildsTypeOK, NEW b \in Builds, NEW phase \in Phases, Stamp(b, phase)
    PROVE  cr' \in [Builds -> Record]
<1>. DEFINE stamped == [cr[b] EXCEPT !.phase = phase, !.done = TRUE]
<1>1. stamped \in Record
  BY DEF BuildsTypeOK, Record
<1>2. cr' = [cr EXCEPT ![b] = stamped]
  BY DEF BuildsTypeOK, Stamp
<1>. HIDE DEF stamped
<1>. QED BY <1>1, <1>2 DEF BuildsTypeOK

LEMMA FaultType ==
    ASSUME BuildsTypeOK, Fault
    PROVE  faults' \in 0..MaxFaults
BY PromotionAssumption DEF BuildsTypeOK, Fault

LEMMA CommitType ==
    ASSUME ObjectsTypeOK, RunsTypeOK, NEW r \in Runs, Commit(r)
    PROVE  ObjectsTypeOK'
BY PromotionAssumption, BuildOfRun DEF ObjectsTypeOK, RunsTypeOK, Commit, Envs

-----------------------------------------------------------------------------
(* Types *)

LEMMA BuildsTypeStep ==
    ASSUME TypeOK, [Next]_vars
    PROVE  BuildsTypeOK'
<1>. USE BuildOfRun DEF TypeOK
<1>1. ASSUME NEW r \in Runs, RunStep(r) PROVE BuildsTypeOK'
  <2>1. CASE StampHeldSuperseded(r) \/ Abandon(r) \/ StampSucceeded(r)
    BY <2>1, StampType
    DEF StampHeldSuperseded, Abandon, StampSucceeded, BuildsTypeOK, Phases
  <2>2. CASE StampHoldExpired(r)
    <3>1. cr' = [cr EXCEPT ![BuildOf(r)] =
                   [cr[BuildOf(r)] EXCEPT !.phase = "cancelled", !.done = TRUE,
                                          !.expired = TRUE]]
      BY <2>2 DEF StampHoldExpired, BuildsTypeOK
    <3>4. cr[BuildOf(r)] \in Record /\ "cancelled" \in Phases
      BY DEF BuildsTypeOK, Phases
    <3>2. [cr[BuildOf(r)] EXCEPT !.phase = "cancelled", !.done = TRUE, !.expired = TRUE]
             \in Record
      BY <3>4 DEF Record
    <3>3. cr' \in [Builds -> Record]
      BY <3>1, <3>2 DEF BuildsTypeOK
    <3>. QED BY <2>2, <3>3 DEF StampHoldExpired, BuildsTypeOK
  <2>6. CASE ClearRetry(r)
    BY <2>6 DEF ClearRetry, BuildsTypeOK, Record
  <2>3. CASE MarkReleaseFailed(r)
    BY <2>3, StampType, FaultType DEF MarkReleaseFailed, BuildsTypeOK, Phases
  <2>4. CASE ReadPhase(r) \/ HookSucceeds(r) \/ HookFails(r) \/ SnapshotFails(r)
             \/ EnvError(r) \/ RepointCrons(r) \/ RepointWorkerCrons(r) \/ Recheck(r)
             \/ Interrupt(r)
    BY <2>4, FaultType
    DEF ReadPhase, HookSucceeds, HookFails, SnapshotFails, EnvError, RepointCrons,
        RepointWorkerCrons, Recheck, Interrupt, BuildsTypeOK
  <2>5. CASE Start(r) \/ ListEnvs(r) \/ PickEnv(r) \/ GetEnv(r) \/ UpdateAccepted(r)
             \/ UpdateConflict(r) \/ FinishEnvs(r) \/ PickWorker(r) \/ FinishWorkers(r)
             \/ RetryLater(r) \/ ReadRetried(r)
    BY <2>5
    DEF Start, ListEnvs, PickEnv, GetEnv, UpdateAccepted, UpdateConflict, FinishEnvs,
        PickWorker, FinishWorkers, RetryLater, ReadRetried, BuildsTypeOK
  <2>. QED BY <1>1, <2>1, <2>2, <2>3, <2>4, <2>5, <2>6 DEF RunStep
<1>2. ASSUME NEW b \in Builds, BuildStep(b) PROVE BuildsTypeOK'
  <2>1. CASE CancelPatch(b) \/ RetryPatch(b)
    <3>. DEFINE cancelled == [cr[b] EXCEPT !.phase = "cancelled", !.done = TRUE, !.tag = FALSE]
                running == [cr[b] EXCEPT !.phase = "running", !.retry = TRUE]
    <3>1. cr[b] \in Record /\ {"cancelled", "running"} \subseteq Phases
      BY DEF BuildsTypeOK, Phases
    <3>2. cancelled \in Record /\ running \in Record
      BY <3>1 DEF Record
    <3>3. cr' = [cr EXCEPT ![b] = cancelled] \/ cr' = [cr EXCEPT ![b] = running]
      BY <2>1 DEF CancelPatch, RetryPatch, BuildsTypeOK
    <3>4. cr' \in [Builds -> Record]
      <4>. HIDE DEF cancelled, running
      <4>. QED BY <3>2, <3>3 DEF BuildsTypeOK
    <3>. QED BY <2>1, <3>4 DEF CancelPatch, RetryPatch, BuildsTypeOK
  <2>2. CASE CancelRead(b) \/ RetryRead(b) \/ Observe(b)
    BY <2>2 DEF CancelRead, RetryRead, Observe, BuildsTypeOK
  <2>. QED BY <1>2, <2>1, <2>2 DEF BuildStep
<1>3. ASSUME NEW k \in Requests, RollbackStep(k) PROVE BuildsTypeOK'
  BY <1>3 DEF RollbackStep, RollbackRead, RollbackPatch, RollbackCrons, BuildsTypeOK
<1>4. CASE Tick
  BY <1>4, PromotionAssumption DEF Tick, BuildsTypeOK
<1>5. ASSUME NEW e \in Envs, ForeignWrite(e) PROVE BuildsTypeOK'
  BY <1>5, FaultType DEF ForeignWrite, BuildsTypeOK
<1>6. CASE UNCHANGED vars
  BY <1>6 DEF vars, BuildsTypeOK
<1>. QED BY <1>1, <1>2, <1>3, <1>4, <1>5, <1>6 DEF Next

LEMMA ObjectsTypeStep ==
    ASSUME TypeOK, AtEnv, [Next]_vars
    PROVE  ObjectsTypeOK'
<1>. USE BuildOfRun DEF TypeOK
<1>1. ASSUME NEW r \in Runs, RunStep(r) PROVE ObjectsTypeOK'
  <2>1. CASE UpdateAccepted(r)
    BY <2>1, CommitType DEF UpdateAccepted
  <2>2. CASE EnvError(r)
    <3>1. CASE Commit(r)
      BY <3>1, CommitType
    <3>2. CASE /\ current' = [current EXCEPT ![env[r]] = @ \ {r}]
               /\ UNCHANGED <<image, promotedAt, awaiting, cron, released>>
      BY <3>2 DEF ObjectsTypeOK, RunsTypeOK
    <3>. QED BY <2>2, <3>1, <3>2 DEF EnvError
  <2>3. CASE GetEnv(r)
    BY <2>3 DEF GetEnv, ObjectsTypeOK, RunsTypeOK
  <2>4. CASE HookSucceeds(r)
    BY <2>4 DEF HookSucceeds, ObjectsTypeOK, RunsTypeOK, AtEnv
  <2>5. CASE RepointCrons(r)
    BY <2>5 DEF RepointCrons, ObjectsTypeOK
  <2>6. CASE RepointWorkerCrons(r)
    BY <2>6 DEF RepointWorkerCrons, ObjectsTypeOK
  <2>7. CASE Interrupt(r)
    BY <2>7 DEF Interrupt, ObjectsTypeOK
  <2>8. CASE \/ Start(r) \/ ReadPhase(r) \/ ListEnvs(r) \/ StampHeldSuperseded(r)
             \/ StampHoldExpired(r) \/ PickEnv(r) \/ HookFails(r) \/ SnapshotFails(r)
             \/ MarkReleaseFailed(r) \/ UpdateConflict(r) \/ FinishEnvs(r) \/ PickWorker(r)
             \/ FinishWorkers(r) \/ RetryLater(r) \/ Abandon(r) \/ Recheck(r)
             \/ StampSucceeded(r) \/ ReadRetried(r) \/ ClearRetry(r)
    BY <2>8
    DEF Start, ReadPhase, ListEnvs, StampHeldSuperseded, StampHoldExpired, PickEnv,
        HookFails, SnapshotFails, MarkReleaseFailed, UpdateConflict, FinishEnvs, PickWorker,
        FinishWorkers, RetryLater, Abandon, Recheck, StampSucceeded, ReadRetried, ClearRetry,
        objects, ObjectsTypeOK
  <2>. QED BY <1>1, <2>1, <2>2, <2>3, <2>4, <2>5, <2>6, <2>7, <2>8 DEF RunStep
<1>2. ASSUME NEW b \in Builds, BuildStep(b) PROVE ObjectsTypeOK'
  BY <1>2 DEF BuildStep, CancelRead, CancelPatch, RetryRead, RetryPatch, Observe, objects,
              ObjectsTypeOK
<1>3. ASSUME NEW k \in Requests, RollbackStep(k) PROVE ObjectsTypeOK'
  <2>1. CASE RollbackRead(k)
    BY <2>1 DEF RollbackRead, objects, ObjectsTypeOK
  <2>2. CASE RollbackPatch(k)
    <3>1. /\ rollback[k].env \in SourceEnvs
          /\ rollback[k].build \in Builds \cup {NoBuild}
          /\ rollback[k].at \in 0..Horizon
          /\ clock \in 0..Horizon
      BY DEF RequestsTypeOK, BuildsTypeOK
    <3>2. \A now \in rollback[k].at .. clock : now \in 0..Horizon
      BY <3>1, PromotionAssumption
    <3>. QED BY <2>2, <3>1, <3>2 DEF RollbackPatch, ObjectsTypeOK
  <2>3. CASE RollbackCrons(k)
    <3>1. rollback[k].build \in Builds \cup {NoBuild}
      BY DEF RequestsTypeOK
    <3>. QED BY <2>3, <3>1 DEF RollbackCrons, ObjectsTypeOK
  <2>. QED BY <1>3, <2>1, <2>2, <2>3 DEF RollbackStep
<1>4. CASE Tick \/ UNCHANGED vars
  BY <1>4 DEF Tick, vars, objects, ObjectsTypeOK
<1>5. ASSUME NEW e \in Envs, ForeignWrite(e) PROVE ObjectsTypeOK'
  BY <1>5 DEF ForeignWrite, ObjectsTypeOK
<1>. QED BY <1>1, <1>2, <1>3, <1>4, <1>5 DEF Next

LEMMA RunsTypeStep ==
    ASSUME TypeOK, AtEnv, [Next]_vars
    PROVE  RunsTypeOK'
<1>. USE DEF TypeOK
<1>1. ASSUME NEW r \in Runs, RunStep(r) PROVE RunsTypeOK'
  <2>1. CASE Start(r)
    BY <2>1, PromotionAssumption, BuildOfRun
    DEF Start, Goto, RunsTypeOK, BuildsTypeOK, Record, Labels
  <2>2. CASE ReadPhase(r)
    BY <2>2, ReturnType, GotoType DEF ReadPhase, Labels
  <2>3. CASE ListEnvs(r)
    BY <2>3 DEF ListEnvs, Goto, RunsTypeOK, Labels, Envs
  <2>4. CASE StampHeldSuperseded(r) \/ StampHoldExpired(r) \/ Abandon(r) \/ StampSucceeded(r)
    BY <2>4, ReturnType DEF StampHeldSuperseded, StampHoldExpired, Abandon, StampSucceeded
  <2>5. CASE PickEnv(r)
    BY <2>5, PromotionAssumption DEF PickEnv, Goto, RunsTypeOK, Labels
  <2>6. CASE HookSucceeds(r)
    BY <2>6, GotoType DEF HookSucceeds, Labels
  <2>7. CASE HookFails(r)
    BY <2>7 DEF HookFails, Goto, RunsTypeOK, Labels
  <2>8. CASE SnapshotFails(r)
    BY <2>8 DEF SnapshotFails, Goto, RunsTypeOK, Labels
  <2>9. CASE MarkReleaseFailed(r) \/ RepointCrons(r) \/ RepointWorkerCrons(r)
    BY <2>9, GotoType DEF MarkReleaseFailed, RepointCrons, RepointWorkerCrons, Labels
  <2>10. CASE GetEnv(r)
    BY <2>10, GotoType DEF GetEnv, Loop, Labels
  <2>11. CASE UpdateAccepted(r)
    BY <2>11 DEF UpdateAccepted, Goto, RunsTypeOK, Labels
  <2>12. CASE UpdateConflict(r)
    <3>1. attempt[r] + 1 \in 0..MaxAttempts
      BY <2>12, PromotionAssumption DEF UpdateConflict, AtEnv, RunsTypeOK
    <3>2. attempt' \in [Runs -> 0..MaxAttempts]
      BY <2>12, <3>1 DEF UpdateConflict, RunsTypeOK
    <3>3. pc' \in [Runs -> Labels] /\ failed' \in [Runs -> BOOLEAN]
      BY <2>12 DEF UpdateConflict, Goto, Loop, RunsTypeOK, Labels
    <3>. QED BY <2>12, <3>2, <3>3 DEF UpdateConflict, RunsTypeOK
  <2>13. CASE EnvError(r)
    <3>1. pc' \in [Runs -> Labels] /\ failed' \in [Runs -> BOOLEAN]
      BY <2>13 DEF EnvError, Goto, Loop, RunsTypeOK, Labels
    <3>. QED BY <2>13, <3>1 DEF EnvError, RunsTypeOK
  <2>14. CASE FinishEnvs(r)
    <3>1. pc' \in [Runs -> Labels] /\ todo' \in [Runs -> SUBSET Envs]
      BY <2>14 DEF FinishEnvs, Goto, RunsTypeOK, Labels, Envs
    <3>. QED BY <2>14, <3>1 DEF FinishEnvs, RunsTypeOK
  <2>15. CASE PickWorker(r)
    <3>1. PICK w \in todo[r] :
            /\ todo' = [todo EXCEPT ![r] = @ \ {w}]
            /\ \/ UNCHANGED <<pc, env, attempt>>
               \/ /\ env' = [env EXCEPT ![r] = w]
                  /\ attempt' = [attempt EXCEPT ![r] = 0]
                  /\ Goto(r, "get")
      BY <2>15 DEF PickWorker
    <3>2. w \in Envs /\ 0 \in 0..MaxAttempts
      BY PromotionAssumption DEF RunsTypeOK
    <3>3. UNCHANGED <<matched, failed, blocked, retrying>>
      BY <2>15 DEF PickWorker
    <3>4. todo' \in [Runs -> SUBSET Envs]
      BY <3>1 DEF RunsTypeOK
    <3>5. pc' \in [Runs -> Labels] /\ env' \in [Runs -> Envs]
            /\ attempt' \in [Runs -> 0..MaxAttempts]
      BY <3>1, <3>2 DEF RunsTypeOK, Goto, Labels
    <3>. QED BY <3>3, <3>4, <3>5 DEF RunsTypeOK
  <2>16. CASE FinishWorkers(r)
    BY <2>16, GotoType DEF FinishWorkers, Labels
  <2>17. CASE RetryLater(r) \/ ClearRetry(r) \/ Interrupt(r)
    BY <2>17, QuitType DEF RetryLater, ClearRetry, Interrupt
  <2>18. CASE Recheck(r)
    BY <2>18, ReturnType, GotoType DEF Recheck, Labels
  <2>19. CASE ReadRetried(r)
    BY <2>19, QuitType, GotoType DEF ReadRetried, Labels
  <2>. QED
    BY <1>1, <2>1, <2>2, <2>3, <2>4, <2>5, <2>6, <2>7, <2>8, <2>9, <2>10, <2>11, <2>12,
       <2>13, <2>14, <2>15, <2>16, <2>17, <2>18, <2>19
    DEF RunStep
<1>2. ASSUME NEW b \in Builds, BuildStep(b) PROVE RunsTypeOK'
  BY <1>2 DEF BuildStep, CancelRead, CancelPatch, RetryRead, RetryPatch, Observe, locals,
              RunsTypeOK
<1>3. ASSUME NEW k \in Requests, RollbackStep(k) PROVE RunsTypeOK'
  BY <1>3 DEF RollbackStep, RollbackRead, RollbackPatch, RollbackCrons, locals, RunsTypeOK
<1>4. CASE Tick \/ UNCHANGED vars \/ \E e \in Envs : ForeignWrite(e)
  BY <1>4 DEF Tick, vars, ForeignWrite, locals, RunsTypeOK
<1>. QED BY <1>1, <1>2, <1>3, <1>4 DEF Next

LEMMA RequestsTypeStep ==
    ASSUME TypeOK, [Next]_vars
    PROVE  RequestsTypeOK'
<1>. USE PromotionAssumption DEF TypeOK
<1>1. ASSUME NEW r \in Runs, RunStep(r) PROVE RequestsTypeOK'
  BY <1>1
  DEF RunStep, Start, ReadPhase, ListEnvs, StampHeldSuperseded, StampHoldExpired, PickEnv,
      HookSucceeds, HookFails, SnapshotFails, MarkReleaseFailed, GetEnv, UpdateAccepted,
      UpdateConflict, EnvError, FinishEnvs, RepointCrons, PickWorker, RepointWorkerCrons,
      FinishWorkers, RetryLater, Abandon, Recheck, StampSucceeded, ReadRetried, ClearRetry,
      Interrupt, requests, RequestsTypeOK
<1>2. ASSUME NEW b \in Builds, BuildStep(b) PROVE RequestsTypeOK'
  BY <1>2 DEF BuildStep, CancelRead, CancelPatch, RetryRead, RetryPatch, Observe, requests,
              RequestsTypeOK
<1>3. ASSUME NEW k \in Requests, RollbackStep(k) PROVE RequestsTypeOK'
  <2>1. CASE RollbackRead(k)
    <3>1. PICK e \in SourceEnvs, b \in Builds :
            rollback' = [rollback EXCEPT ![k] =
                           [step |-> "patch", env |-> e, build |-> b, at |-> clock]]
      BY <2>1 DEF RollbackRead
    <3>2. clock \in 0..Horizon
      BY DEF BuildsTypeOK
    <3>. QED BY <2>1, <3>1, <3>2 DEF RollbackRead, RequestsTypeOK
  <2>2. CASE RollbackPatch(k)
    BY <2>2 DEF RollbackPatch, RequestsTypeOK
  <2>3. CASE RollbackCrons(k)
    BY <2>3 DEF RollbackCrons, RequestsTypeOK
  <2>. QED BY <1>3, <2>1, <2>2, <2>3 DEF RollbackStep
<1>4. CASE Tick \/ UNCHANGED vars \/ \E e \in Envs : ForeignWrite(e)
  BY <1>4 DEF Tick, vars, ForeignWrite, requests, RequestsTypeOK
<1>. QED BY <1>1, <1>2, <1>3, <1>4 DEF Next

-----------------------------------------------------------------------------
(* The rest of the invariant *)

LEMMA InitIInv == Init => IInv
<1>. SUFFICES ASSUME Init PROVE IInv
  OBVIOUS
<1>. USE PromotionAssumption DEF Init
<1>1. BuildsTypeOK
  BY DEF BuildsTypeOK, Fresh, Record, Phases
<1>2. ObjectsTypeOK
  BY DEF ObjectsTypeOK, Envs
<1>3. RunsTypeOK
  BY DEF RunsTypeOK, Labels, Envs
<1>4. RequestsTypeOK
  BY DEF RequestsTypeOK, Envs
<1>5. AtEnv /\ UpdateIsGuarded /\ RollbackIsLater
  BY DEF AtEnv, UpdateIsGuarded, RollbackIsLater
<1>. QED BY <1>1, <1>2, <1>3, <1>4, <1>5 DEF IInv, TypeOK

\* A step of one run moves that run's program counter and locals only.
LEMMA OneRunMoves ==
    ASSUME TypeOK, NEW r \in Runs, RunStep(r), NEW o \in Runs, o # r
    PROVE  /\ pc'[o] = pc[o]
           /\ env'[o] = env[o]
           /\ attempt'[o] = attempt[o]
           /\ todo'[o] = todo[o]
           /\ blocked'[o] = blocked[o]
           /\ failed'[o] = failed[o]
BY DEF TypeOK, RunsTypeOK, RunStep, Start, ReadPhase, ListEnvs, StampHeldSuperseded,
       StampHoldExpired, PickEnv, HookSucceeds, HookFails, SnapshotFails, MarkReleaseFailed,
       GetEnv, UpdateAccepted, UpdateConflict, EnvError, FinishEnvs, RepointCrons, PickWorker,
       RepointWorkerCrons, FinishWorkers, RetryLater, Abandon, Recheck, StampSucceeded,
       ReadRetried, ClearRetry, Interrupt, Goto, Return, Quit, EndLocals, locals

\* Steps that are no run's leave every run where it is.
LEMMA NoRunMoves ==
    ASSUME \/ \E b \in Builds : BuildStep(b)
           \/ \E k \in Requests : RollbackStep(k)
           \/ Tick
           \/ \E e \in Envs : ForeignWrite(e)
           \/ UNCHANGED vars
    PROVE  UNCHANGED <<pc, locals>>
BY DEF BuildStep, CancelRead, CancelPatch, RetryRead, RetryPatch, Observe, RollbackStep,
       RollbackRead, RollbackPatch, RollbackCrons, Tick, ForeignWrite, vars

LEMMA AtEnvStep ==
    ASSUME TypeOK, AtEnv, [Next]_vars
    PROVE  AtEnv'
<1>. USE PromotionAssumption DEF TypeOK, RunsTypeOK
<1>1. ASSUME NEW r \in Runs, RunStep(r), NEW o \in Runs
      PROVE  /\ pc'[o] = "hook" => env'[o] \in Hooked /\ attempt'[o] = 0
             /\ pc'[o] \in {"get", "update"} => attempt'[o] < MaxAttempts
  <2>1. CASE o # r
    BY <1>1, <2>1, OneRunMoves DEF AtEnv
  <2>2. CASE o = r
    <3>1. CASE PickEnv(r)
      BY <2>2, <3>1 DEF PickEnv, Goto
    <3>2. CASE HookSucceeds(r) \/ GetEnv(r)
      BY <2>2, <3>2 DEF HookSucceeds, GetEnv, Goto, Loop, locals, AtEnv
    <3>3. CASE UpdateConflict(r)
      BY <2>2, <3>3 DEF UpdateConflict, Goto, Loop
    <3>4. CASE PickWorker(r)
      BY <2>2, <3>4 DEF PickWorker, Goto
    <3>5. CASE pc'[r] \notin {"hook", "get", "update"}
      BY <2>2, <3>5
    <3>6. ASSUME \/ Start(r) \/ ReadPhase(r) \/ ListEnvs(r) \/ StampHeldSuperseded(r)
                 \/ StampHoldExpired(r) \/ HookFails(r) \/ SnapshotFails(r)
                 \/ MarkReleaseFailed(r) \/ UpdateAccepted(r) \/ EnvError(r) \/ FinishEnvs(r)
                 \/ RepointCrons(r) \/ RepointWorkerCrons(r) \/ FinishWorkers(r)
                 \/ RetryLater(r) \/ Abandon(r) \/ Recheck(r) \/ StampSucceeded(r)
                 \/ ReadRetried(r) \/ ClearRetry(r) \/ Interrupt(r)
          PROVE  pc'[r] \notin {"hook", "get", "update"}
      BY <3>6
      DEF Start, ReadPhase, ListEnvs, StampHeldSuperseded, StampHoldExpired, HookFails,
          SnapshotFails, MarkReleaseFailed, UpdateAccepted, EnvError, FinishEnvs,
          RepointCrons, RepointWorkerCrons, FinishWorkers, RetryLater, Abandon, Recheck,
          StampSucceeded, ReadRetried, ClearRetry, Interrupt, Goto, Return, Quit, Loop
    <3>. QED BY <1>1, <3>1, <3>2, <3>3, <3>4, <3>5, <3>6 DEF RunStep
  <2>. QED BY <2>1, <2>2
<1>2. CASE UNCHANGED <<pc, locals>>
  BY <1>2 DEF locals, AtEnv
<1>. QED BY <1>1, <1>2, NoRunMoves DEF Next, AtEnv

\* What a run does to the environments: commit, read, or nothing but give up its reads.
LEMMA WritesOfRun ==
    ASSUME TypeOK, NEW r \in Runs, RunStep(r)
    PROVE  \/ pc[r] = "update" /\ Commit(r) /\ pc'[r] # "update"
           \/ GetEnv(r)
           \/ /\ UNCHANGED <<image, promotedAt>>
              /\ pc'[r] # "update"
              /\ \A e \in Envs : current'[e] \subseteq current[e]
<1>. USE DEF TypeOK
<1>1. CASE UpdateAccepted(r)
  BY <1>1 DEF UpdateAccepted, Goto, RunsTypeOK
<1>2. CASE EnvError(r)
  <2>1. pc'[r] # "update"
    BY <1>2 DEF EnvError, Goto, Loop, RunsTypeOK
  <2>2. CASE pc[r] = "update" /\ Commit(r)
    BY <2>1, <2>2
  <2>3. CASE /\ current' = [current EXCEPT ![env[r]] = @ \ {r}]
             /\ UNCHANGED <<image, promotedAt, awaiting, cron, released>>
    BY <2>1, <2>3 DEF ObjectsTypeOK
  <2>. QED BY <1>2, <2>2, <2>3 DEF EnvError
<1>3. CASE Interrupt(r)
  BY <1>3 DEF Interrupt, Quit, Goto, RunsTypeOK, ObjectsTypeOK
<1>4. CASE GetEnv(r)
  BY <1>4
<1>5. ASSUME \/ Start(r) \/ ReadPhase(r) \/ ListEnvs(r) \/ StampHeldSuperseded(r)
             \/ StampHoldExpired(r) \/ PickEnv(r) \/ HookSucceeds(r) \/ HookFails(r)
             \/ SnapshotFails(r) \/ MarkReleaseFailed(r) \/ UpdateConflict(r)
             \/ FinishEnvs(r) \/ RepointCrons(r) \/ PickWorker(r) \/ RepointWorkerCrons(r)
             \/ FinishWorkers(r) \/ RetryLater(r) \/ Abandon(r) \/ Recheck(r)
             \/ StampSucceeded(r) \/ ReadRetried(r) \/ ClearRetry(r)
      PROVE  UNCHANGED <<image, promotedAt, current>> /\ pc'[r] # "update"
  BY <1>5
  DEF Start, ReadPhase, ListEnvs, StampHeldSuperseded, StampHoldExpired, PickEnv,
      HookSucceeds, HookFails, SnapshotFails, MarkReleaseFailed, UpdateConflict, FinishEnvs,
      RepointCrons, PickWorker, RepointWorkerCrons, FinishWorkers, RetryLater, Abandon,
      Recheck, StampSucceeded, ReadRetried, ClearRetry, Goto, Return, Quit, Loop, objects,
      RunsTypeOK
<1>. QED BY <1>1, <1>2, <1>3, <1>4, <1>5 DEF RunStep

\* And the other steps: a rollback's patch, or nothing but other writes.
LEMMA WritesOfOthers ==
    ASSUME TypeOK,
           \/ \E b \in Builds : BuildStep(b)
           \/ \E k \in Requests : RollbackStep(k)
           \/ Tick
           \/ \E e \in Envs : ForeignWrite(e)
           \/ UNCHANGED vars
    PROVE  \/ \E k \in Requests : RollbackPatch(k)
           \/ /\ UNCHANGED <<image, promotedAt>>
              /\ \A e \in Envs : current'[e] \subseteq current[e]
<1>1. CASE \E e \in Envs : ForeignWrite(e)
  BY <1>1 DEF ForeignWrite, TypeOK, ObjectsTypeOK
<1>2. CASE \/ \E b \in Builds : BuildStep(b)
           \/ \E k \in Requests : RollbackRead(k) \/ RollbackCrons(k)
           \/ Tick
           \/ UNCHANGED vars
  BY <1>2 DEF BuildStep, CancelRead, CancelPatch, RetryRead, RetryPatch, Observe,
              RollbackRead, RollbackCrons, Tick, vars, objects
<1>. QED BY <1>1, <1>2 DEF RollbackStep

LEMMA UpdateIsGuardedStep ==
    ASSUME TypeOK, UpdateIsGuarded, [Next]_vars
    PROVE  UpdateIsGuarded'
<1>. USE DEF TypeOK
<1>1. ASSUME NEW r \in Runs, RunStep(r), NEW o \in Runs,
             pc'[o] = "update", o \in current'[env'[o]]
      PROVE  ~(promotedAt'[env'[o]] > Trigger[BuildOf(o)])
  <2>1. CASE pc[r] = "update" /\ Commit(r) /\ pc'[r] # "update"
    <3>1. pc[o] = "update" /\ env'[o] = env[o]
      BY <1>1, <2>1, OneRunMoves
    <3>2. env[o] # env[r]
      BY <1>1, <2>1, <3>1 DEF Commit, ObjectsTypeOK, RunsTypeOK
    <3>3. o \in current[env[o]] /\ promotedAt'[env[o]] = promotedAt[env[o]]
      BY <1>1, <2>1, <3>1, <3>2 DEF Commit, ObjectsTypeOK, RunsTypeOK
    <3>. QED BY <3>1, <3>3 DEF UpdateIsGuarded, Newer
  <2>2. CASE GetEnv(r)
    <3>1. env'[o] = env[o] /\ UNCHANGED promotedAt
      BY <2>2 DEF GetEnv, locals
    <3>2. CASE o = r
      BY <1>1, <2>2, <3>1, <3>2 DEF GetEnv, Goto, Loop, Newer, RunsTypeOK
    <3>3. CASE o # r
      <4>1. pc[o] = "update" /\ o \in current[env[o]]
        BY <1>1, <2>2, <3>1, <3>3, OneRunMoves DEF GetEnv, ObjectsTypeOK, RunsTypeOK
      <4>. QED BY <4>1, <3>1 DEF UpdateIsGuarded, Newer
    <3>. QED BY <3>2, <3>3
  <2>3. CASE /\ UNCHANGED <<image, promotedAt>>
             /\ pc'[r] # "update"
             /\ \A e \in Envs : current'[e] \subseteq current[e]
    <3>1. pc[o] = "update" /\ env'[o] = env[o] /\ env[o] \in Envs
      BY <1>1, <2>3, OneRunMoves DEF RunsTypeOK
    <3>. QED BY <1>1, <2>3, <3>1 DEF UpdateIsGuarded, Newer
  <2>. QED BY <1>1, <2>1, <2>2, <2>3, WritesOfRun
<1>2. ASSUME UNCHANGED <<pc, locals>>, NEW o \in Runs,
             \/ \E k \in Requests : RollbackPatch(k)
             \/ /\ UNCHANGED <<image, promotedAt>>
                /\ \A e \in Envs : current'[e] \subseteq current[e],
             pc'[o] = "update", o \in current'[env'[o]]
      PROVE  ~(promotedAt'[env'[o]] > Trigger[BuildOf(o)])
  <2>1. pc[o] = "update" /\ env'[o] = env[o] /\ env[o] \in Envs
    BY <1>2 DEF locals, RunsTypeOK
  <2>2. ASSUME NEW k \in Requests, RollbackPatch(k)
        PROVE  ~(promotedAt'[env'[o]] > Trigger[BuildOf(o)])
    <3>1. env[o] # rollback[k].env
      BY <1>2, <2>1, <2>2 DEF RollbackPatch, ObjectsTypeOK
    <3>2. o \in current[env[o]] /\ promotedAt'[env[o]] = promotedAt[env[o]]
      BY <1>2, <2>1, <2>2, <3>1 DEF RollbackPatch, ObjectsTypeOK
    <3>. QED BY <2>1, <3>2 DEF UpdateIsGuarded, Newer
  <2>. QED BY <1>2, <2>1, <2>2 DEF UpdateIsGuarded, Newer
<1>. QED BY <1>1, <1>2, NoRunMoves, WritesOfOthers DEF Next, UpdateIsGuarded, Newer

\* Only a rollback's own steps touch it.
LEMMA OnlyRollbacksMove ==
    ASSUME [Next]_vars, ~ \E k \in Requests : RollbackStep(k)
    PROVE  UNCHANGED rollback
<1>1. ASSUME NEW r \in Runs, RunStep(r) PROVE UNCHANGED rollback
  BY <1>1
  DEF RunStep, Start, ReadPhase, ListEnvs, StampHeldSuperseded, StampHoldExpired, PickEnv,
      HookSucceeds, HookFails, SnapshotFails, MarkReleaseFailed, GetEnv, UpdateAccepted,
      UpdateConflict, EnvError, FinishEnvs, RepointCrons, PickWorker, RepointWorkerCrons,
      FinishWorkers, RetryLater, Abandon, Recheck, StampSucceeded, ReadRetried, ClearRetry,
      Interrupt, requests
<1>2. ASSUME \/ \E b \in Builds : BuildStep(b)
             \/ Tick
             \/ \E e \in Envs : ForeignWrite(e)
             \/ UNCHANGED vars
      PROVE  UNCHANGED rollback
  BY <1>2 DEF BuildStep, CancelRead, CancelPatch, RetryRead, RetryPatch, Observe, Tick,
              ForeignWrite, vars, requests
<1>. QED BY <1>1, <1>2 DEF Next

LEMMA RollbackIsLaterStep ==
    ASSUME TypeOK, RollbackIsLater, [Next]_vars
    PROVE  RollbackIsLater'
<1>. USE DEF TypeOK, RequestsTypeOK
<1>1. ASSUME NEW k \in Requests, RollbackStep(k) PROVE RollbackIsLater'
  <2>1. CASE RollbackRead(k)
    BY <2>1 DEF RollbackRead, RollbackIsLater, Exists
  <2>2. CASE RollbackPatch(k)
    BY <2>2 DEF RollbackPatch, RollbackIsLater
  <2>3. CASE RollbackCrons(k)
    BY <2>3 DEF RollbackCrons, RollbackIsLater
  <2>. QED BY <1>1, <2>1, <2>2, <2>3 DEF RollbackStep
<1>2. CASE UNCHANGED rollback
  BY <1>2 DEF RollbackIsLater
<1>. QED BY <1>1, <1>2, OnlyRollbacksMove

LEMMA IInvStep == IInv /\ [Next]_vars => IInv'
BY BuildsTypeStep, ObjectsTypeStep, RunsTypeStep, RequestsTypeStep, AtEnvStep,
   UpdateIsGuardedStep, RollbackIsLaterStep
DEF IInv, TypeOK

LEMMA Invariance == Spec => []IInv
BY InitIInv, IInvStep, PTL DEF Spec

-----------------------------------------------------------------------------

\* Whatever happens, the variables keep their types: in particular no run overruns its
\* attempts and no release Job is recorded for an environment without a hook.
THEOREM TypeCorrect == Spec => []TypeOK
BY Invariance, PTL DEF IInv

\* Every step is a write the register allows, or leaves it alone.
LEMMA StepRefinesRegister ==
    ASSUME IInv, [Next]_vars
    PROVE  [Register!RegisterNext]_(Register!register)
<1>. USE PromotionAssumption DEF IInv, TypeOK
<1>. DEFINE Writes(e, b, t) ==
       image' = [image EXCEPT ![e] = b] /\ promotedAt' = [promotedAt EXCEPT ![e] = t]
<1>1. ASSUME NEW r \in Runs, RunStep(r)
      PROVE  [Register!RegisterNext]_(Register!register)
  <2>1. CASE pc[r] = "update" /\ Commit(r)
    <3>1. env[r] \in Envs /\ BuildOf(r) \in Builds
      BY BuildOfRun DEF RunsTypeOK
    <3>2. promotedAt[env[r]] <= Trigger[BuildOf(r)]
      BY <2>1, <3>1 DEF UpdateIsGuarded, Newer, Commit, ObjectsTypeOK
    <3>3. Writes(env[r], BuildOf(r), Trigger[BuildOf(r)])
      BY <2>1 DEF Commit
    <3>. QED BY <3>1, <3>2, <3>3
         DEF Register!RegisterNext, Register!PromoteTo, Register!Write
  <2>2. CASE GetEnv(r)
    BY <2>2 DEF GetEnv, Register!register
  <2>3. CASE UNCHANGED <<image, promotedAt>>
    BY <2>3 DEF Register!register
  <2>. QED BY <1>1, <2>1, <2>2, <2>3, WritesOfRun
<1>2. ASSUME NEW k \in Requests, RollbackPatch(k)
      PROVE  [Register!RegisterNext]_(Register!register)
  <2>. DEFINE e == rollback[k].env
              b == rollback[k].build
  <2>1. e \in Envs /\ b \in Builds /\ Trigger[b] < rollback[k].at
      /\ rollback[k].at \in 0..Horizon /\ clock \in 0..Horizon /\ Trigger[b] \in 1..Horizon
    BY <1>2 DEF RollbackPatch, RollbackIsLater, RequestsTypeOK, BuildsTypeOK, Envs
  <2>2. PICK now \in rollback[k].at .. clock : Writes(e, b, now)
    BY <1>2 DEF RollbackPatch
  <2>3. now \in 1..Horizon /\ Trigger[b] < now
    BY <2>1, <2>2
  <2>. QED BY <2>1, <2>2, <2>3
       DEF Register!RegisterNext, Register!RollbackTo, Register!Write
<1>3. CASE UNCHANGED <<image, promotedAt>>
  BY <1>3 DEF Register!register
<1>. QED BY <1>1, <1>2, <1>3, WritesOfOthers DEF Next

\* Last trigger wins, for any number of builds, environments, pollers, rollbacks and faults.
THEOREM LastTriggerWinsHolds == Spec => LastTriggerWins
<1>1. Init => Register!RegisterInit
  BY DEF Init, Register!RegisterInit
<1>. QED
  BY <1>1, Invariance, StepRefinesRegister, PTL
  DEF Spec, LastTriggerWins, Register!RegisterSpec

-----------------------------------------------------------------------------
(* The hook gate *)

\* The hook of e is behind r: it completed or was skipped for r's build, or r came too late
\* for e, or a user has rolled e back.
Behind(r, e) ==
    <<e, BuildOf(r)>> \in released \/ Newer(e, BuildOf(r)) \/ RolledBack(e)

InWorkers(r) ==
    \/ pc[r] \in {"crons", "workers", "workerCrons"}
    \/ pc[r] \in {"get", "update"} /\ env[r] \in Workers

InSources(r) ==
    \/ pc[r] \in {"envs", "hook", "mark"}
    \/ pc[r] \in {"get", "update"} /\ env[r] \in SourceEnvs

\* The two loops of promoteImageCount; the second is only entered unblocked.
LoopsApart ==
    \A r \in Runs :
        /\ InSources(r) => todo[r] \subseteq SourceEnvs
        /\ InWorkers(r) => todo[r] \subseteq Workers /\ ~blocked[r]
        /\ pc[r] = "mark" => blocked[r]

\* Once a run has left an environment's turn, its hook is behind it, or it is blocked.
TurnsTaken ==
    \A r \in Runs, e \in Hooked :
        InSources(r) \/ InWorkers(r) =>
            \/ blocked[r]
            \/ e \in todo[r]
            \/ pc[r] = "hook" /\ e = env[r]
            \/ Behind(r, e)

\* It only writes a hooked environment after the hook completed or was skipped.
WriteIsReleased ==
    \A r \in Runs :
        pc[r] \in {"get", "update"} /\ env[r] \in Hooked => <<env[r], BuildOf(r)>> \in released

HookInv ==
    LoopsApart /\ TurnsTaken /\ WriteIsReleased /\ HookedRunsReleased /\ WorkerRunsReleased

LEMMA EnvsApart == SourceEnvs \cap Workers = {} /\ Hooked \subseteq SourceEnvs
BY PromotionAssumption

\* A rollback that was done stays done.
LEMMA RolledToStays ==
    ASSUME TypeOK, [Next]_vars, NEW e \in Envs, NEW b \in Builds, RolledTo(e, b)
    PROVE  RolledTo(e, b)'
<1>1. ASSUME NEW k \in Requests, RollbackStep(k) PROVE RolledTo(e, b)'
  BY <1>1 DEF RollbackStep, RollbackRead, RollbackPatch, RollbackCrons, RolledTo, TypeOK,
              RequestsTypeOK
<1>2. CASE UNCHANGED rollback
  BY <1>2 DEF RolledTo
<1>. QED BY <1>1, <1>2, OnlyRollbacksMove DEF Next

LEMMA RolledBackStays ==
    ASSUME TypeOK, [Next]_vars, NEW e \in Envs, RolledBack(e)
    PROVE  RolledBack(e)'
BY RolledToStays DEF RolledBack

\* Its patch is one of an environment of the service itself, and marks it as rolled back.
LEMMA PatchRollsBack ==
    ASSUME IInv, NEW k \in Requests, RollbackPatch(k)
    PROVE  \E e \in SourceEnvs, b \in Builds :
             /\ image' = [image EXCEPT ![e] = b]
             /\ \A o \in Envs : o # e => promotedAt'[o] = promotedAt[o]
             /\ RolledTo(e, b)'
<1>. USE DEF IInv, TypeOK, RequestsTypeOK, ObjectsTypeOK, RollbackPatch
<1>1. PICK e \in SourceEnvs, b \in Builds : e = rollback[k].env /\ b = rollback[k].build
  BY DEF RollbackIsLater
<1>2. PICK now \in rollback[k].at .. clock : promotedAt' = [promotedAt EXCEPT ![e] = now]
  BY <1>1
<1>3. \A o \in Envs : o # e => promotedAt'[o] = promotedAt[o]
  BY <1>2
<1>4. rollback'[k].env = e /\ rollback'[k].build = b /\ rollback'[k].step \in {"crons", "done"}
  BY <1>1
<1>5. image' = [image EXCEPT ![e] = b]
  BY <1>1
<1>6. RolledTo(e, b)'
  BY <1>4 DEF RolledTo
<1>. QED BY <1>3, <1>5, <1>6

\* What an environment stands for only moves on, until a user rolls it back.
LEMMA PromotedAtGrows ==
    ASSUME IInv, [Next]_vars, NEW e \in Envs
    PROVE  promotedAt'[e] >= promotedAt[e] \/ RolledBack(e)'
<1>. USE DEF IInv, TypeOK
<1>1. promotedAt[e] \in Nat
  BY PromotionAssumption DEF ObjectsTypeOK
<1>2. ASSUME NEW r \in Runs, pc[r] = "update", Commit(r)
      PROVE  promotedAt'[e] >= promotedAt[e]
  <2>1. env[r] \in Envs /\ Trigger[BuildOf(r)] \in Nat
    BY PromotionAssumption, BuildOfRun DEF RunsTypeOK
  <2>2. promotedAt[env[r]] <= Trigger[BuildOf(r)]
    BY <1>2, <2>1, PromotionAssumption DEF UpdateIsGuarded, Newer, Commit, ObjectsTypeOK
  <2>3. promotedAt' = [promotedAt EXCEPT ![env[r]] = Trigger[BuildOf(r)]]
    BY <1>2 DEF Commit
  <2>. QED BY <1>1, <2>1, <2>2, <2>3 DEF ObjectsTypeOK
<1>3. ASSUME UNCHANGED promotedAt PROVE promotedAt'[e] >= promotedAt[e]
  BY <1>1, <1>3
<1>4. ASSUME NEW r \in Runs, GetEnv(r) PROVE UNCHANGED promotedAt
  BY <1>4 DEF GetEnv
<1>5. ASSUME NEW k \in Requests, RollbackPatch(k)
      PROVE  promotedAt'[e] >= promotedAt[e] \/ RolledBack(e)'
  BY <1>1, <1>5, PatchRollsBack DEF RolledBack
<1>. QED BY <1>2, <1>3, <1>4, <1>5, WritesOfRun, WritesOfOthers DEF Next

LEMMA ReleasedGrows ==
    ASSUME [Next]_vars
    PROVE  released \subseteq released'
<1>1. ASSUME NEW r \in Runs, RunStep(r) PROVE released \subseteq released'
  BY <1>1
  DEF RunStep, Start, ReadPhase, ListEnvs, StampHeldSuperseded, StampHoldExpired, PickEnv,
      HookSucceeds, HookFails, SnapshotFails, MarkReleaseFailed, GetEnv, UpdateAccepted,
      UpdateConflict, EnvError, Commit, FinishEnvs, RepointCrons, PickWorker,
      RepointWorkerCrons, FinishWorkers, RetryLater, Abandon, Recheck, StampSucceeded,
      ReadRetried, ClearRetry, Interrupt, objects
<1>2. ASSUME \/ \E b \in Builds : BuildStep(b)
             \/ \E k \in Requests : RollbackStep(k)
             \/ Tick
             \/ \E e \in Envs : ForeignWrite(e)
             \/ UNCHANGED vars
      PROVE  UNCHANGED released
  BY <1>2 DEF BuildStep, CancelRead, CancelPatch, RetryRead, RetryPatch, Observe,
              RollbackStep, RollbackRead, RollbackPatch, RollbackCrons, Tick, ForeignWrite,
              vars, objects
<1>. QED BY <1>1, <1>2 DEF Next

LEMMA BehindStays ==
    ASSUME IInv, [Next]_vars, NEW r \in Runs, NEW e \in Hooked, Behind(r, e)
    PROVE  Behind(r, e)'
<1>1. e \in Envs /\ Trigger[BuildOf(r)] \in Nat
  BY PromotionAssumption, BuildOfRun DEF Envs
<1>2. promotedAt[e] \in Nat /\ promotedAt'[e] \in Nat
  BY <1>1, IInvStep, PromotionAssumption DEF IInv, TypeOK, ObjectsTypeOK
<1>3. promotedAt'[e] >= promotedAt[e] \/ RolledBack(e)'
  BY <1>1, PromotedAtGrows
<1>4. RolledBack(e) => RolledBack(e)'
  BY <1>1, RolledBackStays DEF IInv
<1>. QED BY <1>1, <1>2, <1>3, <1>4, ReleasedGrows DEF Behind, Newer, BuildOf

LEMMA LoopsApartStep ==
    ASSUME TypeOK, AtEnv, LoopsApart, [Next]_vars
    PROVE  LoopsApart'
<1>. USE EnvsApart DEF TypeOK, RunsTypeOK, InSources, InWorkers
<1>1. ASSUME NEW r \in Runs, RunStep(r), NEW o \in Runs
      PROVE  /\ InSources(o)' => todo'[o] \subseteq SourceEnvs
             /\ InWorkers(o)' => todo'[o] \subseteq Workers /\ ~blocked'[o]
             /\ pc'[o] = "mark" => blocked'[o]
  <2>1. CASE o # r
    BY <1>1, <2>1, OneRunMoves DEF LoopsApart
  <2>2. CASE o = r
    <3>1. CASE ListEnvs(r)
      BY <2>2, <3>1 DEF ListEnvs, Goto
    <3>2. CASE PickEnv(r)
      BY <2>2, <3>2 DEF PickEnv, Goto, LoopsApart
    <3>3. CASE HookSucceeds(r)
      BY <2>2, <3>3 DEF HookSucceeds, Goto, locals, LoopsApart, AtEnv
    <3>4. CASE HookFails(r) \/ SnapshotFails(r)
      BY <2>2, <3>4 DEF HookFails, SnapshotFails, Goto, LoopsApart
    <3>5. CASE MarkReleaseFailed(r)
      BY <2>2, <3>5 DEF MarkReleaseFailed, Goto, locals, LoopsApart
    <3>6. CASE GetEnv(r)
      BY <2>2, <3>6 DEF GetEnv, Goto, Loop, locals, LoopsApart, Envs
    <3>7. CASE UpdateAccepted(r)
      BY <2>2, <3>7 DEF UpdateAccepted, Goto, LoopsApart, Envs
    <3>8. CASE UpdateConflict(r)
      BY <2>2, <3>8 DEF UpdateConflict, Goto, Loop, LoopsApart, Envs
    <3>9. CASE EnvError(r)
      BY <2>2, <3>9 DEF EnvError, Goto, Loop, LoopsApart, Envs
    <3>10. CASE FinishEnvs(r)
      BY <2>2, <3>10 DEF FinishEnvs, Goto
    <3>11. CASE PickWorker(r)
      BY <2>2, <3>11 DEF PickWorker, Goto, LoopsApart
    <3>12. CASE RepointCrons(r) \/ RepointWorkerCrons(r)
      BY <2>2, <3>12 DEF RepointCrons, RepointWorkerCrons, Goto, locals, LoopsApart
    <3>13. ASSUME \/ Start(r) \/ ReadPhase(r) \/ StampHeldSuperseded(r)
                  \/ StampHoldExpired(r) \/ FinishWorkers(r) \/ RetryLater(r) \/ Abandon(r)
                  \/ Recheck(r) \/ StampSucceeded(r) \/ ReadRetried(r) \/ ClearRetry(r)
                  \/ Interrupt(r)
           PROVE  pc'[r] \in {"idle", "read", "gate", "recheck", "fail", "stamp", "clear",
                              "clearPatch"}
      BY <3>13
      DEF Start, ReadPhase, StampHeldSuperseded, StampHoldExpired, FinishWorkers, RetryLater,
          Abandon, Recheck, StampSucceeded, ReadRetried, ClearRetry, Interrupt, Goto, Return,
          Quit
    <3>. QED BY <1>1, <2>2, <3>1, <3>2, <3>3, <3>4, <3>5, <3>6, <3>7, <3>8, <3>9, <3>10,
                <3>11, <3>12, <3>13 DEF RunStep
  <2>. QED BY <2>1, <2>2
<1>2. CASE UNCHANGED <<pc, locals>>
  BY <1>2 DEF locals, LoopsApart
<1>. QED BY <1>1, <1>2, NoRunMoves DEF Next, LoopsApart

LEMMA TurnsTakenStep ==
    ASSUME IInv, LoopsApart, TurnsTaken, [Next]_vars
    PROVE  TurnsTaken'
<1>. USE EnvsApart DEF IInv, TypeOK, RunsTypeOK, InSources, InWorkers
<1>. DEFINE Taken(r, e) ==
       InSources(r) \/ InWorkers(r) =>
         blocked[r] \/ e \in todo[r] \/ (pc[r] = "hook" /\ e = env[r]) \/ Behind(r, e)
<1>1. ASSUME NEW r \in Runs, RunStep(r), NEW o \in Runs, NEW e \in Hooked PROVE Taken(o, e)'
  <2>0. Behind(o, e) => Behind(o, e)'
    BY BehindStays
  <2>1. CASE o # r
    BY <1>1, <2>0, <2>1, OneRunMoves DEF TurnsTaken
  <2>2. CASE o = r
    <3>. USE <2>0, <2>2
    <3>1. CASE ListEnvs(r)
      <4>1. e \in todo'[r] \/ Behind(r, e)
        BY <3>1 DEF ListEnvs, Behind
      <4>. QED BY <3>1, <4>1
    <3>2. CASE PickEnv(r)
      BY <3>2 DEF PickEnv, Goto, TurnsTaken
    <3>3. CASE HookSucceeds(r)
      <4>1. e = env[r] => Behind(r, e)'
        BY <3>3 DEF HookSucceeds, Behind
      <4>. QED BY <3>3, <4>1 DEF HookSucceeds, Goto, locals, TurnsTaken
    <3>4. CASE HookFails(r) \/ SnapshotFails(r)
      BY <3>4 DEF HookFails, SnapshotFails, Goto
    <3>5. CASE MarkReleaseFailed(r)
      BY <3>5 DEF MarkReleaseFailed, Goto, locals, LoopsApart
    <3>6. CASE GetEnv(r)
      BY <3>6 DEF GetEnv, Goto, Loop, locals, TurnsTaken, Envs
    <3>7. CASE UpdateAccepted(r)
      BY <3>7 DEF UpdateAccepted, Goto, TurnsTaken, Envs
    <3>8. CASE UpdateConflict(r)
      BY <3>8 DEF UpdateConflict, Goto, Loop, TurnsTaken, Envs
    <3>9. CASE EnvError(r)
      BY <3>9 DEF EnvError, Goto, Loop, TurnsTaken, Envs
    <3>10. CASE FinishEnvs(r)
      BY <3>10 DEF FinishEnvs, Goto, TurnsTaken
    <3>11. CASE PickWorker(r)
      <4>1. PICK w \in todo[r] :
              /\ todo' = [todo EXCEPT ![r] = @ \ {w}]
              /\ pc'[r] \in {"workers", "get"}
        BY <3>11 DEF PickWorker, Goto
      <4>2. w \in Workers /\ pc[r] = "workers" /\ UNCHANGED blocked
        BY <3>11 DEF PickWorker, LoopsApart
      <4>. QED BY <4>1, <4>2 DEF TurnsTaken
    <3>12. CASE RepointCrons(r) \/ RepointWorkerCrons(r)
      BY <3>12 DEF RepointCrons, RepointWorkerCrons, Goto, locals, TurnsTaken
    <3>13. ASSUME \/ Start(r) \/ ReadPhase(r) \/ StampHeldSuperseded(r)
                  \/ StampHoldExpired(r) \/ FinishWorkers(r) \/ RetryLater(r) \/ Abandon(r)
                  \/ Recheck(r) \/ StampSucceeded(r) \/ ReadRetried(r) \/ ClearRetry(r)
                  \/ Interrupt(r)
           PROVE  pc'[r] \in {"idle", "read", "gate", "recheck", "fail", "stamp", "clear",
                              "clearPatch"}
      BY <3>13
      DEF Start, ReadPhase, StampHeldSuperseded, StampHoldExpired, FinishWorkers, RetryLater,
          Abandon, Recheck, StampSucceeded, ReadRetried, ClearRetry, Interrupt, Goto, Return,
          Quit
    <3>. QED BY <1>1, <3>1, <3>2, <3>3, <3>4, <3>5, <3>6, <3>7, <3>8, <3>9, <3>10, <3>11,
                <3>12, <3>13 DEF RunStep
  <2>. QED BY <2>1, <2>2
<1>2. CASE UNCHANGED <<pc, locals>>
  BY <1>2, BehindStays DEF locals, TurnsTaken
<1>. QED BY <1>1, <1>2, NoRunMoves DEF Next, TurnsTaken

LEMMA WriteIsReleasedStep ==
    ASSUME IInv, LoopsApart, WriteIsReleased, [Next]_vars
    PROVE  WriteIsReleased'
<1>. USE EnvsApart DEF IInv, TypeOK, RunsTypeOK
<1>1. ASSUME NEW r \in Runs, RunStep(r), NEW o \in Runs,
             pc'[o] \in {"get", "update"}, env'[o] \in Hooked
      PROVE  <<env'[o], BuildOf(o)>> \in released'
  <2>1. CASE o # r
    BY <1>1, <2>1, OneRunMoves, ReleasedGrows DEF WriteIsReleased
  <2>2. CASE o = r
    <3>1. CASE HookSucceeds(r)
      BY <1>1, <2>2, <3>1 DEF HookSucceeds, locals
    <3>2. CASE GetEnv(r) \/ UpdateConflict(r)
      BY <1>1, <2>2, <3>2, ReleasedGrows
      DEF GetEnv, UpdateConflict, Goto, Loop, locals, objects, WriteIsReleased
    <3>3. CASE PickEnv(r)
      BY <1>1, <2>2, <3>3 DEF PickEnv, Goto
    <3>4. CASE PickWorker(r)
      BY <1>1, <2>2, <3>4 DEF PickWorker, Goto, LoopsApart, InWorkers
    <3>5. ASSUME \/ Start(r) \/ ReadPhase(r) \/ ListEnvs(r) \/ StampHeldSuperseded(r)
                 \/ StampHoldExpired(r) \/ HookFails(r) \/ SnapshotFails(r)
                 \/ MarkReleaseFailed(r) \/ UpdateAccepted(r) \/ EnvError(r) \/ FinishEnvs(r)
                 \/ RepointCrons(r) \/ RepointWorkerCrons(r) \/ FinishWorkers(r)
                 \/ RetryLater(r) \/ Abandon(r) \/ Recheck(r) \/ StampSucceeded(r)
                 \/ ReadRetried(r) \/ ClearRetry(r) \/ Interrupt(r)
          PROVE  pc'[r] \notin {"get", "update"}
      BY <3>5
      DEF Start, ReadPhase, ListEnvs, StampHeldSuperseded, StampHoldExpired, HookFails,
          SnapshotFails, MarkReleaseFailed, UpdateAccepted, EnvError, FinishEnvs,
          RepointCrons, RepointWorkerCrons, FinishWorkers, RetryLater, Abandon, Recheck,
          StampSucceeded, ReadRetried, ClearRetry, Interrupt, Goto, Return, Quit, Loop
    <3>. QED BY <1>1, <2>2, <3>1, <3>2, <3>3, <3>4, <3>5 DEF RunStep
  <2>. QED BY <2>1, <2>2
<1>2. CASE UNCHANGED <<pc, locals>>
  BY <1>2, ReleasedGrows DEF locals, WriteIsReleased
<1>. QED BY <1>1, <1>2, NoRunMoves DEF Next, WriteIsReleased

\* An image is only ever written by a commit or by a rollback's patch.
LEMMA ImageIsWritten ==
    ASSUME TypeOK, [Next]_vars
    PROVE  \/ UNCHANGED image
           \/ \E r \in Runs : pc[r] = "update" /\ Commit(r)
           \/ \E k \in Requests : RollbackPatch(k)
<1>1. ASSUME NEW r \in Runs, GetEnv(r) PROVE UNCHANGED image
  BY <1>1 DEF GetEnv
<1>. QED BY <1>1, WritesOfRun, WritesOfOthers DEF Next

LEMMA HookedRunsReleasedStep ==
    ASSUME IInv, HookInv, [Next]_vars
    PROVE  HookedRunsReleased'
<1>. USE DEF IInv, TypeOK, ObjectsTypeOK, RunsTypeOK, HookInv
<1>1. SUFFICES ASSUME NEW e \in Hooked, NEW b \in Builds, image'[e] = b
               PROVE  <<e, b>> \in released' \/ RolledTo(e, b)'
  <2>1. \A e \in Hooked : image'[e] \in Builds \cup {NoBuild}
    BY EnvsApart, IInvStep DEF Envs
  <2>. QED BY <2>1 DEF HookedRunsReleased, RolledTo
<1>2. e \in Envs
  BY EnvsApart DEF Envs
<1>3. CASE image[e] = b
  <2>1. <<e, b>> \in released \/ RolledTo(e, b)
    BY <1>3, PromotionAssumption DEF HookedRunsReleased
  <2>. QED BY <1>2, <2>1, ReleasedGrows, RolledToStays
<1>4. ASSUME NEW r \in Runs, pc[r] = "update", Commit(r), image[e] # b
      PROVE  <<e, b>> \in released'
  <2>1. image' = [image EXCEPT ![env[r]] = BuildOf(r)] /\ released' = released
    BY <1>4 DEF Commit
  <2>2. e = env[r] /\ b = BuildOf(r)
    BY <1>1, <1>2, <1>4, <2>1
  <2>. QED BY <1>4, <2>1, <2>2 DEF WriteIsReleased
<1>5. ASSUME NEW k \in Requests, RollbackPatch(k), image[e] # b
      PROVE  RolledTo(e, b)'
  <2>1. PICK o \in SourceEnvs, d \in Builds :
          image' = [image EXCEPT ![o] = d] /\ RolledTo(o, d)'
    BY <1>5, PatchRollsBack
  <2>. QED BY <1>1, <1>2, <1>5, <2>1
<1>. QED BY <1>1, <1>3, <1>4, <1>5, ImageIsWritten

LEMMA WorkerRunsReleasedStep ==
    ASSUME IInv, HookInv, [Next]_vars
    PROVE  WorkerRunsReleased'
<1>. USE EnvsApart DEF IInv, TypeOK, ObjectsTypeOK, RunsTypeOK, HookInv
<1>. DEFINE Passed(e, b) == <<e, b>> \in released \/ Newer(e, b) \/ RolledBack(e)
<1>1. SUFFICES ASSUME NEW w \in Workers, NEW e \in Hooked, NEW b \in Builds, image'[w] = b
               PROVE  Passed(e, b)'
  <2>1. \A w \in Workers : image'[w] \in Builds \cup {NoBuild}
    BY IInvStep DEF Envs
  <2>. QED BY <2>1 DEF WorkerRunsReleased, Newer
<1>2. w \in Envs /\ e \in Envs
  BY DEF Envs
<1>3. Passed(e, b) => Passed(e, b)'
  <2>1. RolledBack(e) => RolledBack(e)'
    BY <1>2, RolledBackStays
  <2>2. Trigger[b] \in Nat /\ promotedAt[e] \in Nat /\ promotedAt'[e] \in Nat
    BY <1>2, IInvStep, PromotionAssumption
  <2>3. promotedAt'[e] >= promotedAt[e] \/ RolledBack(e)'
    BY <1>2, PromotedAtGrows
  <2>. QED BY <2>1, <2>2, <2>3, ReleasedGrows DEF Newer
<1>4. CASE image[w] = b
  BY <1>3, <1>4, PromotionAssumption DEF WorkerRunsReleased
<1>5. ASSUME NEW r \in Runs, pc[r] = "update", Commit(r), image[w] # b
      PROVE  Passed(e, b)'
  <2>1. image' = [image EXCEPT ![env[r]] = BuildOf(r)]
    BY <1>5 DEF Commit
  <2>2. w = env[r] /\ b = BuildOf(r)
    BY <1>1, <1>2, <1>5, <2>1
  <2>3. Behind(r, e)
    BY <1>5, <2>2 DEF LoopsApart, TurnsTaken, InWorkers
  <2>. QED BY <1>3, <2>2, <2>3 DEF Behind
<1>6. ASSUME NEW k \in Requests, RollbackPatch(k)
      PROVE  image[w] = b
  BY <1>1, <1>2, <1>6, PatchRollsBack
<1>. QED BY <1>1, <1>4, <1>5, <1>6, ImageIsWritten

LEMMA HookInvariance == Spec => []HookInv
<1>1. Init => HookInv
  BY PromotionAssumption
  DEF Init, HookInv, LoopsApart, TurnsTaken, WriteIsReleased, InSources, InWorkers,
      HookedRunsReleased, WorkerRunsReleased, Envs
<1>2. IInv /\ HookInv /\ [Next]_vars => HookInv'
  BY LoopsApartStep, TurnsTakenStep, WriteIsReleasedStep, HookedRunsReleasedStep,
     WorkerRunsReleasedStep
  DEF HookInv, IInv
<1>. QED BY <1>1, <1>2, Invariance, PTL DEF Spec

\* However promotions, cancels, retries and rollbacks overlap, no promotion gives an
\* environment with a release hook a build whose hook neither completed nor was skipped on
\* it.
THEOREM HookGatesItsEnvironment == Spec => []HookedRunsReleased
BY HookInvariance, PTL DEF HookInv

\* Nor does a worker, which has no hook of its own, ever run ahead of the hooks of the
\* service whose image it shares, those apart that were skipped.
THEOREM HookGatesTheWorkers == Spec => []WorkerRunsReleased
BY HookInvariance, PTL DEF HookInv

-----------------------------------------------------------------------------
(* The hold at zero replicas *)

\* What has an image and is still held at zero was rolled back by a user: promoteEnvImageCAS
\* lifts the hold with the first image it writes, Rollback does not.
HeldWasRolledBack == \A e \in Envs : image[e] # NoBuild /\ e \in awaiting => RolledBack(e)

\* No environment is put back on hold.
LEMMA HoldsEnd ==
    ASSUME [Next]_vars
    PROVE  awaiting' \subseteq awaiting
<1>1. ASSUME NEW r \in Runs, RunStep(r) PROVE awaiting' \subseteq awaiting
  BY <1>1
  DEF RunStep, Start, ReadPhase, ListEnvs, StampHeldSuperseded, StampHoldExpired, PickEnv,
      HookSucceeds, HookFails, SnapshotFails, MarkReleaseFailed, GetEnv, UpdateAccepted,
      UpdateConflict, EnvError, Commit, FinishEnvs, RepointCrons, PickWorker,
      RepointWorkerCrons, FinishWorkers, RetryLater, Abandon, Recheck, StampSucceeded,
      ReadRetried, ClearRetry, Interrupt, objects
<1>2. ASSUME \/ \E b \in Builds : BuildStep(b)
             \/ \E k \in Requests : RollbackStep(k)
             \/ Tick
             \/ \E e \in Envs : ForeignWrite(e)
             \/ UNCHANGED vars
      PROVE  UNCHANGED awaiting
  BY <1>2 DEF BuildStep, CancelRead, CancelPatch, RetryRead, RetryPatch, Observe,
              RollbackStep, RollbackRead, RollbackPatch, RollbackCrons, Tick, ForeignWrite,
              vars, objects
<1>. QED BY <1>1, <1>2 DEF Next

LEMMA HeldWasRolledBackStep ==
    ASSUME IInv, HeldWasRolledBack, [Next]_vars
    PROVE  HeldWasRolledBack'
<1>. USE DEF IInv, TypeOK, ObjectsTypeOK, RunsTypeOK
<1>1. SUFFICES ASSUME NEW e \in Envs, image'[e] # NoBuild, e \in awaiting'
               PROVE  RolledBack(e)'
  BY DEF HeldWasRolledBack
<1>2. e \in awaiting
  BY <1>1, HoldsEnd
<1>3. CASE image[e] # NoBuild
  BY <1>2, <1>3, RolledBackStays DEF HeldWasRolledBack
<1>4. ASSUME NEW r \in Runs, Commit(r), image[e] = NoBuild
      PROVE  FALSE
  <2>1. e = env[r]
    BY <1>1, <1>4 DEF Commit
  <2>2. awaiting' = awaiting \ {e}
    BY <1>4, <2>1 DEF Commit
  <2>. QED BY <1>1, <2>2
<1>5. ASSUME NEW k \in Requests, RollbackPatch(k), image[e] = NoBuild
      PROVE  RolledBack(e)'
  <2>1. PICK o \in SourceEnvs, b \in Builds :
          image' = [image EXCEPT ![o] = b] /\ RolledTo(o, b)'
    BY <1>5, PatchRollsBack
  <2>2. e = o
    BY <1>1, <1>5, <2>1
  <2>. QED BY <2>1, <2>2 DEF RolledBack
<1>. QED BY <1>1, <1>3, <1>4, <1>5, ImageIsWritten

\* So a deployed environment serves, whatever races with its first promotion, unless a user
\* rolled it back: DeployedIsNotHeld is violated in that one case only.
THEOREM OnlyRollbacksKeepTheHold == Spec => []HeldWasRolledBack
<1>1. Init => HeldWasRolledBack
  BY DEF Init, HeldWasRolledBack
<1>2. IInv /\ HeldWasRolledBack /\ [Next]_vars => HeldWasRolledBack'
  BY HeldWasRolledBackStep
<1>. QED BY <1>1, <1>2, Invariance, PTL DEF Spec

-----------------------------------------------------------------------------
(* The succeeded stamp *)

\* Nothing fails, and nobody retries a release.
Calm == MaxFaults = 0 /\ Retriable = {}

\* r's build, or a newer one, or a user's rollback, got to e.
Reached(r, e) == promotedAt[e] >= Trigger[BuildOf(r)] \/ RolledBack(e)

\* In the calm, a run whose build has ended and is not green, or is deployed everywhere,
\* does no harm whatever it has left out.
Spared(r) ==
    Calm /\ (cr[BuildOf(r)].phase \in NotGreen \/ \A e \in SourceEnvs : Reached(r, e))

\* A failed hook blocks a run, and its mark, when it is not lost, ends the build.
BlockedIsSpared ==
    \A r \in Runs :
        /\ pc[r] = "mark" => Hooked # {}
        /\ blocked[r] => pc[r] = "mark" \/ Spared(r)

\* An environment a run has dealt with was reached, or the run knows it failed, or is
\* spared; and a run that failed does not get to the stamp.
DealtWith ==
    \A r \in Runs, e \in SourceEnvs :
        /\ InSources(r) \/ InWorkers(r) =>
             \/ failed[r]
             \/ e \in todo[r]
             \/ pc[r] \in {"hook", "mark", "get", "update"} /\ e = env[r]
             \/ Reached(r, e)
             \/ Spared(r)
        /\ pc[r] = "recheck" => Reached(r, e) \/ Spared(r)
        /\ pc[r] = "stamp" => Reached(r, e)

StampInv == LoopsApart /\ BlockedIsSpared /\ DealtWith

LEMMA ReachedStays ==
    ASSUME IInv, [Next]_vars, NEW r \in Runs, NEW e \in SourceEnvs, Reached(r, e)
    PROVE  Reached(r, e)'
<1>1. e \in Envs /\ Trigger[BuildOf(r)] \in Nat
  BY PromotionAssumption, BuildOfRun DEF Envs
<1>2. promotedAt[e] \in Nat /\ promotedAt'[e] \in Nat
  BY <1>1, IInvStep, PromotionAssumption DEF IInv, TypeOK, ObjectsTypeOK
<1>3. promotedAt'[e] >= promotedAt[e] \/ RolledBack(e)'
  BY <1>1, PromotedAtGrows
<1>4. RolledBack(e) => RolledBack(e)'
  BY <1>1, RolledBackStays DEF IInv
<1>. QED BY <1>1, <1>2, <1>3, <1>4 DEF Reached, BuildOf

\* How a build's phase moves: it ends without being green, is stamped succeeded by the
\* last patch of a run of it, or is set running again by a retry of its release.
LEMMA PhaseMoves ==
    ASSUME TypeOK, [Next]_vars, NEW b \in Builds
    PROVE  \/ cr'[b].phase = cr[b].phase
           \/ cr'[b].phase \in NotGreen
           \/ \E r \in Runs : StampSucceeded(r) /\ BuildOf(r) = b
           \/ RetryPatch(b)
<1>. USE BuildOfRun DEF TypeOK, BuildsTypeOK, Record, Phases, NotGreen
<1>. DEFINE Ends == cr'[b].phase = cr[b].phase \/ cr'[b].phase \in NotGreen
<1>1. ASSUME NEW r \in Runs, RunStep(r)
      PROVE  Ends \/ (StampSucceeded(r) /\ BuildOf(r) = b)
  <2>1. CASE StampSucceeded(r)
    BY <2>1 DEF StampSucceeded, Stamp
  <2>2. CASE StampHeldSuperseded(r) \/ Abandon(r)
    BY <2>2 DEF StampHeldSuperseded, Abandon, Stamp
  <2>3. CASE StampHoldExpired(r)
    BY <2>3 DEF StampHoldExpired
  <2>4. CASE ClearRetry(r)
    BY <2>4 DEF ClearRetry
  <2>5. CASE MarkReleaseFailed(r)
    BY <2>5 DEF MarkReleaseFailed, Stamp
  <2>6. CASE UNCHANGED cr
    BY <2>6
  <2>7. ASSUME \/ Start(r) \/ ReadPhase(r) \/ ListEnvs(r) \/ PickEnv(r) \/ HookSucceeds(r)
               \/ HookFails(r) \/ SnapshotFails(r) \/ GetEnv(r) \/ UpdateAccepted(r)
               \/ UpdateConflict(r) \/ EnvError(r) \/ FinishEnvs(r) \/ RepointCrons(r)
               \/ PickWorker(r) \/ RepointWorkerCrons(r) \/ FinishWorkers(r)
               \/ RetryLater(r) \/ Recheck(r) \/ ReadRetried(r) \/ Interrupt(r)
        PROVE  UNCHANGED cr
    BY <2>7
    DEF Start, ReadPhase, ListEnvs, PickEnv, HookSucceeds, HookFails, SnapshotFails, GetEnv,
        UpdateAccepted, UpdateConflict, EnvError, FinishEnvs, RepointCrons, PickWorker,
        RepointWorkerCrons, FinishWorkers, RetryLater, Recheck, ReadRetried, Interrupt
  <2>. QED BY <1>1, <2>1, <2>2, <2>3, <2>4, <2>5, <2>6, <2>7 DEF RunStep
<1>2. ASSUME NEW o \in Builds, BuildStep(o) PROVE Ends \/ RetryPatch(b)
  <2>1. CASE CancelPatch(o)
    BY <2>1 DEF CancelPatch
  <2>2. CASE RetryPatch(o)
    BY <2>2 DEF RetryPatch
  <2>3. CASE CancelRead(o) \/ RetryRead(o) \/ Observe(o)
    BY <2>3 DEF CancelRead, RetryRead, Observe
  <2>. QED BY <1>2, <2>1, <2>2, <2>3 DEF BuildStep
<1>3. ASSUME \/ \E k \in Requests : RollbackStep(k)
             \/ Tick
             \/ \E e \in Envs : ForeignWrite(e)
             \/ UNCHANGED vars
      PROVE  UNCHANGED cr
  BY <1>3 DEF RollbackStep, RollbackRead, RollbackPatch, RollbackCrons, Tick, ForeignWrite, vars
<1>. QED BY <1>1, <1>2, <1>3 DEF Next

\* In the calm an end is final, but for the stamp of another run that has been everywhere.
LEMMA SparedStays ==
    ASSUME IInv, StampInv, [Next]_vars, NEW r \in Runs, Spared(r)
    PROVE  Spared(r)'
<1>. DEFINE b == BuildOf(r)
<1>1. b \in Builds
  BY BuildOfRun
<1>2. CASE \A e \in SourceEnvs : Reached(r, e)
  <2>1. \A e \in SourceEnvs : Reached(r, e)'
    BY <1>2, ReachedStays
  <2>. QED BY <2>1 DEF Spared, Calm
<1>3. CASE cr[b].phase \in NotGreen
  <2>1. CASE cr'[b].phase = cr[b].phase \/ cr'[b].phase \in NotGreen
    BY <1>3, <2>1 DEF Spared, Calm, BuildOf
  <2>2. ASSUME NEW s \in Runs, StampSucceeded(s), BuildOf(s) = b
        PROVE  Spared(r)'
    <3>1. \A e \in SourceEnvs : Reached(s, e)
      BY <2>2 DEF StampSucceeded, StampInv, DealtWith
    <3>2. \A e \in SourceEnvs : Reached(r, e)
      BY <2>2, <3>1 DEF Reached
    <3>3. \A e \in SourceEnvs : Reached(r, e)'
      BY <3>2, ReachedStays
    <3>. QED BY <3>3 DEF Spared, Calm
  <2>3. ~RetryPatch(b)
    BY DEF RetryPatch, Spared, Calm, IInv, TypeOK, RequestsTypeOK
  <2>. QED BY <1>1, <2>1, <2>2, <2>3, PhaseMoves DEF IInv
<1>. QED BY <1>2, <1>3 DEF Spared

\* What the theorem is about: there are no hooks, or there is the calm.
LEMMA BlockedIsSparedStep ==
    ASSUME Hooked = {} \/ Calm, IInv, StampInv, [Next]_vars
    PROVE  BlockedIsSpared'
<1>. USE DEF IInv, TypeOK, RunsTypeOK, StampInv
<1>1. ASSUME NEW r \in Runs, RunStep(r), NEW o \in Runs
      PROVE  /\ pc'[o] = "mark" => Hooked # {}
             /\ blocked'[o] => pc'[o] = "mark" \/ Spared(o)'
  <2>0. Spared(o) => Spared(o)'
    BY SparedStays
  <2>1. CASE o # r
    BY <1>1, <2>0, <2>1, OneRunMoves DEF BlockedIsSpared
  <2>2. CASE o = r
    <3>1. CASE HookFails(r) \/ SnapshotFails(r)
      <4>1. pc[r] = "hook" /\ Hooked # {}
        BY <3>1 DEF HookFails, SnapshotFails, AtEnv
      <4>2. pc'[r] = "mark" \/ blocked'[r] = blocked[r]
        BY <3>1 DEF HookFails, SnapshotFails, Goto
      <4>. QED BY <2>0, <2>2, <4>1, <4>2 DEF BlockedIsSpared
    <3>2. CASE MarkReleaseFailed(r)
      <4>1. Calm /\ faults = 0
        BY <3>2 DEF MarkReleaseFailed, BlockedIsSpared, Calm, BuildsTypeOK
      <4>2. Stamp(BuildOf(r), "release-failed") /\ pc' = [pc EXCEPT ![r] = "envs"]
        BY <3>2, <4>1 DEF MarkReleaseFailed, Fault, Calm, Goto
      <4>3. cr'[BuildOf(r)].phase \in NotGreen
        BY <4>2, BuildOfRun DEF Stamp, NotGreen, BuildsTypeOK, Record
      <4>4. Spared(r)'
        BY <4>1, <4>3 DEF Spared, Calm, BuildOf
      <4>. QED BY <2>2, <4>2, <4>4
    <3>3. ASSUME ~(HookFails(r) \/ SnapshotFails(r) \/ MarkReleaseFailed(r))
          PROVE  pc'[r] # "mark" /\ (blocked'[r] => blocked[r] /\ pc[r] # "mark")
      BY <1>1, <3>3
      DEF RunStep, Start, ReadPhase, ListEnvs, StampHeldSuperseded, StampHoldExpired,
          PickEnv, HookSucceeds, GetEnv, UpdateAccepted, UpdateConflict, EnvError,
          FinishEnvs, RepointCrons, PickWorker, RepointWorkerCrons, FinishWorkers,
          RetryLater, Abandon, Recheck, StampSucceeded, ReadRetried, ClearRetry, Interrupt,
          Goto, Return, Quit, EndLocals, Loop, locals
    <3>. QED BY <2>0, <2>2, <3>1, <3>2, <3>3 DEF BlockedIsSpared
  <2>. QED BY <2>1, <2>2
<1>2. CASE UNCHANGED <<pc, locals>>
  BY <1>2, SparedStays DEF locals, BlockedIsSpared
<1>. QED BY <1>1, <1>2, NoRunMoves DEF Next, BlockedIsSpared

LEMMA DealtWithStep ==
    ASSUME Hooked = {} \/ Calm, IInv, StampInv, [Next]_vars
    PROVE  DealtWith'
<1>. USE EnvsApart DEF IInv, TypeOK, RunsTypeOK, InSources, InWorkers, StampInv
<1>. DEFINE Dealt(r, e) ==
       /\ InSources(r) \/ InWorkers(r) =>
            \/ failed[r]
            \/ e \in todo[r]
            \/ pc[r] \in {"hook", "mark", "get", "update"} /\ e = env[r]
            \/ Reached(r, e)
            \/ Spared(r)
       /\ pc[r] = "recheck" => Reached(r, e) \/ Spared(r)
       /\ pc[r] = "stamp" => Reached(r, e)
<1>1. ASSUME NEW r \in Runs, RunStep(r), NEW o \in Runs, NEW e \in SourceEnvs
      PROVE  Dealt(o, e)'
  <2>0. (Reached(o, e) => Reached(o, e)') /\ (Spared(o) => Spared(o)')
    BY ReachedStays, SparedStays
  <2>1. CASE o # r
    BY <1>1, <2>0, <2>1, OneRunMoves DEF DealtWith
  <2>2. CASE o = r
    <3>. USE <2>0, <2>2
    <3>1. CASE ListEnvs(r)
      <4>1. e \in todo'[r] \/ Newer(e, BuildOf(r))
        BY <3>1 DEF ListEnvs
      <4>2. Newer(e, BuildOf(r)) => Reached(r, e)
        BY PromotionAssumption, BuildOfRun DEF Newer, Reached, ObjectsTypeOK, Envs
      <4>3. pc'[r] = "envs"
        BY <3>1 DEF ListEnvs, Goto
      <4>. QED BY <4>1, <4>2, <4>3
    <3>2. CASE PickEnv(r)
      BY <3>2 DEF PickEnv, Goto, DealtWith
    <3>3. CASE GetEnv(r)
      <4>1. Newer(e, BuildOf(r)) => Reached(r, e)
        BY PromotionAssumption, BuildOfRun DEF Newer, Reached, ObjectsTypeOK, Envs
      <4>. QED BY <3>3, <4>1 DEF GetEnv, Goto, Loop, locals, DealtWith, Envs
    <3>4. CASE UpdateAccepted(r)
      <4>1. e = env[r] => Reached(r, e)'
        <5>1. promotedAt' = [promotedAt EXCEPT ![env[r]] = Trigger[BuildOf(r)]]
          BY <3>4 DEF UpdateAccepted, Commit
        <5>2. e = env[r] => promotedAt'[e] = Trigger[BuildOf(r)]
          BY <5>1 DEF ObjectsTypeOK
        <5>3. Trigger[BuildOf(r)] \in Nat
          BY PromotionAssumption, BuildOfRun
        <5>. QED BY <5>2, <5>3 DEF Reached, BuildOf
      <4>. QED BY <3>4, <4>1 DEF UpdateAccepted, Goto, DealtWith, Envs
    <3>5. CASE UpdateConflict(r)
      <4>1. CASE pc'[r] = "get"
        BY <3>5, <4>1 DEF UpdateConflict, DealtWith
      <4>2. CASE pc'[r] \in {"envs", "workers"} /\ failed'[r] = (failed[r] \/ env[r] \in SourceEnvs)
        <5>1. UNCHANGED <<todo, env>> /\ pc[r] = "update"
          BY <3>5 DEF UpdateConflict
        <5>2. e = env[r] => failed'[r]
          BY <4>2
        <5>3. failed[r] => failed'[r]
          BY <4>2
        <5>4. Dealt(r, e)
          BY DEF DealtWith
        <5>5. InSources(r) \/ InWorkers(r)
          BY <5>1 DEF Envs
        <5>. QED BY <4>2, <5>1, <5>2, <5>3, <5>4, <5>5
      <4>. QED BY <3>5, <4>1, <4>2 DEF UpdateConflict, Goto, Loop
    <3>6. CASE EnvError(r)
      BY <3>6 DEF EnvError, Goto, Loop, DealtWith, Envs
    <3>7. CASE FinishEnvs(r)
      BY <3>7 DEF FinishEnvs, Goto, DealtWith, BlockedIsSpared
    <3>8. CASE PickWorker(r)
      <4>1. PICK w \in todo[r] :
              /\ todo' = [todo EXCEPT ![r] = @ \ {w}]
              /\ pc'[r] \in {"workers", "get"}
        BY <3>8 DEF PickWorker, Goto
      <4>2. w \in Workers /\ pc[r] = "workers" /\ UNCHANGED failed
        BY <3>8 DEF PickWorker, LoopsApart
      <4>. QED BY <4>1, <4>2 DEF DealtWith
    <3>9. CASE RepointCrons(r) \/ RepointWorkerCrons(r)
      BY <3>9 DEF RepointCrons, RepointWorkerCrons, Goto, locals, DealtWith
    <3>10. CASE FinishWorkers(r)
      BY <3>10 DEF FinishWorkers, Goto, locals, DealtWith, LoopsApart
    <3>11. CASE Recheck(r)
      <4>1. CASE cr[BuildOf(r)].phase \in NotGreen /\ pc'[r] = "stamp"
        <5>1. Fault
          BY <3>11, <4>1 DEF Recheck, Return, Goto
        <5>2. ~Calm
          BY <5>1 DEF Fault, Calm, BuildsTypeOK
        <5>. QED BY <3>11, <4>1, <5>2 DEF Recheck, DealtWith, Spared
      <4>2. CASE cr[BuildOf(r)].phase \notin NotGreen
        BY <3>11, <4>2 DEF Recheck, Goto, DealtWith, Spared
      <4>3. pc'[r] \in {"stamp", "clear", "idle"}
        BY <3>11 DEF Recheck, Return, Goto
      <4>. QED BY <4>1, <4>2, <4>3
    <3>12. CASE HookSucceeds(r)
      <4>1. CASE pc'[r] = "get"
        BY <3>12, <4>1 DEF HookSucceeds, locals, DealtWith
      <4>2. CASE pc'[r] = "recheck" /\ cr[BuildOf(r)].phase = "cancelled"
        <5>1. Calm
          BY <3>12 DEF HookSucceeds, AtEnv
        <5>. QED BY <4>2, <5>1 DEF Spared, NotGreen
      <4>. QED BY <3>12, <4>1, <4>2 DEF HookSucceeds, Goto
    <3>14. CASE HookFails(r) \/ SnapshotFails(r)
      <4>1. CASE pc'[r] = "mark"
        BY <3>14, <4>1 DEF HookFails, SnapshotFails, DealtWith
      <4>2. CASE pc'[r] = "recheck" /\ cr[BuildOf(r)].phase = "cancelled"
        <5>1. Calm
          BY <3>14 DEF HookFails, SnapshotFails, AtEnv
        <5>. QED BY <4>2, <5>1 DEF Spared, NotGreen
      <4>. QED BY <3>14, <4>1, <4>2 DEF HookFails, SnapshotFails, Goto
    <3>15. CASE MarkReleaseFailed(r)
      <4>1. Calm /\ faults = 0
        BY <3>15 DEF MarkReleaseFailed, BlockedIsSpared, Calm, BuildsTypeOK
      <4>2. Stamp(BuildOf(r), "release-failed") /\ pc' = [pc EXCEPT ![r] = "envs"]
        BY <3>15, <4>1 DEF MarkReleaseFailed, Fault, Calm, Goto
      <4>3. cr'[BuildOf(r)].phase \in NotGreen
        BY <4>2, BuildOfRun DEF Stamp, NotGreen, BuildsTypeOK, Record
      <4>. QED BY <4>1, <4>2, <4>3 DEF Spared, Calm, BuildOf
    <3>13. ASSUME \/ Start(r) \/ ReadPhase(r) \/ StampHeldSuperseded(r)
                  \/ StampHoldExpired(r) \/ RetryLater(r) \/ Abandon(r)
                  \/ StampSucceeded(r) \/ ReadRetried(r) \/ ClearRetry(r) \/ Interrupt(r)
           PROVE  pc'[r] \in {"idle", "read", "gate", "clear", "clearPatch"}
      BY <3>13
      DEF Start, ReadPhase, StampHeldSuperseded, StampHoldExpired, RetryLater, Abandon,
          StampSucceeded, ReadRetried, ClearRetry, Interrupt, Goto, Return, Quit
    <3>. QED BY <1>1, <3>1, <3>2, <3>3, <3>4, <3>5, <3>6, <3>7, <3>8, <3>9, <3>10, <3>11,
                <3>12, <3>13, <3>14, <3>15 DEF RunStep
  <2>. QED BY <2>1, <2>2
<1>2. CASE UNCHANGED <<pc, locals>>
  BY <1>2, ReachedStays, SparedStays DEF locals, DealtWith
<1>. QED BY <1>1, <1>2, NoRunMoves DEF Next, DealtWith

\* No build is ever stamped succeeded that was left out of one of its environments,
\* whatever conflicts, cancels and rollbacks got in the way and whoever promoted at the same
\* time: where no environment has a release hook, whatever errors and lost leaderships there
\* are too, and with hooks as long as nothing fails and no release is retried.
THEOREM SucceededMeansDeployed ==
    ASSUME Hooked = {} \/ (MaxFaults = 0 /\ Retriable = {})
    PROVE  Spec => SucceededIsDeployed
<1>0. Hooked = {} \/ Calm
  BY DEF Calm
<1>1. Init => StampInv
  BY DEF Init, StampInv, LoopsApart, BlockedIsSpared, DealtWith, InSources, InWorkers
<1>2. IInv /\ StampInv /\ [Next]_vars => StampInv'
  BY <1>0, LoopsApartStep, BlockedIsSparedStep, DealtWithStep DEF StampInv, IInv
<1>3. ASSUME IInv, StampInv, [Next]_vars
      PROVE  [\A b \in Builds :
               cr[b].phase # "succeeded" /\ cr'[b].phase = "succeeded"
                 => \A e \in SourceEnvs : promotedAt[e] >= Trigger[b] \/ RolledBack(e)]_vars
  <2>1. ASSUME NEW b \in Builds, cr[b].phase # "succeeded", cr'[b].phase = "succeeded",
               NEW e \in SourceEnvs
        PROVE  promotedAt[e] >= Trigger[b] \/ RolledBack(e)
    <3>1. CASE RetryPatch(b)
      BY <1>3, <2>1, <3>1 DEF RetryPatch, IInv, TypeOK, BuildsTypeOK, Record
    <3>2. ASSUME NEW r \in Runs, StampSucceeded(r), BuildOf(r) = b
          PROVE  promotedAt[e] >= Trigger[b] \/ RolledBack(e)
      BY <1>3, <3>2 DEF StampSucceeded, StampInv, DealtWith, Reached
    <3>3. cr[b].phase # cr'[b].phase /\ cr'[b].phase \notin NotGreen
      BY <2>1 DEF NotGreen
    <3>. QED BY <1>3, <3>1, <3>2, <3>3, PhaseMoves DEF IInv
  <2>. QED BY <2>1
<1>. QED BY <1>1, <1>2, <1>3, Invariance, PTL DEF Spec, SucceededIsDeployed
=============================================================================
