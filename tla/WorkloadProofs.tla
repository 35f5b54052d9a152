----------------------------- MODULE WorkloadProofs -----------------------------
(***************************************************************************)
(* What holds for every value of the constants of the Jobs and pods that   *)
(* the server starts and stops.  ReleaseRun: a success is real, and the    *)
(* calls implement ReleaseHook, for any number of overlapping calls; that  *)
(* only failed Jobs are deleted holds as long as calls do not overlap.     *)
(* OneOffRun: for any outage, lifetime of a finished Job and timeout that  *)
(* leave the poller time to look, a command runs once, and its run is      *)
(* shown as what its Job was.  Scaledown: the counts of replicas that go   *)
(* from hand to hand stay the environment's own, and those of one that was *)
(* never allowed to sleep stay full.                                       *)
(***************************************************************************)
EXTENDS ReleaseRun, OneOffRun, Scaledown, TLAPS

-----------------------------------------------------------------------------
(* A release hook: the inductive invariant *)

\* Nothing refers to a Job that was never created.
Born ==
    /\ cached.job <= made
    /\ \A r \in Runners : replaced[r] <= made /\ result[r].job <= made
    /\ \A j \in Jobs : deletedBy[j] # "nobody" \/ status[j] # "unborn" => j <= made

\* What the informer shows of a Job may be old, but no end of it is invented.
CacheIsHonest ==
    /\ cached.job = None => cached.status = "unborn"
    /\ cached.job # None /\ cached.status \in {"complete", "failed"} =>
         status[cached.job] = cached.status

\* A call that has begun has not answered.
Asked == \A r \in Runners : pc[r] # "idle" => result[r].outcome = "none"

IInv == TypeOK /\ Born /\ CacheIsHonest /\ Asked /\ SuccessIsCompleted

-----------------------------------------------------------------------------

LEMMA JobNumbers ==
    /\ None = 0 /\ None \notin Jobs
    /\ Jobs \subseteq 0..MaxJobs
    /\ \A n \in 0..MaxJobs : n # None => n \in Jobs
BY ReleaseRunAssumption DEF None, Jobs

LEMMA MadeIsJob ==
    ASSUME TypeOK, NEW n \in 0..made, n # None
    PROVE  n \in Jobs
BY ReleaseRunAssumption DEF TypeOK, Jobs, None

LEMMA InitIInv == Init => IInv
<1>. SUFFICES ASSUME Init PROVE IInv
  OBVIOUS
<1>1. TypeOK
  BY ReleaseRunAssumption DEF Init, TypeOK, Status, Outcomes, None
<1>2. Born /\ CacheIsHonest
  BY DEF Init, Born, CacheIsHonest, None
<1>3. Asked /\ SuccessIsCompleted
  BY DEF Init, Asked, SuccessIsCompleted
<1>. QED BY <1>1, <1>2, <1>3 DEF IInv

\* A Job that has ended stays as it ended: only Jobs at work, and the next one, change.
LEMMA EndedStays ==
    ASSUME TypeOK, [Next]_vars, NEW j \in Jobs, j <= made,
           status[j] \in {"complete", "failed"}
    PROVE  status'[j] = status[j]
<1>1. CASE UNCHANGED status
  BY <1>1
<1>2. ASSUME NEW r \in Runners, CreateJob(r)
      PROVE  status'[j] = status[j]
  <2>1. j # made + 1
    BY DEF TypeOK, Jobs
  <2>. QED BY <1>2, <2>1 DEF CreateJob, TypeOK
<1>3. CASE PodStarts \/ JobEnds
  BY <1>3 DEF PodStarts, JobEnds, TypeOK
<1>. QED
  BY <1>1, <1>2, <1>3
  DEF Next, vars, Call, Proceed, Guard, GetJob, DeleteFailed, AwaitGone, AwaitTimesOut,
      PollEnds, PollExpires, GiveUp, CancelList, CancelDelete, Vanish, Sync

\* The count of Jobs never goes down.
LEMMA MadeGrows ==
    ASSUME TypeOK, [Next]_vars
    PROVE  made' \in 0..MaxJobs /\ made <= made'
<1>1. ASSUME NEW r \in Runners, CreateJob(r)
      PROVE  made' \in 0..MaxJobs /\ made <= made'
  BY <1>1, ReleaseRunAssumption DEF CreateJob, TypeOK
<1>. QED
  BY <1>1, ReleaseRunAssumption
  DEF Next, vars, Call, Proceed, Guard, GetJob, DeleteFailed, AwaitGone, AwaitTimesOut,
      PollEnds, PollExpires, GiveUp, CancelList, CancelDelete, PodStarts, JobEnds, Vanish,
      Sync, TypeOK

\* What a poll sees is a Job that was created, and an end that it sees is real.
LEMMA ObservedIsReal ==
    ASSUME TypeOK, Born, CacheIsHonest
    PROVE  /\ Observed.job \in 0..made
           /\ Observed.status \in {"complete", "failed"} =>
                Observed.job # None /\ status[Observed.job] = Observed.status
<1>1. CASE cached.job # None
  BY <1>1, ReleaseRunAssumption DEF Observed, TypeOK, Born, CacheIsHonest
<1>2. CASE cached.job = None
  BY <1>2 DEF Observed, TypeOK, None
<1>. QED BY <1>1, <1>2

LEMMA ReturnType ==
    ASSUME TypeOK, NEW r \in Runners, NEW o \in Outcomes, NEW j \in 0..MaxJobs,
           Return(r, o, j)
    PROVE  /\ pc' \in [Runners -> {"idle", "guard", "get", "delete", "await", "create", "poll"}]
           /\ result' \in [Runners -> [outcome : Outcomes, job : 0..MaxJobs]]
BY DEF Return, Goto, TypeOK

LEMMA TypeStep ==
    ASSUME IInv, [Next]_vars
    PROVE  TypeOK'
<1>. USE ReleaseRunAssumption DEF IInv
<1>1. ASSUME NEW r \in Runners, Call(r)  PROVE TypeOK'
  BY <1>1, JobNumbers DEF Call, Goto, TypeOK, Outcomes
<1>2. ASSUME NEW r \in Runners, Guard(r)  PROVE TypeOK'
  <2>1. CASE Return(r, "skipped", None)
    <3>1. "skipped" \in Outcomes /\ None \in 0..MaxJobs
      BY JobNumbers DEF Outcomes
    <3>. QED BY <1>2, <2>1, <3>1, ReturnType DEF Guard, TypeOK
  <2>2. CASE Goto(r, "get") /\ UNCHANGED result
    BY <1>2, <2>2 DEF Guard, Goto, TypeOK
  <2>. QED BY <1>2, <2>1, <2>2 DEF Guard
<1>3. ASSUME NEW r \in Runners, GetJob(r)  PROVE TypeOK'
  <2>1. replaced' \in [Runners -> 0..MaxJobs]
    BY <1>3, JobNumbers DEF GetJob, TypeOK
  <2>2. pc' \in [Runners -> {"idle", "guard", "get", "delete", "await", "create", "poll"}]
    BY <1>3 DEF GetJob, Goto, TypeOK
  <2>. QED BY <1>3, <2>1, <2>2 DEF GetJob, TypeOK
<1>4. ASSUME NEW r \in Runners, DeleteFailed(r)  PROVE TypeOK'
  BY <1>4, JobNumbers DEF DeleteFailed, DeleteByName, Goto, TypeOK
<1>5. ASSUME NEW r \in Runners, AwaitGone(r)  PROVE TypeOK'
  BY <1>5 DEF AwaitGone, Goto, TypeOK
<1>6. ASSUME NEW r \in Runners, AwaitTimesOut(r)  PROVE TypeOK'
  BY <1>6, JobNumbers DEF AwaitTimesOut, Return, Goto, TypeOK, Outcomes
<1>7. ASSUME NEW r \in Runners, CreateJob(r)  PROVE TypeOK'
  <2>1. made' \in 0..MaxJobs /\ live' \in 0..made'
    BY <1>7 DEF CreateJob, TypeOK
  <2>2. status' \in [Jobs -> Status]
    BY <1>7 DEF CreateJob, TypeOK, Status
  <2>. QED BY <1>7, <2>1, <2>2 DEF CreateJob, Goto, TypeOK
<1>8. ASSUME NEW r \in Runners, PollEnds(r)  PROVE TypeOK'
  <2>1. Observed.job \in 0..MaxJobs
    BY ObservedIsReal DEF TypeOK
  <2>2. PICK o \in Outcomes, j \in 0..MaxJobs : Return(r, o, j)
    BY <1>8, <2>1, JobNumbers DEF PollEnds, Outcomes
  <2>. QED BY <1>8, <2>2, ReturnType DEF PollEnds, TypeOK
<1>9. ASSUME NEW r \in Runners, GiveUp(r) \/ PollExpires(r)  PROVE TypeOK'
  <2>1. PICK o \in Outcomes : Return(r, o, None)
    BY <1>9 DEF GiveUp, PollExpires, Outcomes
  <2>2. faults' \in 0..MaxFaults
    BY <1>9 DEF GiveUp, PollExpires, Fault, TypeOK
  <2>. QED BY <1>9, <2>1, <2>2, ReturnType, JobNumbers DEF GiveUp, PollExpires, TypeOK
<1>10. CASE CancelList \/ CancelDelete
  BY <1>10, JobNumbers DEF CancelList, CancelDelete, DeleteByName, TypeOK
<1>11. CASE PodStarts \/ JobEnds
  BY <1>11 DEF PodStarts, JobEnds, TypeOK, Status
<1>12. CASE Vanish \/ Sync
  BY <1>12, JobNumbers DEF Vanish, Sync, TypeOK, Status
<1>13. CASE UNCHANGED vars
  BY <1>13 DEF vars, TypeOK
<1>. QED
  BY <1>1, <1>2, <1>3, <1>4, <1>5, <1>6, <1>7, <1>8, <1>9, <1>10, <1>11, <1>12, <1>13
  DEF Next, Proceed

\* Every step that ends a call names a Job that exists, and calls it a success only if it
\* completed.
LEMMA ResultStep ==
    ASSUME IInv, [Next]_vars, NEW r \in Runners
    PROVE  \/ result'[r] = result[r]
           \/ /\ result'[r].job \in 0..made
              /\ result'[r].outcome = "succeeded" =>
                   result'[r].job # None /\ status[result'[r].job] = "complete"
<1>. USE DEF IInv
<1>. DEFINE Good == \/ result'[r] = result[r]
                    \/ /\ result'[r].job \in 0..made
                       /\ result'[r].outcome = "succeeded" =>
                            result'[r].job # None /\ status[result'[r].job] = "complete"
<1>1. ASSUME NEW q \in Runners, NEW o \in Outcomes, NEW j \in 0..made, Return(q, o, j),
             o = "succeeded" => j # None /\ status[j] = "complete"
      PROVE  Good
  BY <1>1 DEF Return, TypeOK
<1>2. None \in 0..made
  BY DEF TypeOK, None
<1>3. ASSUME NEW q \in Runners, PollEnds(q)  PROVE Good
  BY <1>1, <1>2, <1>3, ObservedIsReal DEF PollEnds, Outcomes
<1>4. ASSUME NEW q \in Runners, Call(q)  PROVE Good
  BY <1>2, <1>4 DEF Call, TypeOK
<1>5. ASSUME NEW q \in Runners,
             Guard(q) \/ AwaitTimesOut(q) \/ GiveUp(q) \/ PollExpires(q)
      PROVE  Good
  BY <1>1, <1>2, <1>5 DEF Guard, AwaitTimesOut, GiveUp, PollExpires, Outcomes
<1>6. CASE UNCHANGED result
  BY <1>6
<1>. QED
  BY <1>3, <1>4, <1>5, <1>6
  DEF Next, vars, Proceed, GetJob, DeleteFailed, AwaitGone, CreateJob, CancelList,
      CancelDelete, PodStarts, JobEnds, Vanish, Sync

LEMMA IInvStep == IInv /\ [Next]_vars => IInv'
<1>. SUFFICES ASSUME IInv, [Next]_vars PROVE IInv'
  OBVIOUS
<1>. USE DEF IInv
<1>1. TypeOK'
  BY TypeStep
<1>2. Born'
  <2>1. cached'.job <= made'
    BY MadeGrows, <1>1
    DEF Next, vars, Call, Proceed, Guard, GetJob, DeleteFailed, AwaitGone, AwaitTimesOut,
        CreateJob, PollEnds, PollExpires, GiveUp, CancelList, CancelDelete, PodStarts,
        JobEnds, Vanish, Sync, Born, TypeOK
  <2>2. ASSUME NEW r \in Runners  PROVE replaced'[r] <= made'
    BY MadeGrows, <1>1
    DEF Next, vars, Call, Proceed, Guard, GetJob, DeleteFailed, AwaitGone, AwaitTimesOut,
        CreateJob, PollEnds, PollExpires, GiveUp, CancelList, CancelDelete, PodStarts,
        JobEnds, Vanish, Sync, Born, TypeOK, None
  <2>3. ASSUME NEW r \in Runners  PROVE result'[r].job <= made'
    BY MadeGrows, ResultStep, <1>1 DEF Born, TypeOK
  <2>4. ASSUME NEW j \in Jobs, deletedBy'[j] # "nobody"  PROVE j <= made'
    <3>1. deletedBy[j] # "nobody" \/ j = live
      BY <2>4
      DEF Next, vars, Call, Proceed, Guard, GetJob, DeleteFailed, AwaitGone, AwaitTimesOut,
          CreateJob, PollEnds, PollExpires, GiveUp, CancelList, CancelDelete, DeleteByName,
          PodStarts, JobEnds, Vanish, Sync, TypeOK
    <3>. QED BY <3>1, MadeGrows DEF Born, TypeOK, Jobs
  <2>5. ASSUME NEW j \in Jobs, status'[j] # "unborn"  PROVE j <= made'
    <3>1. ASSUME NEW r \in Runners, CreateJob(r)  PROVE j <= made'
      <4>1. made \in Nat /\ j \in Nat /\ (status[j] # "unborn" => j <= made)
        BY ReleaseRunAssumption DEF Born, TypeOK, Jobs
      <4>2. CASE live = None
        <5>1. made' = made + 1 /\ (j = made + 1 \/ status'[j] = status[j])
          BY <3>1, <4>2 DEF CreateJob, TypeOK
        <5>. QED BY <2>5, <4>1, <5>1
      <4>3. CASE live # None
        BY <2>5, <3>1, <4>1, <4>3 DEF CreateJob
      <4>. QED BY <4>2, <4>3
    <3>2. CASE PodStarts \/ JobEnds
      <4>1. status[j] # "unborn"
        BY <2>5, <3>2 DEF PodStarts, JobEnds, TypeOK
      <4>. QED BY <4>1, MadeGrows DEF Born, TypeOK, Jobs
    <3>3. CASE UNCHANGED status
      BY <2>5, <3>3, MadeGrows DEF Born, TypeOK, Jobs
    <3>. QED
      BY <3>1, <3>2, <3>3
      DEF Next, vars, Call, Proceed, Guard, GetJob, DeleteFailed, AwaitGone, AwaitTimesOut,
          PollEnds, PollExpires, GiveUp, CancelList, CancelDelete, Vanish, Sync
  <2>. QED BY <2>1, <2>2, <2>3, <2>4, <2>5 DEF Born
<1>3. CacheIsHonest'
  <2>1. CASE Sync
    BY <2>1 DEF Sync, CacheIsHonest
  <2>2. CASE UNCHANGED cached
    BY <2>2, EndedStays, JobNumbers DEF CacheIsHonest, TypeOK, Born
  <2>. QED
    BY <2>1, <2>2
    DEF Next, vars, Call, Proceed, Guard, GetJob, DeleteFailed, AwaitGone, AwaitTimesOut,
        CreateJob, PollEnds, PollExpires, GiveUp, CancelList, CancelDelete, PodStarts,
        JobEnds, Vanish
<1>4. SuccessIsCompleted'
  <2>. SUFFICES ASSUME NEW r \in Runners, result'[r].outcome = "succeeded"
                PROVE  result'[r].job # None /\ status'[result'[r].job] = "complete"
    BY DEF SuccessIsCompleted
  <2>1. result'[r].job # None /\ status[result'[r].job] = "complete"
        /\ result'[r].job \in 0..made
    BY ResultStep DEF SuccessIsCompleted, Born, TypeOK
  <2>2. result'[r].job \in Jobs /\ result'[r].job <= made
    BY <2>1, ReleaseRunAssumption DEF TypeOK, None, Jobs
  <2>3. status'[result'[r].job] = status[result'[r].job]
    BY <2>1, <2>2, EndedStays
  <2>. QED BY <2>1, <2>3
<1>5. Asked'
  <2>1. ASSUME NEW r \in Runners, NEW o, NEW j, Return(r, o, j)  PROVE Asked'
    BY <2>1 DEF Return, Goto, Asked, TypeOK
  <2>2. ASSUME NEW r \in Runners, Call(r)  PROVE Asked'
    BY <2>2 DEF Call, Goto, Asked, TypeOK
  <2>3. ASSUME NEW r \in Runners, NEW l, Goto(r, l), UNCHANGED result, pc[r] # "idle"
        PROVE  Asked'
    BY <2>3 DEF Goto, Asked, TypeOK
  <2>4. CASE UNCHANGED <<pc, result>>
    BY <2>4 DEF Asked
  <2>. QED
    BY <2>1, <2>2, <2>3, <2>4
    DEF Next, vars, Proceed, Guard, GetJob, DeleteFailed, AwaitGone, AwaitTimesOut, CreateJob,
        PollEnds, PollExpires, GiveUp, CancelList, CancelDelete, PodStarts, JobEnds, Vanish, Sync
<1>. QED BY <1>1, <1>2, <1>3, <1>4, <1>5

LEMMA Invariance == Spec => []IInv
BY InitIInv, IInvStep, PTL DEF Spec

\* Every variable stays in its type; above all, no more Jobs are numbered than MaxJobs.
THEOREM ReleaseTypeCorrect == Spec => []TypeOK
BY Invariance, PTL DEF IInv

\* A release hook that counts as successful has a Job that completed, whatever overlaps,
\* is deleted or is replaced, and however old the informer's copy is.
THEOREM SuccessIsReal == Spec => []SuccessIsCompleted
BY Invariance, PTL DEF IInv

-----------------------------------------------------------------------------
(* The hook that the calls implement *)

LEMMA FateIs ==
    ASSUME NEW j \in Jobs
    PROVE  /\ Fate[j] = IF status[j] \notin {"pending", "running"} THEN status[j]
                        ELSE IF j = live THEN "working" ELSE "killed"
           /\ Fate'[j] = IF status'[j] \notin {"pending", "running"} THEN status'[j]
                         ELSE IF j = live' THEN "working" ELSE "killed"
BY DEF Fate

\* A change of the fate of one Job is a change of Fate at that Job.
LEMMA FateOfOne ==
    ASSUME NEW j \in Jobs, NEW f, Fate'[j] = f,
           \A i \in Jobs \ {j} : Fate'[i] = Fate[i]
    PROVE  Fate' = [Fate EXCEPT ![j] = f]
BY DEF Fate

\* Whatever takes the name from a Job ends it, if it has not ended.
LEMMA NameLost ==
    ASSUME TypeOK, UNCHANGED <<status, result>>, live' \in {None, live}
    PROVE  \/ UNCHANGED <<Fate, result>>
           \/ \E j \in Jobs : Hook!End(j)
<1>1. CASE live' = live \/ live = None
  BY <1>1 DEF Fate
<1>2. CASE live' = None /\ live # None
  <2>1. live \in Jobs /\ None \notin Jobs
    BY <1>2, JobNumbers, MadeIsJob DEF TypeOK
  <2>2. \A i \in Jobs \ {live} : Fate'[i] = Fate[i]
    BY <1>2, <2>1, FateIs
  <2>3. CASE status[live] \in {"pending", "running"}
    <3>1. Fate[live] = "working" /\ Fate'[live] = "killed"
      BY <1>2, <2>1, <2>3, FateIs
    <3>2. Fate' = [Fate EXCEPT ![live] = "killed"]
      BY <2>1, <2>2, <3>1, FateOfOne
    <3>. QED BY <2>1, <3>1, <3>2 DEF Hook!End
  <2>4. CASE status[live] \notin {"pending", "running"}
    <3>1. Fate'[live] = Fate[live]
      BY <2>1, <2>4, FateIs
    <3>2. \A i \in Jobs : Fate'[i] = Fate[i]
      BY <2>2, <3>1
    <3>. QED BY <3>2 DEF Fate
  <2>. QED BY <2>3, <2>4
<1>. QED BY <1>1, <1>2 DEF TypeOK

LEMMA HookStep ==
    ASSUME IInv, [Next]_vars
    PROVE  [Hook!HookNext]_<<Fate, result>>
<1>. USE DEF IInv
<1>. DEFINE Good == \/ UNCHANGED <<Fate, result>>
                    \/ \E j \in Jobs : Hook!Begin(j) \/ Hook!End(j)
                    \/ \E r \in Runners : Hook!Ask(r) \/ Hook!Answer(r)
<1>. SUFFICES Good
  BY DEF Hook!HookNext
<1>1. ASSUME UNCHANGED <<status, live>>  PROVE UNCHANGED Fate
  BY <1>1 DEF Fate
<1>2. ASSUME NEW r \in Runners, Call(r)  PROVE Good
  BY <1>1, <1>2 DEF Call, Hook!Ask, Hook!Unanswered
<1>3. ASSUME NEW r \in Runners, NEW o \in {"skipped", "timedOut", "error"}, Return(r, o, None),
             pc[r] # "idle", UNCHANGED <<status, live>>
      PROVE  Good
  BY <1>1, <1>3 DEF Return, Asked, Hook!Answer, Hook!Says
<1>4. ASSUME NEW r \in Runners, PollEnds(r)  PROVE Good
  <2>1. UNCHANGED Fate /\ pc[r] # "idle" /\ result[r].outcome = "none"
    BY <1>1, <1>4 DEF PollEnds, Asked
  <2>2. CASE Observed.status \in {"complete", "failed"}
    <3>1. Observed.job \in Jobs /\ status[Observed.job] = Observed.status
      BY <2>2, ObservedIsReal, MadeIsJob
    <3>2. Fate[Observed.job] = Observed.status
      BY <2>2, <3>1, FateIs
    <3>. QED
      BY <1>4, <2>1, <2>2, <3>1, <3>2 DEF PollEnds, Return, Hook!Answer, Hook!Says
  <2>3. CASE Observed.status \notin {"complete", "failed"}
    BY <1>3, <1>4, <2>1, <2>3 DEF PollEnds
  <2>. QED BY <2>2, <2>3
<1>5. ASSUME NEW r \in Runners,
             Guard(r) \/ AwaitTimesOut(r) \/ GiveUp(r) \/ PollExpires(r)
      PROVE  Good
  BY <1>1, <1>3, <1>5 DEF Guard, AwaitTimesOut, GiveUp, PollExpires
<1>6. ASSUME NEW r \in Runners, CreateJob(r)  PROVE Good
  <2>1. CASE live # None
    BY <1>1, <1>6, <2>1 DEF CreateJob
  <2>2. CASE live = None
    <3>. DEFINE j == made + 1
    <3>1a. j \in Jobs /\ ~(j <= made)
      BY <1>6, <2>2, ReleaseRunAssumption DEF CreateJob, TypeOK, Jobs
    <3>1. /\ j \in Jobs /\ status[j] = "unborn" /\ live' = j /\ UNCHANGED result
          /\ status' = [status EXCEPT ![j] = "pending"]
      <4>1. status[j] = "unborn"
        BY <3>1a DEF Born
      <4>. QED BY <1>6, <2>2, <3>1a, <4>1 DEF CreateJob
    <3>2. \A i \in Jobs : Fate[i] # "working"
      BY <2>2, FateIs, JobNumbers DEF TypeOK, Status
    <3>. HIDE DEF j
    <3>3. Fate[j] = "unborn" /\ Fate'[j] = "working"
      BY <3>1, FateIs DEF TypeOK
    <3>4. \A i \in Jobs \ {j} : Fate'[i] = Fate[i]
      BY <2>2, <3>1, FateIs, JobNumbers DEF TypeOK
    <3>5. Fate' = [Fate EXCEPT ![j] = "working"]
      BY <3>1, <3>3, <3>4, FateOfOne
    <3>. QED BY <3>1, <3>2, <3>3, <3>5 DEF Hook!Begin
  <2>. QED BY <2>1, <2>2
<1>7. CASE PodStarts
  <2>1. \A i \in Jobs : Fate'[i] = Fate[i]
    BY <1>7, FateIs DEF PodStarts, TypeOK
  <2>. QED BY <1>7, <2>1 DEF PodStarts, Fate
<1>8. CASE JobEnds
  <2>1. live \in Jobs /\ UNCHANGED result
    BY <1>8, MadeIsJob DEF JobEnds, TypeOK
  <2>2. PICK s \in {"complete", "failed"} : status' = [status EXCEPT ![live] = s]
    BY <1>8 DEF JobEnds
  <2>3. Fate[live] = "working" /\ Fate'[live] = s
    BY <1>8, <2>1, <2>2, FateIs DEF JobEnds, TypeOK
  <2>4. \A i \in Jobs \ {live} : Fate'[i] = Fate[i]
    BY <1>8, <2>1, <2>2, FateIs DEF JobEnds, TypeOK
  <2>5. Fate' = [Fate EXCEPT ![live] = s]
    BY <2>1, <2>3, <2>4, FateOfOne
  <2>6. \E f \in {"complete", "failed", "killed"} : Fate' = [Fate EXCEPT ![live] = f]
    BY <2>5
  <2>7. Hook!End(live)
    BY <2>1, <2>3, <2>6 DEF Hook!End
  <2>. QED BY <2>1, <2>7
<1>9. ASSUME UNCHANGED <<status, result>>, live' \in {None, live}  PROVE Good
  BY <1>9, NameLost
<1>10. CASE UNCHANGED <<status, live, result>>
  BY <1>1, <1>10
<1>. HIDE DEF Good
<1>11. ASSUME NEW r \in Runners, Proceed(r)  PROVE Good
  <2>1. CASE DeleteFailed(r)
    BY <1>9, <2>1 DEF DeleteFailed, DeleteByName
  <2>2. CASE GetJob(r) \/ AwaitGone(r)
    BY <1>10, <2>2 DEF GetJob, AwaitGone
  <2>. QED BY <1>4, <1>5, <1>6, <1>11, <2>1, <2>2 DEF Proceed
<1>12. CASE CancelDelete \/ Vanish
  BY <1>9, <1>12 DEF CancelDelete, DeleteByName, Vanish
<1>13. CASE CancelList \/ Sync \/ UNCHANGED vars
  BY <1>10, <1>13 DEF CancelList, Sync, vars
<1>. QED BY <1>2, <1>7, <1>8, <1>11, <1>12, <1>13 DEF Next

\* The calls of Run implement the hook: whoever creates, deletes or replaces a Job, and
\* however many calls overlap, one attempt is at work at a time, it ends for good, and what
\* a caller is told of it is how it ended.
THEOREM HookIsHonestHolds == Spec => HookIsHonest
<1>1. Init => Hook!HookInit
  BY JobNumbers DEF Init, Fate, Hook!HookInit, Hook!Unanswered
<1>2. IInv /\ [Next]_vars => [Hook!HookNext]_<<Fate, result>>
  BY HookStep
<1>. QED BY <1>1, <1>2, Invariance, PTL DEF Spec, HookIsHonest, Hook!HookSpec, Hook!hook

-----------------------------------------------------------------------------
(* One call at a time *)

\* The Job a call set out to replace is the only one it can hit.
ReplacesFailed ==
    \A r \in Runners :
        pc[r] = "delete" =>
            /\ replaced[r] # None
            /\ status[replaced[r]] = "failed"
            /\ live \in {None, replaced[r]}

\* The call replaces what it saw, whatever a cancel removes in the meantime: no other call
\* can create a Job.
LEMMA ReplacesFailedStep ==
    ASSUME IInv, ReplacesFailed, [Next]_vars, \A r, q \in Runners : r = q
    PROVE  ReplacesFailed'
<1>. SUFFICES ASSUME NEW r \in Runners, pc'[r] = "delete"
              PROVE  /\ replaced'[r] # None
                     /\ status'[replaced'[r]] = "failed"
                     /\ live' \in {None, replaced'[r]}
  BY DEF ReplacesFailed
<1>. USE DEF IInv
<1>1. CASE GetJob(r)
  BY <1>1, EndedStays, JobNumbers DEF GetJob, Goto, TypeOK
<1>2. CASE pc[r] = "delete" /\ replaced'[r] = replaced[r] /\ live' \in {None, live}
  BY <1>2, EndedStays, JobNumbers DEF ReplacesFailed, TypeOK, Born
<1>3. ASSUME NEW q \in Runners, Call(q) \/ (Proceed(q) /\ ~GetJob(q))  PROVE FALSE
  BY <1>3
  DEF Call, Proceed, Guard, DeleteFailed, AwaitGone, AwaitTimesOut, CreateJob, PollEnds,
      PollExpires, GiveUp, Return, Goto, TypeOK
<1>. QED
  BY <1>1, <1>2, <1>3
  DEF Next, vars, CancelList, CancelDelete, DeleteByName, PodStarts, JobEnds, Vanish, Sync

LEMMA DeletesOnlyFailedStep ==
    ASSUME IInv, ReplacesFailed, RunnerDeletesOnlyFailed, [Next]_vars
    PROVE  RunnerDeletesOnlyFailed'
<1>. SUFFICES ASSUME NEW j \in Jobs, deletedBy'[j] = "runner"
              PROVE  status'[j] = "failed"
  BY DEF RunnerDeletesOnlyFailed
<1>. USE DEF IInv
<1>1. CASE deletedBy[j] = "runner"
  BY <1>1, EndedStays DEF RunnerDeletesOnlyFailed, Born
<1>2. CASE deletedBy[j] # "runner"
  <2>1. PICK r \in Runners : DeleteFailed(r) /\ j = live
    BY <1>2
    DEF Next, vars, Call, Proceed, Guard, GetJob, DeleteFailed, AwaitGone, AwaitTimesOut,
        CreateJob, PollEnds, PollExpires, GiveUp, CancelList, CancelDelete, DeleteByName,
        PodStarts, JobEnds, Vanish, Sync, TypeOK
  <2>2. status[j] = "failed"
    BY <2>1, JobNumbers DEF DeleteFailed, ReplacesFailed
  <2>. QED BY <2>1, <2>2 DEF DeleteFailed
<1>. QED BY <1>1, <1>2

\* As long as calls do not overlap, replaceFailedJob's delete by name only removes Jobs
\* that failed: no migration at work is ever killed by the retry of an earlier one.
THEOREM OnlyFailedIsReplaced ==
    ASSUME \A r, q \in Runners : r = q
    PROVE  Spec => []RunnerDeletesOnlyFailed
<1>1. Init => ReplacesFailed /\ RunnerDeletesOnlyFailed
  BY DEF Init, ReplacesFailed, RunnerDeletesOnlyFailed
<1>2. IInv /\ ReplacesFailed /\ RunnerDeletesOnlyFailed /\ [Next]_vars
        => ReplacesFailed' /\ RunnerDeletesOnlyFailed'
  BY ReplacesFailedStep, DeletesOnlyFailedStep
<1>. QED BY <1>1, <1>2, Invariance, PTL DEF Spec

-----------------------------------------------------------------------------
(* A one-off run: the inductive invariant *)

RunFlags ==
    /\ runDone \in BOOLEAN /\ wasCancelled \in BOOLEAN /\ succeeded \in BOOLEAN
    /\ lookLate \in BOOLEAN /\ operatorLate \in BOOLEAN

RunTypes ==
    /\ runPhase \in RunPhases /\ runSeen \in RunPhases
    /\ runJob \in JobStates /\ jobSeen \in JobStates
    /\ executions \in Nat
    /\ ttlLeft \in 0..JobTTL
    /\ look \in [at : {"idle", "patch"}, snapshot : RunPhases, job : JobStates]
    /\ runOperator \in {"idle", "render", "remove"}
    /\ user \in {"idle", "patch", "delete"}
    /\ age \in 0..LostAfter /\ away \in 0..MaxOutage

\* The operator no longer renders the Job.
Ended == runDone \/ runPhase = "gone"

\* Ticks since the Job ended.
Elapsed == JobTTL - ttlLeft

\* A shown end of the run comes with spec.done.
PhaseInv ==
    /\ RunTerminal(runPhase) \/ RunTerminal(runSeen) => runDone
    /\ runSeen = "gone" => runPhase = "gone"
    /\ runPhase = "none" =>
         /\ runSeen = "none" /\ runJob = "none" /\ ~runDone
         /\ runOperator # "render" /\ user = "idle"

NoJobYet ==
    /\ runJob = "none" /\ jobSeen = "none" /\ look.job = "none"
    /\ executions = 0 /\ ~succeeded /\ ttlLeft = JobTTL

\* There is one Job: when it is gone, it is not rendered again.
OneJob ==
    /\ NoJobYet \/ runJob # "none" \/ (Ended /\ runOperator # "render")
    /\ runOperator = "remove" => Ended \/ runJob = "none"
    /\ runJob = "pending" => executions = 0
    /\ runJob \in {"pending", "active"} => ttlLeft = JobTTL
    /\ executions <= 1

\* The poller's looks after the Job's end: one that began before it is late, and so is an
\* operator that is about to render.
LookInv ==
    JobOver(runJob) =>
      /\ ttlLeft < JobTTL =>
           /\ jobSeen = runJob
           /\ ~Ended => runSeen \in InFlight
           /\ look.at = "patch" /\ ~JobOver(look.job) => lookLate /\ Elapsed <= 1
      /\ ~Ended => Elapsed <= away + 1
      /\ runOperator = "render" =>
           Elapsed <= MaxOutage + 1 \/ (operatorLate /\ Elapsed <= MaxOutage + 2)

\* What is shown of the Job is what it was.
OutcomeInv ==
    /\ runJob \in {"pending", "active", "failed"} => ~succeeded
    /\ runJob = "complete" => succeeded
    /\ runJob \in {"pending", "active"} => ~JobOver(jobSeen) /\ ~JobOver(look.job)
    /\ jobSeen = "complete" \/ look.job = "complete" \/ runPhase = "succeeded" => succeeded
    /\ jobSeen = "failed" \/ look.job = "failed" => ~succeeded
    /\ runPhase = "failed" /\ age < LostAfter =>
         /\ ~succeeded
         /\ runJob \notin {"pending", "active"}
         /\ runJob = "none" => runOperator # "render"

RunInv ==
    /\ RunFlags /\ RunTypes
    /\ user = "delete" => wasCancelled
    /\ ~wasCancelled => PhaseInv /\ OneJob /\ LookInv /\ OutcomeInv

-----------------------------------------------------------------------------
(* Types *)

LEMMA RunFlagsStep == RunFlags /\ [RunNext]_RunVars => RunFlags'
<1>. SUFFICES ASSUME RunFlags, [RunNext]_RunVars PROVE RunFlags'
  OBVIOUS
<1>. USE DEF RunFlags, cr, job, informers, poller, helm
<1>0. CASE UNCHANGED RunVars
  BY <1>0 DEF RunVars
<1>1. CASE CreateRun
  BY <1>1 DEF CreateRun
<1>2. CASE Observe
  BY <1>2 DEF Observe
<1>3. CASE MarkFromJob
  BY <1>3 DEF MarkFromJob, Patch, Through, JobOutcome
<1>4. CASE MarkRunning
  BY <1>4 DEF MarkRunning, Patch, Through
<1>5. CASE FailIfJobLost
  BY <1>5 DEF FailIfJobLost, Patch, Through
<1>6. CASE NothingToMark
  BY <1>6 DEF NothingToMark, Through
<1>7. CASE LookFails
  BY <1>7 DEF LookFails
<1>8. CASE RemoveRun
  BY <1>8 DEF RemoveRun
<1>9. CASE CancelChecks
  BY <1>9 DEF CancelChecks
<1>10. CASE CancelPatches
  BY <1>10 DEF CancelPatches
<1>11. CASE CancelDeletesJob
  BY <1>11 DEF CancelDeletesJob
<1>12. CASE OperatorReads
  BY <1>12 DEF OperatorReads
<1>13. CASE OperatorApplies
  BY <1>13 DEF OperatorApplies
<1>14. CASE RunPodStarts
  BY <1>14 DEF RunPodStarts
<1>15. CASE RunJobEnds
  BY <1>15 DEF RunJobEnds
<1>16. CASE JobExpires
  BY <1>16 DEF JobExpires
<1>17. CASE SyncRun
  BY <1>17 DEF SyncRun
<1>18. CASE SyncJob
  BY <1>18 DEF SyncJob
<1>19. CASE RunTick
  BY <1>19 DEF RunTick
<1>. QED BY <1>0, <1>1, <1>2, <1>3, <1>4, <1>5, <1>6, <1>7, <1>8, <1>9,
     <1>10, <1>11, <1>12, <1>13, <1>14, <1>15, <1>16, <1>17, <1>18, <1>19 DEF RunNext

LEMMA RunTypeStep == RunTypes /\ [RunNext]_RunVars => RunTypes'
<1>. SUFFICES ASSUME RunTypes, [RunNext]_RunVars PROVE RunTypes'
  OBVIOUS
<1>. USE OneOffRunAssumption DEF RunTypes, RunPhases, JobStates, NoLook, cr, job, informers,
         poller, helm
<1>0. CASE UNCHANGED RunVars
  BY <1>0 DEF RunVars
<1>1. CASE CreateRun
  BY <1>1 DEF CreateRun
<1>2. CASE Observe
  BY <1>2 DEF Observe
<1>3. CASE MarkFromJob
  BY <1>3 DEF MarkFromJob, Patch, Through, JobOutcome
<1>4. CASE MarkRunning
  BY <1>4 DEF MarkRunning, Patch, Through
<1>5. CASE FailIfJobLost
  BY <1>5 DEF FailIfJobLost, Patch, Through
<1>6. CASE NothingToMark
  BY <1>6 DEF NothingToMark, Through
<1>7. CASE LookFails
  BY <1>7 DEF LookFails
<1>8. CASE RemoveRun
  BY <1>8 DEF RemoveRun
<1>9. CASE CancelChecks
  BY <1>9 DEF CancelChecks
<1>10. CASE CancelPatches
  BY <1>10 DEF CancelPatches
<1>11. CASE CancelDeletesJob
  BY <1>11 DEF CancelDeletesJob
<1>12. CASE OperatorReads
  BY <1>12 DEF OperatorReads
<1>13. CASE OperatorApplies
  BY <1>13 DEF OperatorApplies
<1>14. CASE RunPodStarts
  BY <1>14 DEF RunPodStarts
<1>15. CASE RunJobEnds
  BY <1>15 DEF RunJobEnds
<1>16. CASE JobExpires
  BY <1>16 DEF JobExpires
<1>17. CASE SyncRun
  BY <1>17 DEF SyncRun
<1>18. CASE SyncJob
  BY <1>18 DEF SyncJob
<1>19. CASE RunTick
  BY <1>19 DEF RunTick
<1>. QED BY <1>0, <1>1, <1>2, <1>3, <1>4, <1>5, <1>6, <1>7, <1>8, <1>9,
     <1>10, <1>11, <1>12, <1>13, <1>14, <1>15, <1>16, <1>17, <1>18, <1>19 DEF RunNext

-----------------------------------------------------------------------------
(* Steps *)

RunHypotheses ==
    /\ RunFlags /\ RunTypes /\ user # "delete" /\ ~wasCancelled
    /\ PhaseInv /\ OneJob /\ LookInv /\ OutcomeInv

\* A shown end of the run stays one: it comes with spec.done.
LEMMA PhaseInvStep == RunHypotheses /\ [RunNext]_RunVars /\ ~wasCancelled' => PhaseInv'
<1>. SUFFICES ASSUME RunHypotheses, [RunNext]_RunVars, ~wasCancelled' PROVE PhaseInv'
  OBVIOUS
<1>. USE OneOffRunAssumption
     DEF RunHypotheses, RunFlags, RunTypes, PhaseInv, NoJobYet, Ended, Elapsed,
         Exists, RunTerminal, JobOver, InFlight, RunPhases, JobStates, NoLook,
         cr, job, informers, poller, helm
<1>0. CASE UNCHANGED RunVars
  BY <1>0 DEF RunVars
<1>1. CASE CreateRun
  BY <1>1 DEF CreateRun
<1>2. CASE Observe
  BY <1>2 DEF Observe
<1>3. CASE MarkFromJob
  BY <1>3 DEF MarkFromJob, Patch, Through, JobOutcome
<1>4. CASE MarkRunning
  BY <1>4 DEF MarkRunning, Patch, Through
<1>5. CASE FailIfJobLost
  BY <1>5 DEF FailIfJobLost, Patch, Through
<1>6. CASE NothingToMark
  BY <1>6 DEF NothingToMark, Through
<1>7. CASE LookFails
  BY <1>7 DEF LookFails
<1>8. CASE RemoveRun
  BY <1>8 DEF RemoveRun
<1>9. CASE CancelChecks
  BY <1>9 DEF CancelChecks
<1>10. CASE CancelPatches
  BY <1>10 DEF CancelPatches
<1>11. CASE CancelDeletesJob
  BY <1>11 DEF CancelDeletesJob
<1>12. CASE OperatorReads
  BY <1>12 DEF OperatorReads
<1>13. CASE OperatorApplies
  BY <1>13 DEF OperatorApplies
<1>14. CASE RunPodStarts
  BY <1>14 DEF RunPodStarts
<1>15. CASE RunJobEnds
  BY <1>15 DEF RunJobEnds
<1>16. CASE JobExpires
  BY <1>16 DEF JobExpires
<1>17. CASE SyncRun
  BY <1>17 DEF SyncRun
<1>18. CASE SyncJob
  BY <1>18 DEF SyncJob
<1>19. CASE RunTick
  BY <1>19 DEF RunTick
<1>. QED BY <1>0, <1>1, <1>2, <1>3, <1>4, <1>5, <1>6, <1>7, <1>8, <1>9,
     <1>10, <1>11, <1>12, <1>13, <1>14, <1>15, <1>16, <1>17, <1>18, <1>19 DEF RunNext

\* The Job only goes when the operator will not render it again: it ended too long ago.
LEMMA OneJobStep == RunHypotheses /\ [RunNext]_RunVars /\ ~wasCancelled' => OneJob'
<1>. SUFFICES ASSUME RunHypotheses, [RunNext]_RunVars, ~wasCancelled' PROVE OneJob'
  OBVIOUS
<1>. USE OneOffRunAssumption
     DEF RunHypotheses, RunFlags, RunTypes, PhaseInv, OneJob, LookInv, NoJobYet, Ended, Elapsed,
         Exists, RunTerminal, JobOver, InFlight, RunPhases, JobStates, NoLook,
         cr, job, informers, poller, helm
<1>0. CASE UNCHANGED RunVars
  BY <1>0 DEF RunVars
<1>1. CASE CreateRun
  BY <1>1 DEF CreateRun
<1>2. CASE Observe
  BY <1>2 DEF Observe
<1>3. CASE MarkFromJob
  BY <1>3 DEF MarkFromJob, Patch, Through, JobOutcome
<1>4. CASE MarkRunning
  BY <1>4 DEF MarkRunning, Patch, Through
<1>5. CASE FailIfJobLost
  BY <1>5 DEF FailIfJobLost, Patch, Through
<1>6. CASE NothingToMark
  BY <1>6 DEF NothingToMark, Through
<1>7. CASE LookFails
  BY <1>7 DEF LookFails
<1>8. CASE RemoveRun
  BY <1>8 DEF RemoveRun
<1>9. CASE CancelChecks
  BY <1>9 DEF CancelChecks
<1>10. CASE CancelPatches
  BY <1>10 DEF CancelPatches
<1>11. CASE CancelDeletesJob
  BY <1>11 DEF CancelDeletesJob
<1>12. CASE OperatorReads
  BY <1>12 DEF OperatorReads
<1>13. CASE OperatorApplies
  BY <1>13 DEF OperatorApplies
<1>14. CASE RunPodStarts
  BY <1>14 DEF RunPodStarts
<1>15. CASE RunJobEnds
  BY <1>15 DEF RunJobEnds
<1>16. CASE JobExpires
  BY <1>16 DEF JobExpires
<1>17. CASE SyncRun
  BY <1>17 DEF SyncRun
<1>18. CASE SyncJob
  BY <1>18 DEF SyncJob
<1>19. CASE RunTick
  BY <1>19 DEF RunTick
<1>. QED BY <1>0, <1>1, <1>2, <1>3, <1>4, <1>5, <1>6, <1>7, <1>8, <1>9,
     <1>10, <1>11, <1>12, <1>13, <1>14, <1>15, <1>16, <1>17, <1>18, <1>19 DEF RunNext

\* A tick passes only when the informers have caught up and no call is late.
LEMMA LookInvStep == RunHypotheses /\ [RunNext]_RunVars /\ ~wasCancelled' => LookInv'
<1>. SUFFICES ASSUME RunHypotheses, [RunNext]_RunVars, ~wasCancelled' PROVE LookInv'
  OBVIOUS
<1>. USE OneOffRunAssumption
     DEF RunHypotheses, RunFlags, RunTypes, PhaseInv, OneJob, LookInv, NoJobYet, Ended, Elapsed,
         Exists, RunTerminal, JobOver, InFlight, RunPhases, JobStates, NoLook,
         cr, job, informers, poller, helm
<1>0. CASE UNCHANGED RunVars
  BY <1>0 DEF RunVars
<1>1. CASE CreateRun
  BY <1>1 DEF CreateRun
<1>2. CASE Observe
  BY <1>2 DEF Observe
<1>3. CASE MarkFromJob
  BY <1>3 DEF MarkFromJob, Patch, Through, JobOutcome
<1>4. CASE MarkRunning
  BY <1>4 DEF MarkRunning, Patch, Through
<1>5. CASE FailIfJobLost
  BY <1>5 DEF FailIfJobLost, Patch, Through
<1>6. CASE NothingToMark
  BY <1>6 DEF NothingToMark, Through
<1>7. CASE LookFails
  BY <1>7 DEF LookFails
<1>8. CASE RemoveRun
  BY <1>8 DEF RemoveRun
<1>9. CASE CancelChecks
  BY <1>9 DEF CancelChecks
<1>10. CASE CancelPatches
  BY <1>10 DEF CancelPatches
<1>11. CASE CancelDeletesJob
  BY <1>11 DEF CancelDeletesJob
<1>12. CASE OperatorReads
  BY <1>12 DEF OperatorReads
<1>13. CASE OperatorApplies
  BY <1>13 DEF OperatorApplies
<1>14. CASE RunPodStarts
  BY <1>14 DEF RunPodStarts
<1>15. CASE RunJobEnds
  BY <1>15 DEF RunJobEnds
<1>16. CASE JobExpires
  BY <1>16 DEF JobExpires
<1>17. CASE SyncRun
  BY <1>17 DEF SyncRun
<1>18. CASE SyncJob
  BY <1>18 DEF SyncJob
<1>19. CASE RunTick
  <2>1. UNCHANGED <<runJob, jobSeen, runSeen, look, runOperator, runPhase, runDone>>
    BY <1>19 DEF RunTick
  <2>2. lookLate' <=> look # NoLook
    BY <1>19 DEF RunTick
  <2>3. operatorLate' <=> runOperator # "idle"
    BY <1>19 DEF RunTick
  <2>4. ~lookLate /\ ~operatorLate /\ jobSeen = runJob /\ runSeen = runPhase /\ Exists
    BY <1>19 DEF RunTick
  <2>5. away < MaxOutage /\ away' = away + 1
    BY <1>19 DEF RunTick
  <2>6. CASE JobOver(runJob) /\ ttlLeft > 0
    <3>1. ttlLeft' = ttlLeft - 1
      BY <1>19, <2>6 DEF RunTick
    <3>. QED BY <2>1, <2>2, <2>3, <2>4, <2>5, <2>6, <3>1
  <2>7. CASE JobOver(runJob) /\ ttlLeft = 0
    BY <2>1, <2>2, <2>3, <2>4, <2>5, <2>7
  <2>8. CASE ~JobOver(runJob)
    BY <2>1, <2>8
  <2>. QED BY <2>6, <2>7, <2>8
<1>. QED BY <1>0, <1>1, <1>2, <1>3, <1>4, <1>5, <1>6, <1>7, <1>8, <1>9,
     <1>10, <1>11, <1>12, <1>13, <1>14, <1>15, <1>16, <1>17, <1>18, <1>19 DEF RunNext

\* Since there is one Job, whatever was seen of its end is how it ended.
LEMMA OutcomeInvStep == RunHypotheses /\ [RunNext]_RunVars /\ ~wasCancelled' => OutcomeInv'
<1>. SUFFICES ASSUME RunHypotheses, [RunNext]_RunVars, ~wasCancelled' PROVE OutcomeInv'
  OBVIOUS
<1>. USE OneOffRunAssumption
     DEF RunHypotheses, RunFlags, RunTypes, PhaseInv, OneJob, LookInv, OutcomeInv, NoJobYet,
         Ended, Elapsed, Exists, RunTerminal, JobOver, InFlight, RunPhases, JobStates, NoLook,
         cr, job, informers, poller, helm
<1>0. CASE UNCHANGED RunVars
  BY <1>0 DEF RunVars
<1>1. CASE CreateRun
  BY <1>1 DEF CreateRun
<1>2. CASE Observe
  BY <1>2 DEF Observe
<1>3. CASE MarkFromJob
  BY <1>3 DEF MarkFromJob, Patch, Through, JobOutcome
<1>4. CASE MarkRunning
  BY <1>4 DEF MarkRunning, Patch, Through
<1>5. CASE FailIfJobLost
  BY <1>5 DEF FailIfJobLost, Patch, Through
<1>6. CASE NothingToMark
  BY <1>6 DEF NothingToMark, Through
<1>7. CASE LookFails
  BY <1>7 DEF LookFails
<1>8. CASE RemoveRun
  BY <1>8 DEF RemoveRun
<1>9. CASE CancelChecks
  BY <1>9 DEF CancelChecks
<1>10. CASE CancelPatches
  BY <1>10 DEF CancelPatches
<1>11. CASE CancelDeletesJob
  BY <1>11 DEF CancelDeletesJob
<1>12. CASE OperatorReads
  BY <1>12 DEF OperatorReads
<1>13. CASE OperatorApplies
  BY <1>13 DEF OperatorApplies
<1>14. CASE RunPodStarts
  BY <1>14 DEF RunPodStarts
<1>15. CASE RunJobEnds
  <2>1. CASE runJob = "active" /\ runJob' = "complete" /\ succeeded'
    BY <1>15, <2>1 DEF RunJobEnds
  <2>2. CASE runJob' = "failed" /\ UNCHANGED succeeded
    BY <1>15, <2>2 DEF RunJobEnds
  <2>. QED BY <1>15, <2>1, <2>2 DEF RunJobEnds
<1>16. CASE JobExpires
  BY <1>16 DEF JobExpires
<1>17. CASE SyncRun
  BY <1>17 DEF SyncRun
<1>18. CASE SyncJob
  BY <1>18 DEF SyncJob
<1>19. CASE RunTick
  BY <1>19 DEF RunTick
<1>. QED BY <1>0, <1>1, <1>2, <1>3, <1>4, <1>5, <1>6, <1>7, <1>8, <1>9,
     <1>10, <1>11, <1>12, <1>13, <1>14, <1>15, <1>16, <1>17, <1>18, <1>19 DEF RunNext

-----------------------------------------------------------------------------
(* The theorems *)

LEMMA RunInvariant == RunSpec => []RunInv
<1>1. RunInit => RunInv
  <2>1. RunInit => RunTypes /\ user # "delete"
    BY OneOffRunAssumption DEF RunInit, RunTypes, RunPhases, JobStates, NoLook
  <2>2. RunInit => RunFlags
    BY DEF RunInit, RunFlags
  <2>3. RunInit => PhaseInv /\ OneJob /\ LookInv /\ OutcomeInv
    BY OneOffRunAssumption
       DEF RunInit, PhaseInv, OneJob, LookInv, OutcomeInv, NoJobYet, RunTerminal, JobOver,
           NoLook
  <2>. QED BY <2>1, <2>2, <2>3 DEF RunInv
<1>2. RunInv /\ [RunNext]_RunVars => RunInv'
  <2>. SUFFICES ASSUME RunInv, [RunNext]_RunVars PROVE RunInv'
    OBVIOUS
  <2>1. RunFlags' /\ RunTypes'
    BY RunFlagsStep, RunTypeStep DEF RunInv
  \* Only the cancel itself writes "cancelled", and only then is the Job deleted.
  <2>2. /\ wasCancelled => wasCancelled'
        /\ user' = "delete" => user = "delete" \/ wasCancelled'
    BY DEF RunNext, RunVars, cr, job, informers, poller, helm, Patch, Through, CreateRun,
           Observe, MarkFromJob, MarkRunning, FailIfJobLost, NothingToMark, LookFails,
           RemoveRun, CancelChecks, CancelPatches, CancelDeletesJob, OperatorReads,
           OperatorApplies, RunPodStarts, RunJobEnds, JobExpires, SyncRun, SyncJob, RunTick
  <2>3. ASSUME ~wasCancelled' PROVE (PhaseInv /\ OneJob /\ LookInv /\ OutcomeInv)'
    <3>1. RunHypotheses
      BY <2>2, <2>3 DEF RunInv, RunHypotheses
    <3>. QED BY <2>3, <3>1, PhaseInvStep, OneJobStep, LookInvStep, OutcomeInvStep
  <2>. QED BY <2>1, <2>2, <2>3 DEF RunInv
<1>. QED BY <1>1, <1>2, PTL DEF RunSpec

\* A run that is not cancelled starts its command at most once, whatever the poller and the
\* operator miss, for any outage the Job's lifetime is longer than (job.yaml).
THEOREM CommandRunsOnceHolds == RunSpec => []CommandRunsOnce
<1>1. RunInv => CommandRunsOnce
  BY DEF RunInv, OneJob, CommandRunsOnce
<1>. QED BY <1>1, RunInvariant, PTL

\* What a run that was not cancelled shows is how its one Job ended (observe).
THEOREM RunOutcomeIsTheJobsHolds == RunSpec => []RunOutcomeIsTheJobs
<1>1. RunInv => RunOutcomeIsTheJobs
  BY DEF RunInv, OutcomeInv, RunOutcomeIsTheJobs
<1>. QED BY <1>1, RunInvariant, PTL

-----------------------------------------------------------------------------
(* Scale *)

ScaleFlags ==
    /\ fresh \in BOOLEAN /\ crRoute \in BOOLEAN /\ ready \in BOOLEAN
    /\ routed \in BOOLEAN /\ allowed \in BOOLEAN

ScaleCounts ==
    /\ crCount \in 0 .. Full /\ stash \in 0 .. Full /\ deploy \in 0 .. Full
    /\ sleeper \in [Leaders -> [at : {"idle", "get", "patch", "persist"}, prior : 0 .. Full]]
    /\ waker \in [Wakers -> [at : {"idle", "persist", "patch"}, want : 0 .. Full]]
    /\ request \in {"none", "sent", "held"}
    /\ flips \in 0 .. MaxFlips

\* A Deployment without replicas has no endpoint: the fallback to the activator is what
\* answers then.
ScaleInv == ScaleFlags /\ ScaleCounts /\ (ready => deploy > 0)

LEMMA ScaleFlagsStep == ScaleFlags /\ [ScaleNext]_ScaleVars => ScaleFlags'
<1>. SUFFICES ASSUME ScaleFlags, [ScaleNext]_ScaleVars PROVE ScaleFlags'
  OBVIOUS
<1>. USE DEF ScaleFlags, envCR, cluster, setting, calls, Scale
<1>1. ASSUME NEW p \in Wakers,
             WakePersists(p) \/ WakePersistFails(p) \/ WakePatches(p) \/ WakeFails(p)
      PROVE  ScaleFlags'
  BY <1>1 DEF WakePersists, WakePersistFails, WakePatches, WakeFails
<1>2. ASSUME NEW l \in Leaders, WatcherWakes(l) \/ SetAutoSleep(l) \/ StartSleep(l)
      PROVE  ScaleFlags'
  BY <1>2 DEF WatcherWakes, SetAutoSleep, StartSleep
<1>3. ASSUME NEW l \in Leaders,
             SleepReads(l) \/ SleepPatches(l) \/ SleepPersists(l) \/ SleepFails(l)
      PROVE  ScaleFlags'
  BY <1>3 DEF SleepReads, SleepPatches, SleepPersists, SleepFails
<1>4. CASE SendRequest \/ HoldRequest \/ Retry
  BY <1>4 DEF SendRequest, HoldRequest, Retry
<1>5. CASE Serve
  BY <1>5 DEF Serve
<1>6. CASE Flip
  BY <1>6 DEF Flip
<1>7. CASE Render \/ Autoscale \/ PodsReady \/ IdleWindow
  BY <1>7 DEF Render, Autoscale, PodsReady, IdleWindow
<1>8. CASE UNCHANGED ScaleVars
  BY <1>8 DEF ScaleVars
<1>. QED BY <1>1, <1>2, <1>3, <1>4, <1>5, <1>6, <1>7, <1>8 DEF ScaleNext

LEMMA ScaleCountsStep == ScaleCounts /\ [ScaleNext]_ScaleVars => ScaleCounts'
<1>. SUFFICES ASSUME ScaleCounts, [ScaleNext]_ScaleVars PROVE ScaleCounts'
  OBVIOUS
<1>. USE ScaledownAssumption
     DEF ScaleCounts, Wakers, NoSleep, NoWake, envCR, cluster, setting, calls, Scale, Larger
<1>1. ASSUME NEW p \in Wakers, WakePersists(p)  PROVE ScaleCounts'
  BY <1>1 DEF WakePersists
<1>2. ASSUME NEW p \in Wakers, WakePersistFails(p) \/ WakePatches(p) \/ WakeFails(p)
      PROVE  ScaleCounts'
  BY <1>2 DEF WakePersistFails, WakePatches, WakeFails
<1>3. ASSUME NEW l \in Leaders, WatcherWakes(l) \/ SetAutoSleep(l) \/ StartSleep(l)
      PROVE  ScaleCounts'
  BY <1>3 DEF WatcherWakes, StartWake, SetAutoSleep, StartSleep
<1>4. ASSUME NEW l \in Leaders, SleepReads(l)  PROVE ScaleCounts'
  BY <1>4 DEF SleepReads
<1>5. ASSUME NEW l \in Leaders, SleepPatches(l) \/ SleepPersists(l) \/ SleepFails(l)
      PROVE  ScaleCounts'
  BY <1>5 DEF SleepPatches, SleepPersists, SleepFails
<1>6. CASE HoldRequest
  BY <1>6 DEF HoldRequest, StartWake
<1>7. CASE SendRequest \/ Serve \/ Retry
  BY <1>7 DEF SendRequest, Serve, Retry
<1>8. CASE Flip \/ Render \/ Autoscale
  BY <1>8 DEF Flip, Render, Autoscale
<1>9. CASE PodsReady \/ IdleWindow
  BY <1>9 DEF PodsReady, IdleWindow
<1>10. CASE UNCHANGED ScaleVars
  BY <1>10 DEF ScaleVars
<1>. QED BY <1>1, <1>2, <1>3, <1>4, <1>5, <1>6, <1>7, <1>8, <1>9, <1>10 DEF ScaleNext

\* Whoever writes the Deployment's replicas decides with them whether it has an endpoint.
LEMMA ReadyStep ==
    ScaleInv /\ [ScaleNext]_ScaleVars => (ready => deploy > 0)'
<1>. SUFFICES ASSUME ScaleInv, [ScaleNext]_ScaleVars, ready' PROVE deploy' > 0
  OBVIOUS
<1>. USE DEF ScaleInv, ScaleCounts
<1>1. ASSUME NEW n, Scale(n)  PROVE deploy' > 0
  BY <1>1 DEF Scale
<1>2. CASE UNCHANGED <<deploy, ready>>
  BY <1>2
<1>3. CASE PodsReady
  BY <1>3 DEF PodsReady
<1>4. ASSUME NEW p \in Wakers, WakePatches(p)  PROVE deploy' > 0
  BY <1>1, <1>4 DEF WakePatches
<1>5. ASSUME NEW l \in Leaders, SleepPatches(l)  PROVE deploy' > 0
  BY <1>1, <1>5 DEF SleepPatches
<1>6. CASE Render \/ Autoscale
  BY <1>1, <1>2, <1>6 DEF Render, Autoscale
<1>. QED
  BY <1>2, <1>3, <1>4, <1>5, <1>6
  DEF ScaleNext, ScaleVars, cluster, setting, calls, WakePersists, WakePersistFails, WakeFails,
      WatcherWakes, SetAutoSleep, StartSleep, SleepReads, SleepPersists, SleepFails,
      SendRequest, Serve, HoldRequest, Retry, Flip, IdleWindow

\* Nobody changes what kind of environment it is.
LEMMA KindStays == [ScaleNext]_ScaleVars => UNCHANGED envKind
BY DEF ScaleNext, ScaleVars, cluster, setting, calls, WakePersists, WakePersistFails,
       WakePatches, WakeFails, WatcherWakes, SetAutoSleep, StartSleep, SleepReads, SleepPatches,
       SleepPersists, SleepFails, SendRequest, Serve, HoldRequest, Retry, Flip, Render,
       Autoscale, PodsReady, IdleWindow

\* Every variable stays in its type, whatever overlaps: above all, the counts that the
\* CR, the Deployment and the stash hand to each other are those the user set, or fewer,
\* and an environment at zero replicas is never taken to be ready.
THEOREM ScaleTypeCorrect == ScaleSpec => []ScaleTypeOK
<1>. DEFINE Inv == ScaleInv /\ envKind \in [production : BOOLEAN, autoscaled : BOOLEAN]
<1>1. ScaleInit => Inv
  <2>1. ScaleInit => ScaleFlags
    BY DEF ScaleInit, ScaleFlags
  <2>2. ScaleInit => ScaleCounts
    BY ScaledownAssumption DEF ScaleInit, ScaleCounts, NoSleep, NoWake
  <2>3. ScaleInit => deploy > 0 /\ envKind \in [production : BOOLEAN, autoscaled : BOOLEAN]
    BY ScaledownAssumption DEF ScaleInit
  <2>. QED BY <2>1, <2>2, <2>3 DEF ScaleInv
<1>2. Inv /\ [ScaleNext]_ScaleVars => Inv'
  BY ScaleFlagsStep, ScaleCountsStep, ReadyStep, KindStays DEF ScaleInv
<1>3. Inv => ScaleTypeOK
  BY DEF ScaleInv, ScaleFlags, ScaleCounts, ScaleTypeOK
<1>. QED BY <1>1, <1>2, <1>3, PTL DEF ScaleSpec

\* Nobody has begun to put it to sleep or to wake it, and no note says that it was asleep.
Untouched ==
    /\ crRoute = FALSE /\ routed = FALSE
    /\ crCount = Full /\ stash = 0 /\ deploy = Full
    /\ \A l \in Leaders : sleeper[l] = NoSleep
    /\ \A p \in Wakers : waker[p] = NoWake

NeverAllowed == allowed = FALSE /\ flips = 0

\* An environment that was never allowed to sleep keeps its replicas.
NeverAllowedStaysUp == NeverAllowed => crCount = Full /\ deploy = Full

LEMMA NeverAllowedBefore ==
    ScaleFlags /\ ScaleCounts /\ [ScaleNext]_ScaleVars /\ NeverAllowed' => NeverAllowed
<1>. SUFFICES ASSUME ScaleFlags, ScaleCounts, [ScaleNext]_ScaleVars, NeverAllowed'
              PROVE  NeverAllowed
  OBVIOUS
<1>1. CASE Flip
  <2>1. flips \in Nat /\ flips' = flips + 1
    BY <1>1, ScaledownAssumption DEF Flip, ScaleCounts
  <2>. QED BY <2>1 DEF NeverAllowed
<1>2. CASE UNCHANGED <<allowed, flips>>
  BY <1>2 DEF NeverAllowed
<1>. QED
  BY <1>1, <1>2
  DEF ScaleNext, ScaleVars, cluster, setting, calls, WakePersists, WakePersistFails,
      WakePatches, WakeFails, WatcherWakes, SetAutoSleep, StartSleep, SleepReads, SleepPatches,
      SleepPersists, SleepFails, SendRequest, Serve, HoldRequest, Retry, Render, Autoscale,
      PodsReady, IdleWindow

\* Without the permission no call on it begins: what could go wrong once one has (a stale
\* leader, a lost write, a wake that overtakes a sleep) cannot go wrong here.
LEMMA UntouchedStep ==
    NeverAllowed /\ Untouched /\ [ScaleNext]_ScaleVars /\ NeverAllowed' => Untouched'
<1>. SUFFICES ASSUME NeverAllowed, Untouched, [ScaleNext]_ScaleVars, NeverAllowed'
              PROVE  Untouched'
  OBVIOUS
<1>. USE DEF Untouched, NeverAllowed
<1>1. ASSUME NEW p \in Wakers,
             WakePersists(p) \/ WakePersistFails(p) \/ WakePatches(p) \/ WakeFails(p)
      PROVE  FALSE
  BY <1>1 DEF WakePersists, WakePersistFails, WakePatches, WakeFails, NoWake
<1>2. ASSUME NEW l \in Leaders,
             SleepReads(l) \/ SleepPatches(l) \/ SleepPersists(l) \/ SleepFails(l)
      PROVE  FALSE
  BY <1>2 DEF SleepReads, SleepPatches, SleepPersists, SleepFails, NoSleep
<1>3. ASSUME NEW l \in Leaders, WatcherWakes(l) \/ SetAutoSleep(l) \/ StartSleep(l)
      PROVE  FALSE
  BY <1>3, ScaledownAssumption DEF WatcherWakes, Overslept, SetAutoSleep, StartSleep, MaySleep
<1>4. CASE HoldRequest
  BY <1>4 DEF HoldRequest
<1>5. CASE Render \/ Autoscale
  BY <1>5 DEF Render, Autoscale, envCR, setting, calls, Scale
<1>6. CASE SendRequest \/ Serve \/ Retry \/ PodsReady \/ IdleWindow
  BY <1>6 DEF SendRequest, Serve, Retry, PodsReady, IdleWindow, envCR, cluster, setting, calls
<1>7. CASE Flip
  <2>1. flips' = flips + 1
    BY <1>7 DEF Flip
  <2>. QED BY <2>1
<1>8. CASE UNCHANGED ScaleVars
  BY <1>8 DEF ScaleVars, envCR, cluster, setting, calls
<1>. QED BY <1>1, <1>2, <1>3, <1>4, <1>5, <1>6, <1>7, <1>8 DEF ScaleNext

\* Scale to zero costs nothing where it is not wanted: as long as the sleep setting was
\* never on, no watcher, wake, activator or stale leader takes a replica away (MaySleep of
\* evaluateEnv), although each of them may cost an environment that does sleep its replicas
\* (CapacityIsKept).
THEOREM NeverAllowedStaysUpHolds == ScaleSpec => []NeverAllowedStaysUp
<1>. DEFINE Inv == ScaleFlags /\ ScaleCounts /\ (NeverAllowed => Untouched)
<1>1. ScaleInit => Inv
  <2>1. ScaleInit => ScaleFlags
    BY DEF ScaleInit, ScaleFlags
  <2>2. ScaleInit => ScaleCounts
    BY ScaledownAssumption DEF ScaleInit, ScaleCounts, NoSleep, NoWake
  <2>3. ScaleInit => (NeverAllowed => Untouched)
    BY DEF ScaleInit, NeverAllowed, Untouched
  <2>. QED BY <2>1, <2>2, <2>3
<1>2. Inv /\ [ScaleNext]_ScaleVars => Inv'
  BY ScaleFlagsStep, ScaleCountsStep, NeverAllowedBefore, UntouchedStep
<1>3. Inv => NeverAllowedStaysUp
  BY DEF Untouched, NeverAllowedStaysUp
<1>. QED BY <1>1, <1>2, <1>3, PTL DEF ScaleSpec
=================================================================================
