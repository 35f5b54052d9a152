------------------------------ MODULE BuildQueue ------------------------------
(***************************************************************************)
(* Which build of a service starts, and when.  Create (builds.go) starts a *)
(* build at once if a slot is free and no build of the service is at work, *)
(* and queues it otherwise; dispatchQueued starts queued builds; the       *)
(* poller ends the builds it sees.  Create decides under a lock per        *)
(* service and from a live list, the dispatcher from the informer's copy   *)
(* and without the lock; both count slots in admission.go.                 *)
(*                                                                         *)
(* What happens to a build whose Job is green (PromotionGate, Promotion)   *)
(* is one step here, Finish.  Every service is in a project of its own, and *)
(* the round-robin over projects is left open: a tick may take them in any *)
(* order.  A list or a patch of the dispatcher or the poller that fails    *)
(* changes nothing, and the next tick tries again; it is not a step.  Two   *)
(* reads are different: Create queues a build when its live list fails,    *)
(* and promoteOne goes on when its re-read does.                           *)
(***************************************************************************)
EXTENDS Naturals, FiniteSets

CONSTANTS
    QueueBuilds,
    Service,           \* [QueueBuilds -> service]
    Age,               \* [QueueBuilds -> Nat]: order of creation within a service
    Cap,               \* MaxConcurrent
    CIGated,           \* builds that wait for the commit's CI
    QueueCancellable,  \* builds a user may cancel
    ReadsFail          \* may Create's live list and promoteOne's re-read fail?

ASSUME QueueAssumption ==
    /\ IsFiniteSet(QueueBuilds)
    /\ Age \in [QueueBuilds -> Nat]
    /\ \A b, c \in QueueBuilds : Service[b] = Service[c] /\ Age[b] = Age[c] => b = c
    /\ Cap \in Nat \ {0}
    /\ CIGated \subseteq QueueBuilds
    /\ QueueCancellable \subseteq QueueBuilds
    /\ ReadsFail \in BOOLEAN

VARIABLES
    live,      \* [QueueBuilds -> CR]: the live KusoBuilds
    cached,    \* the informer's copy: live at some earlier moment
    job,       \* [QueueBuilds -> state of the build Job]
    create,    \* [QueueBuilds -> where the Create of the build is]
    waits,     \* builds that Create queues
    reserved,  \* admitReserved
    recent,    \* admitRecent
    tick       \* the dispatcher: [at, queue, room, pick]

QueueVars == <<live, cached, job, create, waits, reserved, recent, tick>>

\* The build-state label (an absent label is "active"), spec.done, the CI gate, and
\* build-job-succeeded.
CR == [state : {"absent", "queued", "active", "done"}, done : BOOLEAN,
       gate : {"none", "waiting", "passed", "failed"}, green : BOOLEAN]

Absent == [state |-> "absent", done |-> FALSE, gate |-> "none", green |-> FALSE]

QueueTypeOK ==
    /\ live \in [QueueBuilds -> CR]
    /\ cached \in [QueueBuilds -> CR]
    /\ job \in [QueueBuilds -> {"none", "active", "green", "failed"}]
    /\ create \in [QueueBuilds -> {"new", "admitted", "write", "made", "refused"}]
    /\ waits \subseteq QueueBuilds
    /\ reserved \subseteq QueueBuilds
    /\ recent \subseteq QueueBuilds
    /\ tick \in [at : {"idle", "pick", "patch", "note"}, queue : SUBSET QueueBuilds,
                 room : 0..Cap, pick : SUBSET QueueBuilds]

NoTick == [at |-> "idle", queue |-> {}, room |-> 0, pick |-> {}]

QueueInit ==
    /\ live = [b \in QueueBuilds |-> Absent]
    /\ cached = live
    /\ job = [b \in QueueBuilds |-> "none"]
    /\ create = [b \in QueueBuilds |-> "new"]
    /\ waits = {}
    /\ reserved = {}
    /\ recent = {}
    /\ tick = NoTick

-----------------------------------------------------------------------------
(* Slots *)

Peers(b) == {c \in QueueBuilds : Service[c] = Service[b]}

\* countActiveBuilds: what the informer shows at work, what this process started lately,
\* and what it is about to start.
Count ==
    Cardinality({b \in QueueBuilds :
                    \/ cached[b].state = "active" /\ ~cached[b].done /\ ~cached[b].green
                    \/ b \in recent})
        + Cardinality(reserved)

\* findActiveForService, and Live: some build of the service has no build-state label.
ServiceIsActive(b, list) == \E c \in Peers(b) : list[c].state = "active"

\* Mutant: only the wait itself holds the build.
HoldsWhileWaiting(b, list) == list[b].gate = "waiting"

\* ciGateHolds: also while the cancel of a red build has not landed.
CIGateHolds(b, list) == list[b].gate \in {"waiting", "failed"}

-----------------------------------------------------------------------------
(* Create *)

\* admitBuild, under admitMu.  Age is the order in which the builds will take the lock of
\* their service, so an older build does not come after a younger one took it.
Admit(b) ==
    /\ create[b] = "new"
    /\ \A c \in Peers(b) : Age[b] < Age[c] => create[c] \notin {"write", "made"}
    /\ create' = [create EXCEPT ![b] = "admitted"]
    /\ IF Count < Cap
         THEN reserved' = reserved \cup {b} /\ UNCHANGED waits
         ELSE waits' = waits \cup {b} /\ UNCHANGED reserved
    /\ UNCHANGED <<live, cached, job, recent, tick>>

\* Mutant: Create asks the informer.
CheckInCache(b) ==
    /\ create[b] = "admitted"
    /\ \A c \in Peers(b) : create[c] # "write" /\ (Age[c] < Age[b] => create[c] # "admitted")
    /\ create' = [create EXCEPT ![b] = "write"]
    /\ waits' = IF b \in CIGated \/ ServiceIsActive(b, cached) THEN waits \cup {b} ELSE waits
    /\ UNCHANGED <<live, cached, job, reserved, recent, tick>>

\* The service lock is taken, in the order of Age, and the live list is read; if that
\* fails the build is queued.
Check(b) ==
    /\ create[b] = "admitted"
    /\ \A c \in Peers(b) : create[c] # "write" /\ (Age[c] < Age[b] => create[c] # "admitted")
    /\ create' = [create EXCEPT ![b] = "write"]
    /\ \/ waits' = waits \cup {b} /\ (b \in CIGated \/ ServiceIsActive(b, live) \/ ReadsFail)
       \/ UNCHANGED waits /\ ~(b \in CIGated \/ ServiceIsActive(b, live))
    /\ UNCHANGED <<live, cached, job, reserved, recent, tick>>

\* The token and the cache volume are there; the CR is created, noteBuildStarted counts it
\* if it starts, the lock and the reservation are released.
Write(b) ==
    /\ create[b] = "write"
    /\ create' = [create EXCEPT ![b] = "made"]
    /\ live' = [live EXCEPT ![b] =
                [Absent EXCEPT !.state = IF b \in waits THEN "queued" ELSE "active",
                               !.gate = IF b \in CIGated THEN "waiting" ELSE "none"]]
    /\ recent' = IF b \in waits THEN recent ELSE recent \cup {b}
    /\ reserved' = reserved \ {b}
    /\ UNCHANGED <<cached, job, waits, tick>>

\* No access to the repository, no token, no CR: the lock and the reservation are released.
Refuse(b) ==
    /\ create[b] = "write"
    /\ create' = [create EXCEPT ![b] = "refused"]
    /\ reserved' = reserved \ {b}
    /\ UNCHANGED <<live, cached, job, waits, recent, tick>>

\* A minute later the informer shows what admitRecent was for.
Forget(b) ==
    /\ b \in recent
    /\ cached[b].state \in {"active", "done"}
    /\ recent' = recent \ {b}
    /\ UNCHANGED <<live, cached, job, create, waits, reserved, tick>>

-----------------------------------------------------------------------------
(* dispatchQueued *)

\* The queue is listed and the slots are counted, once.  A tick without either does
\* nothing.
List ==
    /\ tick.at = "idle"
    /\ LET queue == {b \in QueueBuilds : cached[b].state = "queued" /\ ~CIGateHolds(b, cached)}
       IN  /\ queue # {}
           /\ Count < Cap
           /\ tick' = [at |-> "pick", queue |-> queue, room |-> Cap - Count, pick |-> {}]
    /\ UNCHANGED <<live, cached, job, create, waits, reserved, recent>>

\* promoteOne's re-read: the build is over.
Terminal(b) == live[b].state = "done" \/ live[b].done

\* Mutant: the room left in the tick is not looked at.
PickWithoutRoom(b) ==
    /\ tick.at = "pick"
    /\ b \in tick.queue
    /\ \A c \in tick.queue \cap Peers(b) : Age[b] <= Age[c]
    /\ ~ServiceIsActive(b, cached)
    /\ tick' = [tick EXCEPT !.queue = @ \ Peers(b), !.at = "patch", !.pick = {b}]
    /\ UNCHANGED <<live, cached, job, create, waits, reserved, recent>>

\* Mutant: the newest of the queue.
PickNewest(b) ==
    /\ tick.at = "pick"
    /\ tick.room > 0
    /\ b \in tick.queue
    /\ \A c \in tick.queue \cap Peers(b) : Age[b] >= Age[c]
    /\ ~ServiceIsActive(b, cached)
    /\ tick' = [tick EXCEPT !.queue = @ \ Peers(b), !.at = "patch", !.pick = {b}]
    /\ UNCHANGED <<live, cached, job, create, waits, reserved, recent>>

\* One service: the oldest of its queue, unless a build of it is active; promoteOne reads
\* that build again, and leaves it if the read shows it over.
Pick(b) ==
    /\ tick.at = "pick"
    /\ tick.room > 0
    /\ b \in tick.queue
    /\ \A c \in tick.queue \cap Peers(b) : Age[b] <= Age[c]
    /\ \/ /\ ServiceIsActive(b, cached) \/ Terminal(b)
          /\ tick' = [tick EXCEPT !.queue = @ \ Peers(b)]
       \/ /\ ~ServiceIsActive(b, cached)
          /\ ~Terminal(b) \/ ReadsFail
          /\ tick' = [tick EXCEPT !.queue = @ \ Peers(b), !.at = "patch", !.pick = {b}]
    /\ UNCHANGED <<live, cached, job, create, waits, reserved, recent>>

\* A new token, the service, the project and the cache volume later, the patch.  It looks
\* at nothing, and leaves spec.done as it is.
Patch ==
    /\ tick.at = "patch"
    /\ live' = [b \in QueueBuilds |->
                IF b \in tick.pick THEN [live[b] EXCEPT !.state = "active"] ELSE live[b]]
    /\ tick' = [tick EXCEPT !.at = "note"]
    /\ UNCHANGED <<cached, job, create, waits, reserved, recent>>

\* Mutant: a started build does not use up the tick's room.
NoteKeepsRoom ==
    /\ tick.at = "note"
    /\ recent' = recent \cup tick.pick
    /\ tick' = [tick EXCEPT !.at = "pick", !.pick = {}]
    /\ UNCHANGED <<live, cached, job, create, waits, reserved>>

\* noteBuildStarted
Note ==
    /\ tick.at = "note"
    /\ recent' = recent \cup tick.pick
    /\ tick' = [tick EXCEPT !.at = "pick", !.pick = {}, !.room = @ - 1]
    /\ UNCHANGED <<live, cached, job, create, waits, reserved>>

EndTick ==
    /\ tick.at = "pick"
    /\ tick.queue = {} \/ tick.room = 0
    /\ tick' = NoTick
    /\ UNCHANGED <<live, cached, job, create, waits, reserved, recent>>

-----------------------------------------------------------------------------
(* The poller, the CI gate and users *)

End(b) == live' = [live EXCEPT ![b].state = "done", ![b].done = TRUE]

\* buildcontroller: a build that is seen active, and not done, gets its Job.
StartJob(b) ==
    /\ cached[b].state = "active"
    /\ ~cached[b].done
    /\ ~cached[b].green
    /\ job[b] = "none"
    /\ job' = [job EXCEPT ![b] = "active"]
    /\ UNCHANGED <<live, cached, create, waits, reserved, recent, tick>>

JobEnds(b) ==
    /\ job[b] = "active"
    /\ \E s \in {"green", "failed"} : job' = [job EXCEPT ![b] = s]
    /\ UNCHANGED <<live, cached, create, waits, reserved, recent, tick>>

\* noteJobSucceeded: the build gives back its slot, and keeps its service.
NoteGreen(b) ==
    /\ cached[b].state = "active"
    /\ job[b] = "green"
    /\ ~cached[b].green
    /\ live' = [live EXCEPT ![b].green = TRUE]
    /\ UNCHANGED <<cached, job, create, waits, reserved, recent, tick>>

\* markSucceededAsync, whatever the outcome; a cancelled build is left alone.
Finish(b) ==
    /\ cached[b].state = "active"
    /\ job[b] = "green"
    /\ live[b].state = "active"
    /\ End(b)
    /\ UNCHANGED <<cached, job, create, waits, reserved, recent, tick>>

\* Mutant: the stuck-timeout does not exist.
MarkFailedByJob(b) ==
    /\ cached[b].state = "active"
    /\ job[b] = "failed"
    /\ live[b].state # "done"
    /\ ~live[b].done
    /\ ~live[b].green
    /\ End(b)
    /\ UNCHANGED <<cached, job, create, waits, reserved, recent, tick>>

\* markFailed: the Job failed, or has not appeared before buildStuckTimeout.  A build that
\* is done, or whose Job was green, is left alone.
MarkFailed(b) ==
    /\ cached[b].state = "active"
    /\ job[b] \in {"none", "failed"}
    /\ live[b].state # "done"
    /\ ~live[b].done
    /\ ~live[b].green
    /\ End(b)
    /\ UNCHANGED <<cached, job, create, waits, reserved, recent, tick>>

\* evaluateCIGate, on a copy of the build, with a patch that looks at nothing; a commit's
\* verdict, once given, is given again.
CIVerdict(b) ==
    /\ cached[b].gate = "waiting"
    /\ cached[b].state # "done"
    /\ live[b].gate = "waiting"
    /\ \E verdict \in {"passed", "failed"} : live' = [live EXCEPT ![b].gate = verdict]
    /\ UNCHANGED <<cached, job, create, waits, reserved, recent, tick>>

\* cancelBuild; the Job goes with it.
CancelBuild(b) ==
    /\ live[b].state \in {"queued", "active"}
    /\ End(b)
    /\ job' = [job EXCEPT ![b] = "none"]
    /\ UNCHANGED <<cached, create, waits, reserved, recent, tick>>

\* cancelForCI, again until it lands.
CancelForCI(b) == live[b].gate = "failed" /\ CancelBuild(b)

Cancel(b) == b \in QueueCancellable /\ CancelBuild(b)

Sync ==
    /\ cached # live
    /\ cached' = live
    /\ UNCHANGED <<live, job, create, waits, reserved, recent, tick>>

CreateStep(b) == Admit(b) \/ Check(b) \/ Write(b) \/ Refuse(b)
TickStep == List \/ (\E b \in QueueBuilds : Pick(b)) \/ Patch \/ Note \/ EndTick
EndStep(b) == Finish(b) \/ MarkFailed(b)

QueueNext ==
    \/ \E b \in QueueBuilds :
        \/ CreateStep(b) \/ Forget(b)
        \/ StartJob(b) \/ JobEnds(b) \/ NoteGreen(b) \/ EndStep(b)
        \/ CIVerdict(b) \/ CancelForCI(b) \/ Cancel(b)
    \/ TickStep
    \/ Sync

QueueSpec == QueueInit /\ [][QueueNext]_QueueVars

\* A Create that has begun goes on, the leader ticks, the informer catches up, a minute
\* passes.  Nothing makes users create or cancel builds, or a Job start.
QueueFairness ==
    /\ \A b \in QueueBuilds : WF_QueueVars(Check(b) \/ Write(b) \/ Refuse(b))
    /\ \A b \in QueueBuilds : WF_QueueVars(Forget(b))
    /\ \A b \in QueueBuilds : WF_QueueVars(JobEnds(b))
    /\ \A b \in QueueBuilds : WF_QueueVars(EndStep(b))
    /\ \A b \in QueueBuilds : WF_QueueVars(CIVerdict(b) \/ CancelForCI(b))
    /\ WF_QueueVars(TickStep)
    /\ WF_QueueVars(Sync)

QueueFairSpec == QueueSpec /\ QueueFairness

-----------------------------------------------------------------------------
(* Properties *)

AtWork(b) == live[b].state = "active" /\ ~live[b].done

\* However many Creates overlap with each other and with a tick, which counts once and
\* then starts what it found room for: the builds that Create started keep the cap among
\* themselves, and so do those the dispatcher started; together they are at most twice
\* the cap (admitBuild, dispatchQueued).
EachDoorKeepsTheCap ==
    \A door \in {waits, QueueBuilds \ waits} :
        Cardinality({b \in door : AtWork(b) /\ ~live[b].green}) <= Cap

\* Two builds of a service that came in by the same door are not at work together, nor
\* is one built while the other, whose slot is free again, still waits for its gates or
\* its release hook, unless the older of the two waited for its commit's CI: two Creates
\* exclude each other by the service lock and the live list, two queued builds because as
\* long as the informer does not show the older one started, it shows it at the head of
\* the queue.  A gated build joins the queue when its verdict lands, which may be after a
\* younger one was picked (create, dispatchQueued; see OneBuildPerService).
SameDoorExcludes ==
    \A b, c \in QueueBuilds :
        /\ Service[b] = Service[c] /\ Age[b] < Age[c]
        /\ AtWork(b) /\ AtWork(c)
        /\ (b \in waits) = (c \in waits)
        => b \in CIGated

\* "The user-visible 'first click runs first' invariant": when a queued build is started,
\* the older queued ones of its service are over, but for those that were waiting for their
\* commit's CI.  The dispatcher sorts what a stale list shows it (dispatchQueued).
FirstClickRunsFirst ==
    \A b, c \in waits :
        /\ Service[b] = Service[c] /\ Age[b] < Age[c]
        /\ create[b] = "made" /\ live[c].state = "active"
        => live[b].done \/ b \in CIGated

\* A commit that its CI rejected is never built, in whatever order the stamp, the cancel
\* and the dispatcher's tick come (ciGateHolds).
RedIsNotBuilt == \A b \in QueueBuilds : live[b].gate = "failed" => job[b] = "none"

\* Resurrected: a build that was done when the dispatcher's patch removed its label.
Zombie(b) == live[b].state = "active" /\ live[b].done

\* The queue drains: every build that was created ends, whatever the builds before it did
\* and whether or not their Jobs ever appeared; unless a zombie holds its service (see
\* ActiveBuildsEnd).
QueueDrains ==
    \A b \in QueueBuilds :
        create[b] = "made" ~> live[b].state = "done" \/ \E z \in Peers(b) : Zombie(z)

\* "Without this a build with no Job is polled forever and never reaches a terminal state":
\* every build without a label ends (checkBuild, buildStuckTimeout).
ActiveBuildsEnd == \A b \in QueueBuilds : live[b].state = "active" ~> live[b].state = "done"

\* A service has one build at work.  "The mutex covers the active-check through CR creation
\* so the queued/active decision is atomic" (create), and the dispatcher starts a queued
\* build "when their service has no active build" (dispatchQueued).
OneBuildPerService ==
    \A b, c \in QueueBuilds : b # c /\ Service[b] = Service[c] => ~(AtWork(b) /\ AtWork(c))
=============================================================================
