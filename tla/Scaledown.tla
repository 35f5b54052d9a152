------------------------------- MODULE Scaledown -------------------------------
(***************************************************************************)
(* Scale to zero (internal/scaledown, internal/activator, the kusoenv       *)
(* chart) for one environment: the leader's watcher puts an idle environment *)
(* to sleep, the activator wakes it when a request comes, the watcher wakes  *)
(* it when the service opts out.  Each does so by a call on the Deployment   *)
(* and one on the CR, in opposite orders, and none excludes another.         *)
(***************************************************************************)
EXTENDS Naturals

CONSTANTS
    Full,     \* the replicas the service runs with
    Leaders,  \* servers whose watcher runs: the leader, and for a moment the one before
    Activator,\* the activator, as a caller of Wake
    MaxFlips  \* bound on changes of the service's sleep setting

ASSUME ScaledownAssumption ==
    /\ Full \in Nat \ {0} /\ MaxFlips \in Nat
    /\ Activator \notin Leaders

VARIABLES
    crCount, \* the CR's spec.replicaCount
    stash,   \* its pre-sleep-replicas annotation; 0 is none
    fresh,   \* its last-activity annotation is younger than the idle window
    crRoute, \* spec.sleep or spec.autoSleep: route the Ingress to the activator
    deploy,  \* the Deployment's spec.replicas
    ready,   \* it has a ready endpoint
    routed,  \* the rendered Ingress sends traffic to the activator
    envKind, \* [production, autoscaled], fixed
    allowed, \* the policy: the environment may sleep
    sleeper, \* per leader: where scaleToZero is, and the count it read
    waker,   \* per caller: where Wake is, and the count it read
    request, \* a client's request
    flips

envCR == <<crCount, stash, fresh, crRoute>>
cluster == <<deploy, ready, routed>>
setting == <<envKind, allowed, flips>>
calls == <<sleeper, waker>>
ScaleVars == <<envCR, cluster, setting, calls, request>>

Wakers == Leaders \union {Activator}
NoSleep == [at |-> "idle", prior |-> 0]
NoWake == [at |-> "idle", want |-> 0]

ScaleTypeOK ==
    /\ crCount \in 0 .. Full /\ stash \in 0 .. Full
    /\ fresh \in BOOLEAN /\ crRoute \in BOOLEAN
    /\ deploy \in 0 .. Full
    /\ ready \in BOOLEAN /\ routed \in BOOLEAN
    /\ envKind \in [production : BOOLEAN, autoscaled : BOOLEAN]
    /\ allowed \in BOOLEAN
    /\ sleeper \in [Leaders -> [at : {"idle", "get", "patch", "persist"}, prior : 0 .. Full]]
    /\ waker \in [Wakers -> [at : {"idle", "persist", "patch"}, want : 0 .. Full]]
    /\ request \in {"none", "sent", "held"}
    /\ flips \in 0 .. MaxFlips
    /\ ready => deploy > 0

\* An environment that runs with all its replicas, behind what it is to be behind.
ScaleInit ==
    /\ crCount = Full /\ stash = 0 /\ fresh = TRUE
    /\ deploy = Full /\ ready = TRUE
    /\ envKind \in [production : BOOLEAN, autoscaled : BOOLEAN]
    /\ allowed \in BOOLEAN /\ crRoute = allowed /\ routed = allowed
    /\ sleeper = [l \in Leaders |-> NoSleep]
    /\ waker = [p \in Wakers |-> NoWake]
    /\ request = "none"
    /\ flips = 0

Scale(n) == deploy' = n /\ ready' = (ready /\ n > 0)
Larger(m, n) == IF m < n THEN n ELSE m

-----------------------------------------------------------------------------
(* Wake: the CR first, the Deployment second *)

\* preSleepReplicas: 1 if there is no annotation.
StartWake(p) ==
    /\ waker[p] = NoWake
    /\ waker' = [waker EXCEPT ![p] = [at |-> "persist", want |-> IF stash = 0 THEN 1 ELSE stash]]

\* Mutant: the activity is left to the request that comes through.
WakePersistsUnstamped(p) ==
    /\ waker[p].at = "persist"
    /\ waker' = [waker EXCEPT ![p].at = "patch"]
    /\ crCount' = Larger(crCount, waker[p].want)
    /\ stash' = 0
    /\ UNCHANGED <<fresh, crRoute, cluster, setting, sleeper, request>>

\* Mutant: the count is added to what the CR says.
WakePersistsAdds(p) ==
    /\ waker[p].at = "persist"
    /\ waker' = [waker EXCEPT ![p].at = "patch"]
    /\ crCount' = crCount + waker[p].want
    /\ stash' = 0
    /\ fresh' = TRUE
    /\ UNCHANGED <<crRoute, cluster, setting, sleeper, request>>

WakePersists(p) ==
    /\ waker[p].at = "persist"
    /\ waker' = [waker EXCEPT ![p].at = "patch"]
    /\ crCount' = Larger(crCount, waker[p].want)
    /\ stash' = 0
    /\ fresh' = TRUE
    /\ UNCHANGED <<crRoute, cluster, setting, sleeper, request>>

\* A failure is logged, and the Deployment is patched all the same.
WakePersistFails(p) ==
    /\ waker[p].at = "persist"
    /\ waker' = [waker EXCEPT ![p].at = "patch"]
    /\ UNCHANGED <<envCR, cluster, setting, sleeper, request>>

\* The patch tests for 0: an environment that is awake keeps its count.
WakePatches(p) ==
    /\ waker[p].at = "patch"
    /\ waker' = [waker EXCEPT ![p] = NoWake]
    /\ Scale(IF deploy = 0 THEN waker[p].want ELSE deploy)
    /\ UNCHANGED <<envCR, routed, setting, sleeper, request>>

WakeFails(p) ==
    /\ waker[p].at = "patch"
    /\ waker' = [waker EXCEPT ![p] = NoWake]
    /\ UNCHANGED <<envCR, cluster, setting, sleeper, request>>

-----------------------------------------------------------------------------
(* The watcher: evaluateEnv, scaleToZero *)

Idle(l) == sleeper[l] = NoSleep /\ waker[l] = NoWake

\* Mutant: the flag has followed the policy, so the environment is taken to be up.
OversleptUnlessRouted == ~allowed /\ stash > 0 /\ deploy = 0 /\ crRoute

\* Asleep, and no longer allowed to be.
Overslept == ~allowed /\ stash > 0 /\ deploy = 0

WatcherWakes(l) ==
    /\ Idle(l) /\ Overslept
    /\ StartWake(l)
    /\ UNCHANGED <<envCR, cluster, setting, sleeper, request>>

\* autoSleep of a non-production environment follows the policy; the idle clock restarts.
SetAutoSleep(l) ==
    /\ Idle(l) /\ ~Overslept
    /\ ~envKind.production /\ crRoute # allowed
    /\ crRoute' = allowed
    /\ fresh' = (fresh \/ allowed)
    /\ UNCHANGED <<crCount, stash, cluster, setting, calls, request>>

MaySleep == allowed /\ deploy > 0 /\ ~fresh /\ routed

\* The last of evaluateEnv's checks; what follows does not look again.  From one tick to
\* the next a request is answered or held.
StartSleep(l) ==
    /\ Idle(l) /\ MaySleep /\ request # "sent"
    /\ ~envKind.production => crRoute
    /\ sleeper' = [sleeper EXCEPT ![l].at = "get"]
    /\ UNCHANGED <<envCR, cluster, setting, waker, request>>

\* The live count, 1 if it is 0.
SleepReads(l) ==
    /\ sleeper[l].at = "get"
    /\ sleeper' = [sleeper EXCEPT ![l] = [at |-> "patch", prior |-> Larger(1, deploy)]]
    /\ UNCHANGED <<envCR, cluster, setting, waker, request>>

SleepPatches(l) ==
    /\ sleeper[l].at = "patch"
    /\ sleeper' = [sleeper EXCEPT ![l].at = "persist"]
    /\ Scale(0)
    /\ UNCHANGED <<envCR, routed, setting, waker, request>>

SleepPersists(l) ==
    /\ sleeper[l].at = "persist"
    /\ sleeper' = [sleeper EXCEPT ![l] = NoSleep]
    /\ crCount' = 0
    /\ stash' = sleeper[l].prior
    /\ UNCHANGED <<fresh, crRoute, cluster, setting, waker, request>>

\* The patch fails, or the write to the CR does and is logged, or the server goes down.
SleepFails(l) ==
    /\ sleeper[l].at \in {"patch", "persist"}
    /\ sleeper' = [sleeper EXCEPT ![l] = NoSleep]
    /\ UNCHANGED <<envCR, cluster, setting, waker, request>>

-----------------------------------------------------------------------------
(* Requests and the activator *)

SendRequest ==
    /\ request = "none"
    /\ request' = "sent"
    /\ UNCHANGED <<envCR, cluster, setting, calls>>

\* Behind the activator a request is an activity, stamped at most every half minute and
\* off its path; in front of the application's own Service it is not.
Serve ==
    /\ request # "none" /\ ready
    /\ request' = "none"
    /\ fresh' \in IF routed THEN {fresh, TRUE} ELSE {fresh}
    /\ UNCHANGED <<crCount, stash, crRoute, cluster, setting, calls>>

\* wakeAndWait: one wake at a time, and every request waits for an endpoint.
HoldRequest ==
    /\ request = "sent" /\ routed /\ ~ready
    /\ request' = "held"
    /\ IF waker[Activator] = NoWake THEN StartWake(Activator) ELSE UNCHANGED waker
    /\ UNCHANGED <<envCR, cluster, setting, sleeper>>

\* The hold times out, the client is told to retry, and does.
Retry ==
    /\ request = "held"
    /\ waker[Activator] = NoWake
    /\ request' = "sent"
    /\ UNCHANGED <<envCR, cluster, setting, calls>>

-----------------------------------------------------------------------------
(* The user, the operator, the cluster and time *)

\* The service's sleep setting, or the project's alwaysOn.  PatchService propagates the
\* former to a production environment.
Flip ==
    /\ flips < MaxFlips
    /\ flips' = flips + 1
    /\ allowed' = ~allowed
    /\ crRoute' = IF envKind.production THEN allowed' ELSE crRoute
    /\ UNCHANGED <<crCount, stash, fresh, cluster, envKind, calls, request>>

\* The chart: the Ingress, and without an autoscaler the replicas.
Render ==
    /\ routed' = crRoute
    /\ IF envKind.autoscaled THEN UNCHANGED <<deploy, ready>> ELSE Scale(crCount)
    /\ UNCHANGED <<envCR, setting, calls, request>>

\* An autoscaler leaves a Deployment at 0 alone.
Autoscale ==
    /\ envKind.autoscaled /\ deploy > 0
    /\ Scale(Full)
    /\ UNCHANGED <<envCR, routed, setting, calls, request>>

PodsReady ==
    /\ deploy > 0 /\ ~ready
    /\ ready' = TRUE
    /\ UNCHANGED <<envCR, deploy, routed, setting, calls, request>>

\* Half an hour without a request: no call of anybody lasts that long, and the operator
\* comes by.
IdleWindow ==
    /\ fresh /\ request = "none"
    /\ \A l \in Leaders : sleeper[l] = NoSleep
    /\ \A p \in Wakers : waker[p] = NoWake
    /\ envKind.autoscaled \/ deploy = crCount
    /\ fresh' = FALSE
    /\ UNCHANGED <<crCount, stash, crRoute, cluster, setting, calls, request>>

ScaleNext ==
    \/ \E p \in Wakers : WakePersists(p) \/ WakePersistFails(p) \/ WakePatches(p) \/ WakeFails(p)
    \/ \E l \in Leaders :
         \/ WatcherWakes(l) \/ SetAutoSleep(l) \/ StartSleep(l)
         \/ SleepReads(l) \/ SleepPatches(l) \/ SleepPersists(l) \/ SleepFails(l)
    \/ SendRequest \/ Serve \/ HoldRequest \/ Retry
    \/ Flip \/ Render \/ Autoscale \/ PodsReady \/ IdleWindow

ScaleSpec == ScaleInit /\ [][ScaleNext]_ScaleVars

\* Calls end and, tried for ever, get through; the ticker, the operator and the cluster go
\* on; a client retries.
ScaleFairness ==
    /\ \A p \in Wakers : SF_ScaleVars(WakePersists(p)) /\ SF_ScaleVars(WakePatches(p))
    /\ \A l \in Leaders :
         /\ WF_ScaleVars(WatcherWakes(l)) /\ WF_ScaleVars(SetAutoSleep(l))
         /\ WF_ScaleVars(SleepReads(l) \/ SleepPatches(l) \/ SleepPersists(l) \/ SleepFails(l))
    /\ WF_ScaleVars(Serve) /\ WF_ScaleVars(HoldRequest) /\ WF_ScaleVars(Retry)
    /\ WF_ScaleVars(Render) /\ WF_ScaleVars(PodsReady)

ScaleFairSpec == ScaleSpec /\ ScaleFairness

-----------------------------------------------------------------------------
(* Properties *)

\* At 0 without a note of it, where neither the autoscaler nor the watcher brings it back.
Stranded == envKind.autoscaled /\ ~allowed /\ deploy = 0 /\ stash = 0

\* A client that retries is answered: no environment is put back to sleep again and again
\* under the request that wakes it (Wake: "the last-activity stamp must be visible before
\* replicas go up").  What a lost write can strand is StrandedWakes' business.
RequestsAreServed == request = "sent" ~> request = "none" \/ Stranded

\* An environment that may no longer sleep wakes up, whoever is still about to put it to
\* sleep (evaluateEnv), and then keeps running.
OptedOutWakes == <>[]~allowed => <>[](deploy > 0 \/ Stranded)

\* What may no longer sleep does not stay at 0 "behind an Ingress that is about to point
\* back at its own 0-endpoint Service" (evaluateEnv).  Violated: the note is lost with a
\* failed write of the CR.
StrandedWakes == Stranded ~> ~Stranded

AllIdle == (\A l \in Leaders : Idle(l)) /\ waker[Activator] = NoWake

\* Sleep and wake do not cost the service its replicas: "so wake restores it exactly"
\* (scaleToZero).  Violated.
CapacityIsKept ==
    AllIdle /\ ~envKind.autoscaled => IF crCount = 0 THEN stash = Full ELSE crCount = Full
=============================================================================
