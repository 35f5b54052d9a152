-------------------------------- MODULE Preview --------------------------------
(***************************************************************************)
(* Preview environments (github.Dispatcher, projects.SweepExpiredPreviews): *)
(* pull request #N of each repo of one project.  The PRs share a number, so *)
(* they share the per-PR clone of the database; each has an environment of  *)
(* its own.  Webhooks of one PR run one after another in a server; the TTL  *)
(* sweep, the builds and the operator's finalizers run beside them.         *)
(*                                                                         *)
(* There is one server.  Its tombstones stand until it restarts: that they *)
(* are dropped after a day is not modelled: no delivery is that late here. *)
(***************************************************************************)
EXTENDS Naturals, Sequences, SequencesExt, FiniteSetsExt

CONSTANTS
    Repos,      \* the project's repos, each with a pull request #N
    MaxEvents,  \* bound on what happens to one pull request on GitHub
    MaxHeads,   \* bound on its commits
    MaxMishaps   \* bound on failed calls, failed builds, restarts and reordered deliveries

ASSUME PreviewAssumption ==
    /\ Repos # {}
    /\ MaxEvents \in Nat /\ MaxHeads \in Nat \ {0} /\ MaxMishaps \in Nat

VARIABLES
    prOpen, head, events, \* GitHub: open or not, the head commit, events so far
    wire,      \* webhooks GitHub has sent and not delivered, per PR
    inbox,     \* keyedSerializer: what waits behind the running delivery
    tombstone, \* closedPRs
    step, doing, existing, \* the running delivery: its step, its payload, existing # nil
    env,       \* the KusoEnvironment <service>-pr-N
    expired,   \* its spec.ttl is past
    image,     \* the commit it runs, 0 for an empty spec.image
    promoted,  \* the trigger of the build that promoted into it last, 0 for none
    clone,     \* the KusoAddon <base>-pr-N
    build, trigger, \* per commit: its newest build, and when it was triggered
    sweep, sweeping, swept, \* the sweep's step, its environment, whether it ever deleted one
    mishaps, restarts

github == <<prOpen, head, events>>
delivery == <<step, doing, existing>>
environment == <<env, expired, image, promoted>>
objects == <<environment, clone>>
builds == <<build, trigger>>
sweeper == <<sweep, sweeping, swept>>
PreviewVars == <<github, wire, inbox, tombstone, delivery, objects, builds, sweeper,
                 mishaps, restarts>>

Heads == 1 .. MaxHeads
Acts == {"opened", "synchronize", "closed", "reopened"}
Payloads == [act : Acts, sha : Heads]
Nothing == [act |-> "closed", sha |-> 1]
TeardownSteps == {"cancel", "delete", "others", "drop"}
EnsureSteps == {"await", "clone", "write", "prior", "build", "stamp"}
ObjectStates == {"none", "live", "terminating"}

PreviewTypeOK ==
    /\ prOpen \in [Repos -> BOOLEAN] /\ head \in [Repos -> 0 .. MaxHeads]
    /\ events \in [Repos -> 0 .. MaxEvents]
    /\ \A r \in Repos : wire[r] \in Seq(Payloads) /\ inbox[r] \in Seq(Payloads)
    /\ tombstone \in [Repos -> BOOLEAN]
    /\ step \in [Repos -> {"idle"} \union TeardownSteps \union EnsureSteps]
    /\ doing \in [Repos -> Payloads] /\ existing \in [Repos -> BOOLEAN]
    /\ env \in [Repos -> ObjectStates] /\ expired \in [Repos -> BOOLEAN]
    /\ image \in [Repos -> 0 .. MaxHeads]
    /\ promoted \in [Repos -> 0 .. MaxEvents]
    /\ clone \in ObjectStates
    /\ build \in [Repos -> [Heads -> {"none", "running", "promoted", "succeeded", "dead"}]]
    /\ trigger \in [Repos -> [Heads -> 0 .. MaxEvents]]
    /\ sweep \in {"idle", "delete", "others", "drop"} /\ sweeping \in Repos
    /\ swept \in BOOLEAN
    /\ mishaps \in 0 .. MaxMishaps /\ restarts \in 0 .. mishaps

PreviewInit ==
    /\ prOpen = [r \in Repos |-> FALSE] /\ head = [r \in Repos |-> 0]
    /\ events = [r \in Repos |-> 0]
    /\ wire = [r \in Repos |-> <<>>] /\ inbox = [r \in Repos |-> <<>>]
    /\ tombstone = [r \in Repos |-> FALSE]
    /\ step = [r \in Repos |-> "idle"] /\ doing = [r \in Repos |-> Nothing]
    /\ existing = [r \in Repos |-> FALSE]
    /\ env = [r \in Repos |-> "none"] /\ expired = [r \in Repos |-> FALSE]
    /\ image = [r \in Repos |-> 0] /\ promoted = [r \in Repos |-> 0]
    /\ clone = "none"
    /\ build = [r \in Repos |-> [s \in Heads |-> "none"]]
    /\ trigger = [r \in Repos |-> [s \in Heads |-> 0]]
    /\ sweep = "idle" /\ sweeping = (CHOOSE r \in Repos : TRUE) /\ swept = FALSE
    /\ mishaps = 0 /\ restarts = 0

Mishap == mishaps < MaxMishaps /\ mishaps' = mishaps + 1

-----------------------------------------------------------------------------
(* GitHub *)

Sends(r, act, open, sha) ==
    /\ events[r] < MaxEvents
    /\ prOpen' = [prOpen EXCEPT ![r] = open] /\ head' = [head EXCEPT ![r] = sha]
    /\ events' = [events EXCEPT ![r] = @ + 1]
    /\ wire' = [wire EXCEPT ![r] = Append(@, [act |-> act, sha |-> sha])]
    /\ UNCHANGED <<inbox, tombstone, delivery, objects, builds, sweeper, mishaps, restarts>>

OpenPR(r) == head[r] = 0 /\ Sends(r, "opened", TRUE, 1)
PushCommit(r) == prOpen[r] /\ head[r] < MaxHeads /\ Sends(r, "synchronize", TRUE, head[r] + 1)
ClosePR(r) == prOpen[r] /\ Sends(r, "closed", FALSE, head[r])
ReopenPR(r) == ~prOpen[r] /\ head[r] > 0 /\ Sends(r, "reopened", TRUE, head[r])

\* DispatchAsync: the webhook is queued behind the others of its PR.  One that overtakes
\* another on its way is a fault.
Deliver(r, k) ==
    /\ k \in DOMAIN wire[r]
    /\ inbox' = [inbox EXCEPT ![r] = Append(@, wire[r][k])]
    /\ wire' = [wire EXCEPT ![r] = RemoveAt(@, k)]
    /\ IF k = 1 THEN UNCHANGED mishaps ELSE Mishap
    /\ UNCHANGED <<github, tombstone, delivery, objects, builds, sweeper, restarts>>

\* A restart loses the queues, the running deliveries, the tombstones and the sweep.
Restart ==
    /\ Mishap
    /\ restarts' = restarts + 1
    /\ inbox' = [r \in Repos |-> <<>>]
    /\ tombstone' = [r \in Repos |-> FALSE]
    /\ step' = [r \in Repos |-> "idle"] /\ doing' = [r \in Repos |-> Nothing]
    /\ existing' = [r \in Repos |-> FALSE]
    /\ sweep' = "idle"
    /\ UNCHANGED <<github, wire, objects, builds, sweeping, swept>>

-----------------------------------------------------------------------------
(* onPullRequest *)

Goes(r, pc) == step' = [step EXCEPT ![r] = pc] /\ UNCHANGED <<doing, existing>>

\* Mutant: a late opened or synchronize is not held against the tombstone.
AdmitsUnmarked(r, act) == act # "closed"

\* Is the delivery one that ensures the preview?
Admits(r, act) ==
    \/ act = "reopened"
    \/ act \in {"opened", "synchronize"} /\ ~tombstone[r]

\* The next delivery starts: a close marks the PR, a reopen clears it, and an opened or a
\* synchronize of a marked PR is skipped.
Take(r) ==
    /\ step[r] = "idle" /\ inbox[r] # <<>>
    /\ LET d == Head(inbox[r]) IN
         /\ doing' = [doing EXCEPT ![r] = d]
         /\ tombstone' = [tombstone EXCEPT ![r] =
                IF d.act = "closed" THEN TRUE ELSE IF d.act = "reopened" THEN FALSE ELSE @]
         /\ step' = [step EXCEPT ![r] = IF d.act = "closed" THEN "cancel"
                                    ELSE IF Admits(r, d.act) THEN "await" ELSE "idle"]
    /\ inbox' = [inbox EXCEPT ![r] = Tail(@)]
    /\ UNCHANGED <<github, wire, existing, objects, builds, sweeper, mishaps, restarts>>

\* teardownPreview: CancelPreviewBuilds ends what is not done; a failure is logged.
CancelPreviewBuilds(r) ==
    /\ step[r] = "cancel" /\ Goes(r, "delete")
    /\ \/ /\ build' = [build EXCEPT ![r] = [s \in Heads |->
                 IF @[s] \in {"running", "promoted"} THEN "dead" ELSE @[s]]]
          /\ UNCHANGED mishaps
       \/ Mishap /\ UNCHANGED build
    /\ UNCHANGED <<github, wire, inbox, tombstone, objects, trigger, sweeper, restarts>>

\* Mutant: an object state the operator does not know, so that no finalizer ever ends it.
DeletedByName(o) == IF o = "live" THEN "deleted" ELSE o

\* metadata.deletionTimestamp is set, and the finalizers hold the object.
Deleted(o) == IF o = "live" THEN "terminating" ELSE o

\* deletePreviewEnv; a failure is logged and the teardown goes on.
DeletePreviewEnv(r) ==
    /\ step[r] = "delete" /\ Goes(r, "others")
    /\ \/ env' = [env EXCEPT ![r] = Deleted(@)] /\ UNCHANGED mishaps
       \/ Mishap /\ UNCHANGED env
    /\ UNCHANGED <<github, wire, inbox, tombstone, expired, image, promoted, clone, builds,
                   sweeper, restarts>>

\* otherPreviewEnvsForPR: a live preview of another repo, or a list that fails, keeps the
\* clone.
OthersOf(r) == \E q \in Repos \ {r} : env[q] = "live"
OtherPreviewEnvsForPR(r) ==
    /\ step[r] = "others"
    /\ \/ Goes(r, IF OthersOf(r) THEN "idle" ELSE "drop") /\ UNCHANGED mishaps
       \/ Mishap /\ Goes(r, "idle")
    /\ UNCHANGED <<github, wire, inbox, tombstone, objects, builds, sweeper, restarts>>

\* DeletePRAddons; a failure is logged.
DeletePRAddons(r) ==
    /\ step[r] = "drop" /\ Goes(r, "idle")
    /\ \/ clone' = Deleted(clone) /\ UNCHANGED mishaps
       \/ Mishap /\ UNCHANGED clone
    /\ UNCHANGED <<github, wire, inbox, tombstone, environment, builds, sweeper, restarts>>

-----------------------------------------------------------------------------
(* ensurePreviewEnv *)

\* previewTerminating: nothing of the PR's is on its way out.
TornDown(r) == env[r] # "terminating" /\ clone # "terminating"

\* awaitPreviewTeardown and the Get behind it.
AwaitPreviewTeardown(r) ==
    /\ step[r] = "await" /\ TornDown(r)
    /\ step' = [step EXCEPT ![r] = "clone"]
    /\ existing' = [existing EXCEPT ![r] = env[r] # "none"]
    /\ UNCHANGED <<github, wire, inbox, tombstone, doing, objects, builds, sweeper, mishaps,
                   restarts>>

\* An error, logged, ends the handling: the wait times out, the clone or the service cannot
\* be read, the write is refused, Create or the stamp fails.  With a failing list of prior
\* builds nothing is stamped, and Create, not told to retry, meets the name of the build
\* that exists; where none does, it is as if the list had been read.
Refuse(r) ==
    /\ step[r] \in EnsureSteps
    /\ Mishap
    /\ Goes(r, "idle")
    /\ UNCHANGED <<github, wire, inbox, tombstone, objects, builds, sweeper, restarts>>

\* EnsurePRAddons: a clone that exists is adopted, a terminating one too.
EnsurePRAddons(r) ==
    /\ step[r] = "clone" /\ Goes(r, "write")
    /\ clone' = IF clone = "none" THEN "live" ELSE clone
    /\ UNCHANGED <<github, wire, inbox, tombstone, environment, builds, sweeper, mishaps,
                   restarts>>

\* The spec is replaced wholesale, so the image goes; the annotations stay.
UpdateEnv(r) ==
    /\ step[r] = "write" /\ existing[r]
    /\ IF env[r] = "none"
         THEN Goes(r, "idle") /\ UNCHANGED environment
         ELSE /\ Goes(r, "prior")
              /\ expired' = [expired EXCEPT ![r] = FALSE]
              /\ image' = [image EXCEPT ![r] = 0]
              /\ UNCHANGED <<env, promoted>>
    /\ UNCHANGED <<github, wire, inbox, tombstone, clone, builds, sweeper, mishaps, restarts>>

CreateEnv(r) ==
    /\ step[r] = "write" /\ ~existing[r]
    /\ IF env[r] # "none"
         THEN Goes(r, "idle") /\ UNCHANGED environment
         ELSE /\ Goes(r, "prior")
              /\ env' = [env EXCEPT ![r] = "live"]
              /\ expired' = [expired EXCEPT ![r] = FALSE]
              /\ image' = [image EXCEPT ![r] = 0] /\ promoted' = [promoted EXCEPT ![r] = 0]
    /\ UNCHANGED <<github, wire, inbox, tombstone, clone, builds, sweeper, mishaps, restarts>>

\* priorBuildsForSHA: a build in flight will promote by itself; a succeeded one is stamped;
\* else a build is created, a retry of the one that ended without an image.
PriorBuildsForSHA(r) ==
    /\ step[r] = "prior"
    /\ LET b == build[r][doing[r].sha] IN
         Goes(r, IF b \in {"running", "promoted"} THEN "idle"
                 ELSE IF b = "succeeded" THEN "stamp" ELSE "build")
    /\ UNCHANGED <<github, wire, inbox, tombstone, objects, builds, sweeper, mishaps, restarts>>

\* Mutant: the build that a close cancelled is not retried.
CreateBuildOnce(r) ==
    /\ step[r] = "build" /\ Goes(r, "idle")
    /\ LET s == doing[r].sha IN
         IF build[r][s] = "none"
           THEN /\ build' = [build EXCEPT ![r][s] = "running"]
                /\ trigger' = [trigger EXCEPT ![r][s] = 1 + Max({trigger[r][h] : h \in Heads})]
           ELSE UNCHANGED builds
    /\ UNCHANGED <<github, wire, inbox, tombstone, objects, sweeper, mishaps, restarts>>

\* Builds.Create, with Retry when the commit's build ended without an image.
CreateBuild(r) ==
    /\ step[r] = "build" /\ Goes(r, "idle")
    /\ LET s == doing[r].sha IN
         /\ build' = [build EXCEPT ![r][s] = "running"]
         /\ trigger' = [trigger EXCEPT ![r][s] = 1 + Max({trigger[r][h] : h \in Heads})]
    /\ UNCHANGED <<github, wire, inbox, tombstone, objects, sweeper, mishaps, restarts>>

\* stampExistingBuildImage: a merge patch, whatever the environment runs by then.
StampExistingBuildImage(r) ==
    /\ step[r] = "stamp" /\ Goes(r, "idle")
    /\ image' = [image EXCEPT ![r] = IF env[r] = "none" THEN @ ELSE doing[r].sha]
    /\ UNCHANGED <<github, wire, inbox, tombstone, env, expired, promoted, clone, builds,
                   sweeper, mishaps, restarts>>

-----------------------------------------------------------------------------
(* Builds, finalizers and time *)

\* promoteImageCount into the preview: last trigger wins.
PromoteBuild(r, s) ==
    /\ build[r][s] = "running"
    /\ build' = [build EXCEPT ![r][s] = "promoted"]
    /\ IF env[r] # "none" /\ trigger[r][s] >= promoted[r]
         THEN /\ image' = [image EXCEPT ![r] = s]
              /\ promoted' = [promoted EXCEPT ![r] = trigger[r][s]]
         ELSE UNCHANGED <<image, promoted>>
    /\ UNCHANGED <<github, wire, inbox, tombstone, delivery, env, expired, clone, trigger,
                   sweeper, mishaps, restarts>>

\* markSucceeded, after the promotion.
FinishBuild(r, s) ==
    /\ build[r][s] = "promoted"
    /\ build' = [build EXCEPT ![r][s] = "succeeded"]
    /\ UNCHANGED <<github, wire, inbox, tombstone, delivery, objects, trigger, sweeper, mishaps,
                   restarts>>

FailBuild(r, s) ==
    /\ build[r][s] = "running" /\ Mishap
    /\ build' = [build EXCEPT ![r][s] = "dead"]
    /\ UNCHANGED <<github, wire, inbox, tombstone, delivery, objects, trigger, sweeper, restarts>>

\* The operator's uninstall finalizers.
FinalizeEnv(r) ==
    /\ env[r] = "terminating"
    /\ env' = [env EXCEPT ![r] = "none"]
    /\ expired' = [expired EXCEPT ![r] = FALSE]
    /\ image' = [image EXCEPT ![r] = 0] /\ promoted' = [promoted EXCEPT ![r] = 0]
    /\ UNCHANGED <<github, wire, inbox, tombstone, delivery, clone, builds, sweeper, mishaps,
                   restarts>>
FinalizeClone ==
    /\ clone = "terminating"
    /\ clone' = "none"
    /\ UNCHANGED <<github, wire, inbox, tombstone, delivery, environment, builds, sweeper,
                   mishaps, restarts>>

\* Days after the last write.
Expire(r) ==
    /\ env[r] # "none" /\ ~expired[r] /\ step[r] \notin {"prior", "build", "stamp"}
    /\ expired' = [expired EXCEPT ![r] = TRUE]
    /\ UNCHANGED <<github, wire, inbox, tombstone, delivery, env, image, promoted, clone, builds,
                   sweeper, mishaps, restarts>>

-----------------------------------------------------------------------------
(* SweepExpiredPreviews *)

\* Mutant: an answer that cannot be had, or that says closed, keeps the environment.
PreviewPROpenAlways == TRUE

\* PreviewPROpen: on any of the project's repos.
PreviewPROpen == \E r \in Repos : prOpen[r]

\* An open PR extends the TTL; an answer that fails leaves it to the next tick.
SweepExtends(r) ==
    /\ sweep = "idle" /\ env[r] # "none" /\ expired[r] /\ PreviewPROpen
    /\ expired' = [expired EXCEPT ![r] = FALSE]
    /\ UNCHANGED <<github, wire, inbox, tombstone, delivery, env, image, promoted, clone, builds,
                   sweeper, mishaps, restarts>>
SweepDecides(r) ==
    /\ sweep = "idle" /\ env[r] # "none" /\ expired[r] /\ ~PreviewPROpen
    /\ sweep' = "delete" /\ sweeping' = r
    /\ UNCHANGED <<github, wire, inbox, tombstone, delivery, objects, builds, swept, mishaps,
                   restarts>>

\* DeleteEnvironment: the CR, then the clone unless another environment is in its scope or
\* the list fails.  A CR that cannot be deleted ends it.
SweepDeletes ==
    /\ sweep = "delete"
    /\ \/ /\ env' = [env EXCEPT ![sweeping] = Deleted(@)]
          /\ sweep' = "others" /\ swept' = TRUE
          /\ UNCHANGED mishaps
       \/ Mishap /\ sweep' = "idle" /\ UNCHANGED <<env, swept>>
    /\ UNCHANGED <<github, wire, inbox, tombstone, delivery, expired, image, promoted, clone,
                   builds, sweeping, restarts>>
SweepLists ==
    /\ sweep = "others"
    /\ \/ sweep' = (IF OthersOf(sweeping) THEN "idle" ELSE "drop") /\ UNCHANGED mishaps
       \/ Mishap /\ sweep' = "idle"
    /\ UNCHANGED <<github, wire, inbox, tombstone, delivery, objects, builds, sweeping, swept,
                   restarts>>
SweepDrops ==
    /\ sweep = "drop" /\ sweep' = "idle"
    /\ \/ clone' = Deleted(clone) /\ UNCHANGED mishaps
       \/ Mishap /\ UNCHANGED clone
    /\ UNCHANGED <<github, wire, inbox, tombstone, delivery, environment, builds, sweeping,
                   swept, restarts>>

-----------------------------------------------------------------------------
GitHub(r) == OpenPR(r) \/ PushCommit(r) \/ ClosePR(r) \/ ReopenPR(r)
Worker(r) ==
    \/ Take(r) \/ CancelPreviewBuilds(r) \/ DeletePreviewEnv(r) \/ OtherPreviewEnvsForPR(r)
    \/ DeletePRAddons(r) \/ AwaitPreviewTeardown(r) \/ Refuse(r) \/ EnsurePRAddons(r)
    \/ UpdateEnv(r) \/ CreateEnv(r) \/ PriorBuildsForSHA(r) \/ CreateBuild(r)
    \/ StampExistingBuildImage(r)
Building(r) == \E s \in Heads : PromoteBuild(r, s) \/ FinishBuild(r, s) \/ FailBuild(r, s)
Finalizers == FinalizeClone \/ \E r \in Repos : FinalizeEnv(r)
Sweeping ==
    SweepDeletes \/ SweepLists \/ SweepDrops \/ \E r \in Repos : SweepExtends(r) \/ SweepDecides(r)
PreviewNext ==
    \/ \E r \in Repos :
         \/ GitHub(r) \/ Worker(r) \/ Building(r) \/ Expire(r)
         \/ \E k \in 1 .. MaxEvents : Deliver(r, k)
    \/ Finalizers \/ Sweeping \/ Restart
PreviewSpec == PreviewInit /\ [][PreviewNext]_PreviewVars

PreviewFairness ==
    /\ \A r \in Repos :
         /\ WF_PreviewVars(Deliver(r, 1)) /\ WF_PreviewVars(Worker(r))
         /\ WF_PreviewVars(Building(r)) /\ WF_PreviewVars(Expire(r))
         /\ WF_PreviewVars(FinalizeEnv(r))
    /\ WF_PreviewVars(FinalizeClone)
    /\ WF_PreviewVars(Sweeping)
PreviewFairSpec == PreviewSpec /\ PreviewFairness

-----------------------------------------------------------------------------
(* Properties *)

\* A preview of a closed pull request goes away, whatever was lost or failed on the way: the
\* close, or else the TTL sweep, takes it down (envs_ops.go).
ClosedPreviewsGo ==
    \A r \in Repos : <>[](\A q \in Repos : ~prOpen[q]) => <>[](env[r] = "none")

\* When no call failed and the sweep deleted nothing, the preview of an open pull request
\* ends up with the image of its head, also when it was closed and reopened while the old
\* one was still on its way out (dispatcher.go, awaitPreviewTeardown, Retry).
OpenPreviewShowsHead ==
    \A r \in Repos :
      <>[](prOpen[r] /\ mishaps = 0 /\ ~swept) => <>[](env[r] = "live" /\ image[r] = head[r])

\* A close of the PR that its worker has yet to take.
ClosePending(r) ==
    \/ \E i \in DOMAIN wire[r] : wire[r][i].act = "closed"
    \/ \E i \in DOMAIN inbox[r] : inbox[r][i].act = "closed"

\* An opening and its pushes make a commit each, a close and a reopening make none.
NeverReopened(r) == events[r] <= head[r] + 1

\* Once the close of a pull request has been taken, nothing brings its preview back: not a
\* late opened or synchronize, if it was never reopened, and none at all, if the deliveries
\* came in order.  A restart takes the tombstone (serial.go, markPRClosed).
LateDeliveryDoesNotRebuild ==
    [][\A r \in Repos :
         /\ env[r] = "none" /\ env'[r] = "live"
         /\ restarts = 0 /\ (NeverReopened(r) \/ mishaps = 0)
         => prOpen[r] \/ ClosePending(r)]_PreviewVars

\* "a synchronize delivered after the close can't resurrect the preview" (dispatcher.go,
\* closedPRs).  Violated when the pull request was reopened in between: a late reopened
\* clears the tombstone of the second close for a synchronize that is later still.
TombstoneHolds ==
    [][\A r \in Repos :
         /\ env[r] = "none" /\ env'[r] = "live"
         /\ restarts = 0 /\ doing[r].act # "reopened"
         => prOpen[r] \/ ClosePending(r)]_PreviewVars

\* The clone of a pull request's database goes with its last preview: what a failed list
\* keeps, the TTL sweep reaps (dispatcher.go, otherPreviewEnvsForPR).
ClonesGo == <>[](\A r \in Repos : ~prOpen[r]) => <>[](clone = "none")

\* A preview that is in place has its database: another repo's pull request of the same
\* number leaves the clone alone (dispatcher.go, teardownPreview).
CloneIsKept == \A r \in Repos : env[r] = "live" /\ step[r] = "idle" => clone = "live"
================================================================================
