--------------------------- MODULE ImageRetention ---------------------------
(***************************************************************************)
(* The images of one service in the in-cluster registry, and the sweep     *)
(* that keeps only the newest of them (SweepImagesPastWindow), against     *)
(* everything that refers to an image meanwhile: an environment, a pinned  *)
(* cron (one-off runs are listed and protected the same way), the pods of  *)
(* a rollout that has not finished, a rollback.                            *)
(*                                                                         *)
(* A tag is named for its build: a webhook build's name and tag both come  *)
(* from the commit, a manual one's carry a suffix of their own.  The same  *)
(* commit pushed again after its KusoBuild was collected makes a build of  *)
(* the same name, tag and BuildRecord.  The registry deletes a manifest by *)
(* digest, with every tag on it.                                           *)
(*                                                                         *)
(* Every replica sweeps, from its informers.  What an informer shows is    *)
(* some earlier moment, so the lists of a sweep are steps of their own, as *)
(* early as it takes.  The two lists of builds, live and archived, are one *)
(* step.                                                                   *)
(***************************************************************************)
EXTENDS Naturals, FiniteSets

CONSTANTS
    Images,      \* builds of the service, and their tags
    BuiltAs,     \* [Images -> Nat]: order of the builds before the first step; 0: later
    Digest,      \* [Images -> digest]: byte-identical builds share one
    Sweepers,    \* replicas
    Keep,        \* imageRetentionWindow
    MaxPushes,   \* bound on builds, repeated ones included
    MaxMisses,   \* bound on calls that fail and are passed over
    NoImage

ASSUME ImageAssumption ==
    /\ IsFiniteSet(Images)
    /\ Keep \in Nat \ {0}
    /\ MaxPushes \in Nat
    /\ MaxMisses \in Nat
    /\ NoImage \notin Images
    /\ BuiltAs \in [Images -> 0..Cardinality(Images)]
    /\ \A b, c \in Images : BuiltAs[b] = BuiltAs[c] /\ BuiltAs[b] > 0 => b = c
    /\ Digest \in [Images -> {Digest[b] : b \in Images}]

\* Builds that succeeded before the first step.
Built == {b \in Images : BuiltAs[b] > 0}

Consumers == {"env", "cron", "pod"}

\* What a sweep does next, up to the step that deletes.
Steps == {"builds", "digests", "delete"} \cup Consumers
After == [builds |-> "env", env |-> "cron", cron |-> "pod", pod |-> "digests",
          digests |-> "delete"]

VARIABLES
    time,      \* counts creations and successes
    pushes,
    live,      \* [Images -> "none", "pushed", "done"]: the KusoBuild
    born,      \* [Images -> Nat]: its creationTimestamp
    record,    \* [Images -> [at, tagged]]: the BuildRecord (at = 0: none)
    registry,  \* tags
    image,     \* [Consumers -> tag]: what each refers to
    chosen,    \* build that a rollback has checked
    misses,
    step,      \* [Sweepers -> Steps]
    untag,     \* [Sweepers -> tags past the window, still to delete]
    inUse,     \* [Sweepers -> tags its lists protect]
    guarded,   \* [Sweepers -> digests those tags resolved to]
    checked,   \* [Sweepers -> tag whose digest has been looked at]
    steady     \* history, [Sweepers -> consumers whose image has been there, and their
               \* choice, ever since the sweep began]

SweepVars == <<step, untag, inUse, guarded, checked>>
ImageVars == <<time, pushes, live, born, record, registry, image, chosen, misses,
               SweepVars, steady>>

Tags == Images \cup {NoImage}

ImageTypeOK ==
    /\ time \in Nat /\ pushes \in 0..MaxPushes /\ misses \in 0..MaxMisses
    /\ live \in [Images -> {"none", "pushed", "done"}]
    /\ born \in [Images -> Nat]
    /\ record \in [Images -> [at : Nat, tagged : BOOLEAN]]
    /\ registry \subseteq Images
    /\ image \in [Consumers -> Tags]
    /\ chosen \in Tags
    /\ step \in [Sweepers -> Steps]
    /\ inUse \in [Sweepers -> SUBSET Images]
    /\ guarded \in [Sweepers -> SUBSET {Digest[b] : b \in Images}]
    /\ untag \in [Sweepers -> SUBSET Images]
    /\ checked \in [Sweepers -> Tags]
    /\ steady \in [Sweepers -> SUBSET Consumers]

ImageInit ==
    /\ time = Cardinality(Built) /\ pushes = 0 /\ misses = 0
    /\ live = [b \in Images |-> IF b \in Built THEN "done" ELSE "none"]
    /\ born = BuiltAs
    /\ record = [b \in Images |-> [at |-> BuiltAs[b], tagged |-> b \in Built]]
    /\ registry = Built
    /\ image \in [Consumers -> Built]
    /\ chosen = NoImage
    /\ step = [s \in Sweepers |-> "builds"]
    /\ inUse = [s \in Sweepers |-> {}]
    /\ guarded = [s \in Sweepers |-> {}]
    /\ untag = [s \in Sweepers |-> {}]
    /\ checked = [s \in Sweepers |-> NoImage]
    /\ steady = [s \in Sweepers |-> {}]

Miss == misses < MaxMisses /\ misses' = misses + 1

-----------------------------------------------------------------------------
(* Builds and what refers to their images *)

\* A consumer moves, so no sweep under way has seen its image all along.
Refer(c, b) ==
    /\ image' = [image EXCEPT ![c] = b]
    /\ steady' = [s \in Sweepers |-> steady[s] \ {d \in Consumers : image'[d] # image[d]}]

\* Create, up to the Job's push; gates and hooks may take hours from here.  An image that
\* is pushed once more was not simply there.
PushImage(b) ==
    /\ live[b] = "none"
    /\ pushes < MaxPushes
    /\ pushes' = pushes + 1
    /\ time' = time + 1
    /\ live' = [live EXCEPT ![b] = "pushed"]
    /\ born' = [born EXCEPT ![b] = time']
    /\ registry' = registry \cup {b}
    /\ steady' = [s \in Sweepers |->
                    {c \in steady[s] : Digest[image[c]] # Digest[b]}]
    /\ UNCHANGED <<record, image, chosen, misses, SweepVars>>

\* promoteEnvImageCAS
PromoteImage(b) ==
    /\ live[b] = "pushed"
    /\ Refer("env", b)
    /\ UNCHANGED <<time, pushes, live, born, record, registry, chosen, misses, SweepVars>>

\* The end of markSucceeded, after its promotion or without one (a newer build has the
\* environment): SaveBuildRecord keeps the createdAt of a record that exists already.
StampDone(b) ==
    /\ live[b] = "pushed"
    /\ live' = [live EXCEPT ![b] = "done"]
    /\ time' = time + 1
    /\ \/ /\ record' = [record EXCEPT ![b] = [at |-> IF @.at = 0 THEN time' ELSE @.at,
                                              tagged |-> TRUE]]
          /\ UNCHANGED misses
       \/ Miss /\ UNCHANGED record
    /\ UNCHANGED <<pushes, born, registry, image, chosen, SweepVars, steady>>

\* SweepFinishedBuilds and CapBuildsPerService
CollectBuild(b) ==
    /\ live[b] = "done"
    /\ live' = [live EXCEPT ![b] = "none"]
    /\ born' = [born EXCEPT ![b] = 0]
    /\ UNCHANGED <<time, pushes, record, registry, image, chosen, misses, SweepVars, steady>>

\* Pods of the environment's image; while they cannot pull it, the old ones serve.
RollOut ==
    /\ image["env"] \in registry
    /\ image["pod"] # image["env"]
    /\ Refer("pod", image["env"])
    /\ UNCHANGED <<time, pushes, live, born, record, registry, chosen, misses, SweepVars>>

\* A pinned cron stays where it is until somebody syncs it.
SyncCron ==
    /\ image["cron"] # image["env"]
    /\ Refer("cron", image["env"])
    /\ UNCHANGED <<time, pushes, live, born, record, registry, chosen, misses, SweepVars>>

\* Rollback: the build succeeded, by its CR or by its record, and its image is there (or
\* the registry does not answer) ...
RollbackChecks(b) ==
    /\ chosen = NoImage
    /\ live[b] = "done" \/ (live[b] = "none" /\ record[b].at > 0 /\ record[b].tagged)
    /\ \/ b \in registry /\ UNCHANGED misses
       \/ Miss
    /\ chosen' = b
    /\ UNCHANGED <<time, pushes, live, born, record, registry, image, SweepVars, steady>>

\* ... and then the environment is patched, or the call fails.
RollbackPatchesEnv ==
    /\ chosen # NoImage
    /\ chosen' = NoImage
    /\ \/ Refer("env", chosen) /\ UNCHANGED misses
       \/ Miss /\ UNCHANGED <<image, steady>>
    /\ UNCHANGED <<time, pushes, live, born, record, registry, SweepVars>>

-----------------------------------------------------------------------------
(* The sweep *)

NextStep(s) == step' = [step EXCEPT ![s] = After[@]]

\* Succeeded builds with an image: a live KusoBuild counts before its record.
History(archive) ==
    [b \in Images |->
        IF live[b] = "done" THEN born[b]
        ELSE IF archive /\ record[b].tagged THEN record[b].at ELSE 0]

\* The n newest builds of a history.
Newest(n, hist) ==
    {b \in Images : hist[b] > 0 /\ Cardinality({c \in Images : hist[c] > hist[b]}) < n}

\* The sweep begins with the builds; all but the newest Keep are past the window.  Without
\* the archive (its query failed) it goes by what is live.
ListBuilds(s) ==
    /\ step[s] = "builds"
    /\ NextStep(s)
    /\ \E archive \in BOOLEAN :
        /\ IF archive THEN UNCHANGED misses ELSE Miss
        /\ LET hist == History(archive) IN
            untag' = [untag EXCEPT ![s] = {b \in Images : hist[b] > 0} \ Newest(Keep, hist)]
    /\ steady' = [steady EXCEPT ![s] = {c \in Consumers : image[c] \in registry}]
    /\ UNCHANGED <<time, pushes, live, born, record, registry, image, chosen,
                   inUse, guarded, checked>>

\* ListKusoEnvironments, ListKusoCrons, and the Pods, which name a digest as well.
ListConsumer(s) ==
    /\ step[s] \in Consumers
    /\ NextStep(s)
    /\ LET shown == {image[step[s]]} \ {NoImage} IN
        /\ inUse' = [inUse EXCEPT ![s] = @ \cup shown]
        /\ guarded' = IF step[s] = "pod" THEN [guarded EXCEPT ![s] = {Digest[b] : b \in shown}]
                      ELSE guarded
    /\ UNCHANGED <<time, pushes, live, born, record, registry, image, chosen, misses,
                   untag, checked, steady>>

\* Mutant: what is protected is tags.
ResolveInUseTags(s) ==
    /\ step[s] = "digests"
    /\ NextStep(s)
    /\ untag' = [untag EXCEPT ![s] = @ \ inUse[s]]
    /\ guarded' = [guarded EXCEPT ![s] = @ \cup (inUse[s] \cap registry)]
    /\ inUse' = [inUse EXCEPT ![s] = {}]
    /\ UNCHANGED <<time, pushes, live, born, record, registry, image, chosen, misses,
                   checked, steady>>

\* The digests of the tags in use, as far as the registry has them.
ResolveInUse(s) ==
    /\ step[s] = "digests"
    /\ NextStep(s)
    /\ untag' = [untag EXCEPT ![s] = @ \ inUse[s]]
    /\ guarded' = [guarded EXCEPT ![s] = @ \cup {Digest[b] : b \in inUse[s] \cap registry}]
    /\ inUse' = [inUse EXCEPT ![s] = {}]
    /\ UNCHANGED <<time, pushes, live, born, record, registry, image, chosen, misses,
                   checked, steady>>

\* Mutant: tags are compared and digests are not.
CheckTargetByName(s) ==
    /\ step[s] = "delete"
    /\ checked[s] = NoImage
    /\ \E b \in untag[s] :
        /\ untag' = [untag EXCEPT ![s] = @ \ {b}]
        /\ checked' = [checked EXCEPT ![s] = b]
    /\ UNCHANGED <<time, pushes, live, born, record, registry, image, chosen, misses,
                   step, inUse, guarded, steady>>

\* The next target resolves to no digest in use (a tag that is gone, to none at all), or
\* is passed over.
CheckTarget(s) ==
    /\ step[s] = "delete"
    /\ checked[s] = NoImage
    /\ \E b \in untag[s] :
        /\ untag' = [untag EXCEPT ![s] = @ \ {b}]
        /\ \/ /\ checked' = [checked EXCEPT ![s] =
                    IF b \in registry /\ Digest[b] \in guarded[s] THEN NoImage ELSE b]
              /\ UNCHANGED misses
           \/ Miss /\ UNCHANGED checked
    /\ UNCHANGED <<time, pushes, live, born, record, registry, image, chosen,
                   step, inUse, guarded, steady>>

\* DeleteImageTag, with every tag of the manifest, then ClearImageTag of the one record;
\* either may fail, and the second is not tried after the first.
DeleteTarget(s) ==
    /\ checked[s] # NoImage
    /\ checked' = [checked EXCEPT ![s] = NoImage]
    /\ LET left == IF checked[s] \in registry
                     THEN {b \in registry : Digest[b] # Digest[checked[s]]}
                     ELSE registry IN
        \/ /\ registry' = left
           /\ record' = [record EXCEPT ![checked[s]] = [at |-> @.at, tagged |-> FALSE]]
           /\ UNCHANGED misses
        \/ Miss /\ registry' \in {registry, left} /\ UNCHANGED record
    /\ UNCHANGED <<time, pushes, live, born, image, chosen, step, inUse, guarded,
                   untag, steady>>

\* The sweep is through, or a list or a digest could not be had (it fails closed), or the
\* replica stops.
EndSweep(s) ==
    /\ step[s] # "builds"
    /\ step' = [step EXCEPT ![s] = "builds"]
    /\ inUse' = [inUse EXCEPT ![s] = {}]
    /\ guarded' = [guarded EXCEPT ![s] = {}]
    /\ untag' = [untag EXCEPT ![s] = {}]
    /\ checked' = [checked EXCEPT ![s] = NoImage]
    /\ steady' = [steady EXCEPT ![s] = {}]
    /\ UNCHANGED <<time, pushes, live, born, record, registry, image, chosen, misses>>

ImageNext ==
    \/ \E b \in Images :
        \/ PushImage(b) \/ PromoteImage(b) \/ StampDone(b) \/ CollectBuild(b)
        \/ RollbackChecks(b)
    \/ RollOut \/ SyncCron \/ RollbackPatchesEnv
    \/ \E s \in Sweepers :
        \/ ListBuilds(s) \/ ListConsumer(s) \/ ResolveInUse(s)
        \/ CheckTarget(s) \/ DeleteTarget(s) \/ EndSweep(s)

ImageSpec == ImageInit /\ [][ImageNext]_ImageVars

-----------------------------------------------------------------------------
(* Properties *)

\* "Never untag an image a live env is currently running", nor a cron's or a pod's: an
\* image that was in the registry and in use when a sweep began, and was in use and was
\* not pushed again since, survives what this sweep deletes, whatever shares its digest
\* and whatever else is promoted, rolled back or pinned meanwhile
\* (SweepImagesPastWindow).
SteadyImagesStay ==
    [][\A s \in Sweepers, c \in Consumers :
         c \in steady[s] /\ image[c] \in registry /\ checked[s] # NoImage /\ checked'[s] = NoImage
            => image[c] \in registry']_ImageVars

\* imageRetentionWindow, the "rollback depth": the newest succeeded builds keep their
\* images.  VIOLATED: an older one that shares the digest takes a kept one with it.
RollbackDepth == \A b \in Newest(Keep, History(TRUE)) : b \in registry
=============================================================================
