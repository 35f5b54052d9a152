---------------------------- MODULE PromotionGate ----------------------------
(***************************************************************************)
(* The gates of markSucceeded: what a build whose Job is green waits for   *)
(* before its image goes anywhere.  First the vulnerability scan of the    *)
(* image (vulngate.go), then the builds that the same push started for the *)
(* other services of the repository (promotion_group.go), which must all   *)
(* be green too.  A build that waits stays active and says why in its hold *)
(* annotation; its siblings read that annotation, out of an informer that  *)
(* may lag.  What Promotion leaves open between ReadPhase and ListEnvs.    *)
(*                                                                         *)
(* A run is the detached goroutine of one build.  It starts from the       *)
(* informer's copy of the build, works on that copy (mine), and writes     *)
(* merge patches that look at nothing.  The informer follows one resource, *)
(* so what it shows is some past state of all builds; its lag stands also  *)
(* for the time from a look at the list to the patch that follows from it. *)
(***************************************************************************)
EXTENDS Naturals, FiniteSets

CONSTANTS
    Builds,
    Service,     \* [Builds -> service]
    Commit,      \* [Builds -> commit]
    Scope,       \* [Builds -> branch, and pull request if it is a preview]
    Age,         \* [Builds -> Nat \ {0}]: order of creation; equal for one push
    Gated,       \* builds of a given commit, by webhook or retried by a user: others never wait
    Scanned,     \* builds of services with a vulnerability policy
    CIGated,     \* builds that wait for the commit's CI before they start
    Cancellable, \* builds a user may cancel
    Fragile,     \* builds whose Job or release hook may fail
    MaxFaults    \* bound on lost annotation patches

ASSUME GateAssumption ==
    /\ Age \in [Builds -> Nat \ {0}]
    /\ \A b, c \in Builds : Service[b] = Service[c] /\ Age[b] = Age[c] => b = c
    /\ Gated \subseteq Builds
    /\ Scanned \subseteq Builds
    /\ CIGated \subseteq Builds
    /\ Cancellable \subseteq Builds
    /\ Fragile \subseteq Builds
    /\ MaxFaults \in Nat

VARIABLES
    now,      \* builds no younger than this exist
    cr,       \* [Builds -> CR]: the live KusoBuilds
    seen,     \* what the informer shows: [now, cr] of some earlier moment
    job,      \* [Builds -> "active", "green"]: the build Job
    settled,  \* builds that were green, scan included, or were cancelled at some time, but
              \* not for their CI
    old,      \* builds whose hold began promoteHoldMaxAge ago
    pc,       \* [Builds -> label] of the build's run
    mine,     \* [Builds -> CR]: the run's copy of its build
    faults

vars == <<now, cr, seen, job, settled, old, pc, mine, faults>>

\* The phase "cancelled" of the code, by who wrote it: the user, the CI gate, or the
\* promotion gate itself.
ByGate == {"superseded", "expired"}
Cancelled == {"cancelled", "red"} \cup ByGate
NotGreen == {"failed", "release-failed"}
Phases == {"running", "succeeded"} \cup NotGreen \cup Cancelled

\* phase, promote-hold, and vuln-gate (the scan has had its say).
CR == [phase : Phases, hold : {"none", "scan", "wave"}, cleared : BOOLEAN]

Fresh(b) == [phase |-> "running", hold |-> "none", cleared |-> b \notin Scanned]

TypeOK ==
    /\ now \in Nat
    /\ cr \in [Builds -> CR]
    /\ seen \in [now : 0..now, cr : [Builds -> CR]]
    /\ job \in [Builds -> {"active", "green"}]
    /\ old \subseteq Builds
    /\ settled \subseteq Builds
    /\ pc \in [Builds -> {"idle", "gates", "promote"}]
    /\ mine \in [Builds -> CR]
    /\ faults \in 0..MaxFaults

Init ==
    /\ now = 0
    /\ cr = [b \in Builds |-> Fresh(b)]
    /\ seen = [now |-> 0, cr |-> cr]
    /\ job = [b \in Builds |-> "active"]
    /\ old = {}
    /\ settled = {}
    /\ pc = [b \in Builds |-> "idle"]
    /\ mine = cr
    /\ faults = 0

-----------------------------------------------------------------------------
(* The verdict *)

Exists(b) == Age[b] <= now

\* samePromotionScope, and a sibling is a build of another service.
SameScope(b, s) == Scope[s] = Scope[b]
Siblings(b, list) ==
    {s \in Builds : Age[s] <= list.now /\ Service[s] # Service[b] /\ SameScope(b, s)}

\* The siblings the same push started.
Wave(b, list) == {s \in Siblings(b, list) : s \in Gated /\ Commit[s] = Commit[b]}

IsLatest(s, set) == \A t \in set : Service[t] = Service[s] => Age[t] <= Age[s]

\* Mutant: no hold is taken for green.
HeldIsUnfinished(s, list) == FALSE

\* A hold other than the scan's says that the Job is green and the scan is over.
HeldGreen(s, list) == list.cr[s].phase = "running" /\ list.cr[s].hold = "wave"

\* Green, or skipped by an operator.
Clears(s, list) == list.cr[s].phase \in {"succeeded"} \cup Cancelled \/ HeldGreen(s, list)

\* A failed sibling is forgiven for a newer build of its service on the branch.  A commit
\* that its CI rejected has failed, though its phase is "cancelled".
Forgiven(s, b, list) ==
    /\ list.cr[s].phase \in NotGreen \cup {"red"}
    /\ \E n \in Siblings(b, list) :
        /\ Service[n] = Service[s]
        /\ Age[n] > Age[s]
        /\ IsLatest(n, Siblings(b, list))
        /\ Clears(n, list)

\* Mutant: a build that its CI stopped was skipped by an operator.
ProceedsOverRed(b, list) ==
    \/ b \notin Gated
    \/ \A s \in Wave(b, list) :
         IsLatest(s, Wave(b, list)) => Clears(s, list) \/ Forgiven(s, b, list)

\* promotionHoldVerdict is "".
Proceeds(b, list) ==
    \/ b \notin Gated
    \/ \A s \in Wave(b, list) :
         IsLatest(s, Wave(b, list)) =>
             \/ Clears(s, list) /\ list.cr[s].phase # "red"
             \/ Forgiven(s, b, list)

\* newerBuildOf
HasNewer(b, list) ==
    \E n \in Builds : /\ Age[n] <= list.now
                      /\ Service[n] = Service[b]
                      /\ SameScope(b, n)
                      /\ Age[n] > Age[b]

-----------------------------------------------------------------------------
(* A run *)

Goto(b, l) == pc' = [pc EXCEPT ![b] = l]

\* The goroutine ends, its copy with it.
Return(b) == Goto(b, "idle") /\ mine' = [mine EXCEPT ![b] = Fresh(b)]

Fault == faults < MaxFaults /\ faults' = faults + 1

\* checkBuild finds the Job complete; the live phase is not cancelled.
Start(b) ==
    /\ pc[b] = "idle"
    /\ Age[b] <= seen.now
    /\ seen.cr[b].phase = "running"
    /\ job[b] = "green"
    /\ cr[b].phase \notin Cancelled
    /\ mine' = [mine EXCEPT ![b] = seen.cr[b]]
    /\ Goto(b, "gates")
    /\ UNCHANGED <<now, cr, seen, job, settled, old, faults>>

\* notePromotionHold, which writes only what the copy does not show.  The first hold
\* starts the clock of holdExpired.
NoteHold(b, reason, cleared) ==
    /\ Return(b)
    /\ IF mine[b].hold = reason
         THEN cr' = [cr EXCEPT ![b].cleared = @ \/ cleared] /\ UNCHANGED <<old, faults>>
         ELSE \/ /\ cr' = [cr EXCEPT ![b].hold = reason, ![b].cleared = @ \/ cleared]
                 /\ old' = IF mine[b].hold = "none" THEN old \ {b} ELSE old
                 /\ UNCHANGED faults
              \/ Fault /\ UNCHANGED <<cr, old>>

\* runVulnGate, unless its final word is known: the scanner may give any answer, also
\* another one than before.  Still scanning, ...
ScanPending(b) ==
    /\ pc[b] = "gates"
    /\ ~mine[b].cleared
    /\ NoteHold(b, "scan", FALSE)
    /\ UNCHANGED <<now, seen, job, settled>>

\* ... blocked, ...
ScanBlocks(b) ==
    /\ pc[b] = "gates"
    /\ ~mine[b].cleared
    /\ cr' = [cr EXCEPT ![b].phase = "failed", ![b].hold = "none"]
    /\ Return(b)
    /\ UNCHANGED <<now, seen, job, settled, old, faults>>

\* ... or passed, as a scan does that has not answered after vulnGateMaxWait; then the
\* siblings decide, as the informer shows them.  They hold the build, ...
HoldForWave(b) ==
    /\ pc[b] = "gates"
    /\ ~Proceeds(b, seen)
    /\ ~HasNewer(b, seen)
    /\ mine[b].hold = "none" \/ b \notin old
    /\ NoteHold(b, "wave", TRUE)
    /\ settled' = settled \cup {b}
    /\ UNCHANGED <<now, seen, job>>

\* Mutant: a hold has no end but a newer build.
StampHeldNeverExpires(b) ==
    /\ pc[b] = "gates"
    /\ ~Proceeds(b, seen)
    /\ HasNewer(b, seen)
    /\ cr' = [cr EXCEPT ![b] = [phase |-> "superseded", hold |-> "none", cleared |-> TRUE]]
    /\ settled' = settled \cup {b}
    /\ Return(b)
    /\ UNCHANGED <<now, seen, job, old, faults>>

\* ... or end it (stampHeldSuperseded, stampHoldExpired), ...
StampHeld(b) ==
    /\ pc[b] = "gates"
    /\ ~Proceeds(b, seen)
    /\ \E phase \in ByGate :
        /\ phase = "superseded" => HasNewer(b, seen)
        /\ phase = "expired" => ~HasNewer(b, seen) /\ mine[b].hold # "none" /\ b \in old
        /\ cr' = [cr EXCEPT ![b] = [phase |-> phase, hold |-> "none", cleared |-> TRUE]]
    /\ settled' = settled \cup {b}
    /\ Return(b)
    /\ UNCHANGED <<now, seen, job, old, faults>>

\* ... or let it go.  clearPromotionHold: from here on they see an active build without a
\* hold.
PassGates(b) ==
    /\ pc[b] = "gates"
    /\ Proceeds(b, seen)
    /\ Goto(b, "promote")
    /\ mine' = [mine EXCEPT ![b] = Fresh(b)]
    /\ \/ /\ cr' = [cr EXCEPT ![b].hold = IF mine[b].hold = "none" THEN @ ELSE "none",
                              ![b].cleared = TRUE]
          /\ UNCHANGED faults
       \/ Fault /\ UNCHANGED cr
    /\ settled' = settled \cup {b}
    /\ UNCHANGED <<now, seen, job, old>>

\* Promotion: the image is deployed, a release hook (or a lasting error) ends the build
\* without it, or an error sends it back for the next tick.
Promote(b) ==
    /\ pc[b] = "promote"
    /\ Return(b)
    /\ \/ /\ cr[b].phase = "running"
          /\ \E p \in {"succeeded"} \cup (IF b \in Fragile THEN NotGreen ELSE {}) :
                cr' = [cr EXCEPT ![b].phase = p]
          /\ UNCHANGED faults
       \/ cr[b].phase # "running" /\ UNCHANGED <<cr, faults>>
       \/ Fault /\ UNCHANGED cr
    /\ UNCHANGED <<now, seen, job, settled, old>>

-----------------------------------------------------------------------------
(* Around the runs *)

\* A push creates a build for every service that watches the branch; a retry, one.
Push ==
    /\ \E b \in Builds : Age[b] = now + 1
    /\ now' = now + 1
    /\ UNCHANGED <<cr, seen, job, settled, old, pc, mine, faults>>

JobSucceeds(b) ==
    /\ Exists(b)
    /\ job[b] = "active"
    /\ cr[b].phase = "running"
    /\ job' = [job EXCEPT ![b] = "green"]
    /\ UNCHANGED <<now, cr, seen, settled, old, pc, mine, faults>>

\* markFailed
JobFails(b) ==
    /\ b \in Fragile
    /\ Exists(b)
    /\ job[b] = "active"
    /\ cr[b].phase = "running"
    /\ cr' = [cr EXCEPT ![b].phase = "failed"]
    /\ UNCHANGED <<now, seen, job, settled, old, pc, mine, faults>>

\* cancelForCI, on a build that has not started.
CIFails(b) ==
    /\ b \in CIGated
    /\ Exists(b)
    /\ job[b] = "active"
    /\ cr[b].phase = "running"
    /\ cr' = [cr EXCEPT ![b].phase = "red"]
    /\ UNCHANGED <<now, seen, job, settled, old, pc, mine, faults>>

\* Mutant: the hold is only blanked.
CancelBlanksHold(b) ==
    /\ b \in Cancellable
    /\ Exists(b)
    /\ cr[b].phase \in {"running", "release-failed"}
    /\ cr' = [cr EXCEPT ![b].phase = "cancelled", ![b].hold = ""]
    /\ settled' = settled \cup {b}
    /\ UNCHANGED <<now, seen, job, old, pc, mine, faults>>

Cancel(b) ==
    /\ b \in Cancellable
    /\ Exists(b)
    /\ cr[b].phase \in {"running", "release-failed"}
    /\ cr' = [cr EXCEPT ![b].phase = "cancelled", ![b].hold = "none"]
    /\ settled' = settled \cup {b}
    /\ UNCHANGED <<now, seen, job, old, pc, mine, faults>>

Sync ==
    /\ seen' = [now |-> now, cr |-> cr]
    /\ seen' # seen
    /\ UNCHANGED <<now, cr, job, settled, old, pc, mine, faults>>

\* promoteHoldMaxAge is two hours, "well past any real build": it only runs out under a
\* hold that stays justified while everything that can happen by itself has happened.
HoldAges(b) ==
    /\ cr[b].hold # "none"
    /\ cr[b].phase = "running"
    /\ b \notin old
    /\ seen = [now |-> now, cr |-> cr]
    /\ \A s \in Builds : Exists(s) /\ cr[s].phase = "running" => cr[s].hold = "wave"
    /\ \A s \in Builds : pc[s] # "promote"
    /\ ~Proceeds(b, seen)
    /\ old' = old \cup {b}
    /\ UNCHANGED <<now, cr, seen, job, settled, pc, mine, faults>>

\* The scan does not hold the build (any more).
ScanEnds(b) == ScanBlocks(b) \/ HoldForWave(b) \/ StampHeld(b) \/ PassGates(b)

RunStep(b) ==
    \/ Start(b) \/ ScanPending(b) \/ ScanBlocks(b)
    \/ HoldForWave(b) \/ StampHeld(b) \/ PassGates(b) \/ Promote(b)

Next ==
    \/ Push \/ Sync
    \/ \E b \in Builds :
        \/ RunStep(b)
        \/ JobSucceeds(b) \/ JobFails(b) \/ CIFails(b)
        \/ Cancel(b) \/ HoldAges(b)

Spec == Init /\ [][Next]_vars

\* The leader ticks, a run goes on, a Job has a deadline and so has the wait for CI, a
\* scan is waited for at most vulnGateMaxWait, and time passes.
Fairness ==
    /\ WF_vars(Sync)
    /\ \A b \in Builds : WF_vars(RunStep(b))
    /\ \A b \in Scanned : SF_vars(ScanEnds(b))
    /\ WF_vars(\E b \in Builds : JobSucceeds(b) \/ JobFails(b) \/ CIFails(b))
    /\ WF_vars(\E b \in Builds : HoldAges(b))

FairSpec == Spec /\ Fairness

-----------------------------------------------------------------------------
(* Properties *)

\* cancelForCI ended it.
Rejected(n) == cr[n].phase = "red"

\* Services of one repository are promoted atomically: a build of a commit only goes out
\* when every other service that had a build of that commit by then has one, or a newer one
\* of the branch, that is green as well or was cancelled, whatever the informer has not
\* shown yet and whoever finishes at the same moment.  A build that the CI of this commit
\* stopped does not count; one that the CI of a later commit stopped does, as the code
\* judges a newer build by its phase alone (promotionHoldVerdict, heldGreen).
AtomicWave ==
    [][\A b \in Gated :
         cr[b].phase # "succeeded" /\ cr'[b].phase = "succeeded" =>
           \A s \in Wave(b, seen) :
             Age[s] <= Age[b] =>
               \E n \in Siblings(b, seen) :
                  /\ Service[n] = Service[s] /\ Age[n] >= Age[s]
                  /\ n \in settled \/ (Rejected(n) /\ n \notin Wave(b, seen))]_vars

\* Forgiveness is for a retry that "went green (or operator skipped)", and what the CI gate
\* cancelled is "a failure of the wave, not an operator skip": no service goes out over a
\* sibling that only a rejected build has followed (promotionHoldVerdict).
RejectedDoesNotForgive ==
    [][\A b \in Gated :
         cr[b].phase # "succeeded" /\ cr'[b].phase = "succeeded" =>
           \A s \in Wave(b, seen) :
             Age[s] <= Age[b] =>
               \E n \in Siblings(b, seen) \cap settled :
                  Service[n] = Service[s] /\ Age[n] >= Age[s]]_vars

\* Nobody waits for a wave for ever: a build whose Job is green ends, even when the
\* sibling it waits for is dead (promoteHoldMaxAge), and frees its service's queue.
GreenBuildsEnd ==
    \A b \in Gated :
        job[b] = "green" /\ cr[b].phase = "running" ~> cr[b].phase # "running"

\* Green, and not ended by anything but its own waiting.
Sound(b) == job[b] = "green" /\ cr[b].phase \in {"running", "succeeded", "expired"}

WaveIsSound(b) ==
    \A s \in Gated :
        Exists(s) /\ Commit[s] = Commit[b] /\ SameScope(b, s) => Sound(s)

\* When its whole wave is green, a build goes out: builds that finish together do not
\* take each other for unfinished until their holds expire (heldGreen).
GreenWaveGoesOut ==
    \A b \in Gated :
        Exists(b) /\ WaveIsSound(b) /\ b \notin old
            ~> cr[b].phase \notin {"running", "expired"} \/ ~WaveIsSound(b)
=============================================================================
