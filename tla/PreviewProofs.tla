----------------------------- MODULE PreviewProofs -----------------------------
(***************************************************************************)
(* Preview, for any number of repos, events, commits and mishaps: what a   *)
(* late webhook may do after the close of its pull request.  Two counts    *)
(* carry the proof: the events of a pull request, which pay for its        *)
(* commits, its reopenings and the triggers of its builds, and the         *)
(* deliveries, none of which is lost but by a restart.                     *)
(***************************************************************************)
EXTENDS Preview, SequenceTheorems, WellFoundedInduction, TLAPS

-----------------------------------------------------------------------------
(* Sequences and maxima *)

\* A sequence without its k-th element.
LEMMA RemoveAtIs ==
    ASSUME NEW S, NEW s \in Seq(S), NEW k \in 1 .. Len(s)
    PROVE  /\ RemoveAt(s, k) \in Seq(S)
           /\ Len(RemoveAt(s, k)) = Len(s) - 1
           /\ \A j \in 1 .. Len(s) - 1 :
                RemoveAt(s, k)[j] = IF j < k THEN s[j] ELSE s[j + 1]
<1>. DEFINE a == SubSeq(s, 1, k - 1)
            b == SubSeq(s, k + 1, Len(s))
<1>1. RemoveAt(s, k) = a \o b
  BY DEF RemoveAt
<1>2. a \in Seq(S) /\ Len(a) = k - 1 /\ \A i \in 1 .. k - 1 : a[i] = s[i]
  OBVIOUS
<1>3. b \in Seq(S) /\ Len(b) = Len(s) - k /\ \A i \in 1 .. Len(s) - k : b[i] = s[k + i]
  OBVIOUS
<1>. HIDE DEF a, b
<1>4. /\ a \o b \in Seq(S) /\ Len(a \o b) = Len(a) + Len(b)
      /\ \A j \in 1 .. Len(a) + Len(b) :
           (a \o b)[j] = IF j <= Len(a) THEN a[j] ELSE b[j - Len(a)]
  BY <1>2, <1>3, ConcatProperties
<1>4a. Len(s) \in Nat /\ Len(a) + Len(b) = Len(s) - 1
  BY <1>2, <1>3
<1>5. ASSUME NEW j \in 1 .. Len(s) - 1
      PROVE  (a \o b)[j] = IF j < k THEN s[j] ELSE s[j + 1]
  <2>1. (a \o b)[j] = IF j <= k - 1 THEN a[j] ELSE b[j - (k - 1)]
    BY <1>2, <1>4, <1>4a
  <2>2. CASE j < k
    BY <1>2, <2>1, <2>2
  <2>3. CASE ~(j < k)
    <3>1. j - (k - 1) \in 1 .. Len(s) - k /\ k + (j - (k - 1)) = j + 1
      BY <1>4a, <2>3
    <3>. QED BY <1>3, <2>1, <2>3, <3>1
  <2>. QED BY <2>2, <2>3
<1>. QED BY <1>1, <1>4, <1>4a, <1>5

\* A bounded set of numbers has a maximum: the least distance to the bound is its.
LEMMA MaxIs ==
    ASSUME NEW S \in SUBSET Nat, S # {}, NEW n \in Nat, \A x \in S : x <= n
    PROVE  Max(S) \in S /\ \A x \in S : x <= Max(S)
<1>. DEFINE R == OpToRel(<, Nat)
            T == {n - x : x \in S}
<1>1. T \subseteq Nat /\ T # {}
  <2>1. \A x \in S : x \in Nat /\ n - x \in Nat
    OBVIOUS
  <2>. QED BY <2>1
<1>2. \A i, j \in Nat : i < j => <<i, j>> \in R
  BY Zenon DEF OpToRel
<1>3. IsWellFoundedOn(R, Nat)
  BY NatLessThanWellFounded, Zenon
<1>. HIDE DEF R
<1>4. PICK k \in T : \A j \in T : ~(<<j, k>> \in R)
  <2>. HIDE DEF T
  <2>. QED BY <1>1, <1>3, WFMin
<1>5. PICK m \in S : k = n - m
  OBVIOUS
<1>6. ASSUME NEW x \in S PROVE m >= x
  <2>1. n - x \in T /\ n - x \in Nat /\ k \in Nat
    BY <1>1, <1>4
  <2>2. ~(n - x < k)
    BY <1>2, <1>4, <2>1
  <2>. QED BY <1>5, <2>1, <2>2
<1>7. Max(S) \in S /\ \A y \in S : Max(S) >= y
  BY <1>6 DEF Max
<1>. QED BY <1>7

-----------------------------------------------------------------------------
(* The inductive invariant *)

PreviewFlags ==
    /\ prOpen \in [Repos -> BOOLEAN] /\ tombstone \in [Repos -> BOOLEAN]
    /\ existing \in [Repos -> BOOLEAN] /\ expired \in [Repos -> BOOLEAN]
    /\ swept \in BOOLEAN

BuildStates == {"none", "running", "promoted", "succeeded", "dead"}

CountTypes ==
    /\ head \in [Repos -> 0 .. MaxHeads] /\ events \in [Repos -> 0 .. MaxEvents]
    /\ mishaps \in 0 .. MaxMishaps /\ restarts \in 0 .. mishaps

DeliveryTypes ==
    /\ wire \in [Repos -> Seq(Payloads)] /\ inbox \in [Repos -> Seq(Payloads)]
    /\ step \in [Repos -> {"idle"} \union TeardownSteps \union EnsureSteps]
    /\ doing \in [Repos -> Payloads]

ObjectTypes ==
    /\ env \in [Repos -> ObjectStates] /\ clone \in ObjectStates
    /\ image \in [Repos -> 0 .. MaxHeads]
    /\ build \in [Repos -> [Heads -> BuildStates]]
    /\ sweep \in {"idle", "delete", "others", "drop"} /\ sweeping \in Repos

\* The deliveries of a pull request that may still make a build: on the wire, in the queue,
\* and the one that is ensuring the preview.
Owed(r) == IF step[r] \in EnsureSteps THEN 1 ELSE 0
Waiting(r) == Len(wire[r]) + Len(inbox[r])
Undone(r) == Waiting(r) + Owed(r)

\* There are no more triggers than deliveries that are done, nor more of those than events.
TriggersInv ==
    /\ trigger \in [Repos -> [Heads -> 0 .. MaxEvents]]
    /\ promoted \in [Repos -> 0 .. MaxEvents]
    /\ \A r \in Repos : \A h \in Heads : trigger[r][h] + Undone(r) <= events[r]

\* Of a queue of deliveries: one of them has this action; the last of them is a close.
Occurs(act, q) == \E i \in DOMAIN q : q[i].act = act
EndsClosed(q) == q[Len(q)].act = "closed"

\* Each commit takes an event, and so does a close.
EventsInv ==
    \A r \in Repos :
      /\ head[r] = 0 => events[r] = 0 /\ ~prOpen[r]
      /\ head[r] <= events[r]
      /\ ~prOpen[r] /\ head[r] > 0 => head[r] < events[r]

\* The pull request was opened and is not open.
Down(r) == ~prOpen[r] /\ head[r] > 0

\* A pull request that was never reopened was closed once: until the worker takes that
\* close it is pending, and from then on the tombstone stands against whatever is late.
ClosedOnceInv ==
    \A r \in Repos :
      restarts = 0 /\ NeverReopened(r) =>
        /\ ~Occurs("reopened", wire[r]) /\ ~Occurs("reopened", inbox[r])
        /\ Down(r) => ClosePending(r) \/ (tombstone[r] /\ step[r] \notin EnsureSteps)

\* With the deliveries in order, the close is the last of them.
InOrderInv ==
    \A r \in Repos :
      mishaps = 0 /\ Down(r) =>
        IF wire[r] # <<>> THEN EndsClosed(wire[r])
        ELSE IF inbox[r] # <<>> THEN EndsClosed(inbox[r])
        ELSE step[r] \notin EnsureSteps

PInv == /\ PreviewFlags /\ CountTypes /\ DeliveryTypes /\ ObjectTypes /\ TriggersInv
        /\ EventsInv /\ ClosedOnceInv /\ InOrderInv

-----------------------------------------------------------------------------
(* Types *)

LEMMA PreviewFlagsStep == PreviewFlags /\ [PreviewNext]_PreviewVars => PreviewFlags'
<1>. SUFFICES ASSUME PreviewFlags, [PreviewNext]_PreviewVars PROVE PreviewFlags'
  OBVIOUS
<1>. USE DEF PreviewFlags, github, delivery, environment, objects, builds, sweeper, Goes,
   Mishap
<1>1. ASSUME NEW r \in Repos, GitHub(r)  PROVE PreviewFlags'
  BY <1>1 DEF GitHub, OpenPR, PushCommit, ClosePR, ReopenPR, Sends
<1>2. ASSUME NEW r \in Repos, NEW k \in 1 .. MaxEvents, Deliver(r, k)  PROVE PreviewFlags'
  BY <1>2 DEF Deliver
<1>3. CASE Restart
  BY <1>3 DEF Restart
<1>4. ASSUME NEW r \in Repos, Take(r)  PROVE PreviewFlags'
  BY <1>4 DEF Take
<1>5. ASSUME NEW r \in Repos, CancelPreviewBuilds(r)  PROVE PreviewFlags'
  BY <1>5 DEF CancelPreviewBuilds
<1>6. ASSUME NEW r \in Repos, DeletePreviewEnv(r)  PROVE PreviewFlags'
  BY <1>6 DEF DeletePreviewEnv
<1>7. ASSUME NEW r \in Repos, OtherPreviewEnvsForPR(r)  PROVE PreviewFlags'
  BY <1>7 DEF OtherPreviewEnvsForPR
<1>8. ASSUME NEW r \in Repos, DeletePRAddons(r)  PROVE PreviewFlags'
  BY <1>8 DEF DeletePRAddons
<1>9. ASSUME NEW r \in Repos, AwaitPreviewTeardown(r)  PROVE PreviewFlags'
  BY <1>9 DEF AwaitPreviewTeardown
<1>10. ASSUME NEW r \in Repos, Refuse(r)  PROVE PreviewFlags'
  BY <1>10 DEF Refuse
<1>11. ASSUME NEW r \in Repos, EnsurePRAddons(r)  PROVE PreviewFlags'
  BY <1>11 DEF EnsurePRAddons
<1>12. ASSUME NEW r \in Repos, UpdateEnv(r)  PROVE PreviewFlags'
  BY <1>12 DEF UpdateEnv
<1>13. ASSUME NEW r \in Repos, CreateEnv(r)  PROVE PreviewFlags'
  BY <1>13 DEF CreateEnv
<1>14. ASSUME NEW r \in Repos, PriorBuildsForSHA(r)  PROVE PreviewFlags'
  BY <1>14 DEF PriorBuildsForSHA
<1>15. ASSUME NEW r \in Repos, CreateBuild(r)  PROVE PreviewFlags'
  BY <1>15 DEF CreateBuild
<1>16. ASSUME NEW r \in Repos, StampExistingBuildImage(r)  PROVE PreviewFlags'
  BY <1>16 DEF StampExistingBuildImage
<1>17. ASSUME NEW r \in Repos, NEW s \in Heads, PromoteBuild(r, s)  PROVE PreviewFlags'
  BY <1>17 DEF PromoteBuild
<1>18. ASSUME NEW r \in Repos, NEW s \in Heads, FinishBuild(r, s)  PROVE PreviewFlags'
  BY <1>18 DEF FinishBuild
<1>19. ASSUME NEW r \in Repos, NEW s \in Heads, FailBuild(r, s)  PROVE PreviewFlags'
  BY <1>19 DEF FailBuild
<1>20. ASSUME NEW r \in Repos, FinalizeEnv(r)  PROVE PreviewFlags'
  BY <1>20 DEF FinalizeEnv
<1>21. CASE FinalizeClone
  BY <1>21 DEF FinalizeClone
<1>22. ASSUME NEW r \in Repos, Expire(r)  PROVE PreviewFlags'
  BY <1>22 DEF Expire
<1>23. ASSUME NEW r \in Repos, SweepExtends(r)  PROVE PreviewFlags'
  BY <1>23 DEF SweepExtends
<1>24. ASSUME NEW r \in Repos, SweepDecides(r)  PROVE PreviewFlags'
  BY <1>24 DEF SweepDecides
<1>25. CASE SweepDeletes
  BY <1>25 DEF SweepDeletes
<1>26. CASE SweepLists
  BY <1>26 DEF SweepLists
<1>27. CASE SweepDrops
  BY <1>27 DEF SweepDrops
<1>28. CASE UNCHANGED PreviewVars
  BY <1>28 DEF PreviewVars
<1>. QED
  BY <1>1, <1>2, <1>3, <1>4, <1>5, <1>6, <1>7, <1>8, <1>9, <1>10, <1>11, <1>12, <1>13,
     <1>14, <1>15, <1>16, <1>17, <1>18, <1>19, <1>20, <1>21, <1>22, <1>23, <1>24, <1>25,
     <1>26, <1>27, <1>28
  DEF PreviewNext, Worker, Building, Finalizers, Sweeping

LEMMA CountTypesStep == CountTypes /\ [PreviewNext]_PreviewVars => CountTypes'
<1>. SUFFICES ASSUME CountTypes, [PreviewNext]_PreviewVars PROVE CountTypes'
  OBVIOUS
<1>. USE PreviewAssumption
     DEF CountTypes, Heads, github, delivery, environment, objects, builds, sweeper, Goes,
         Mishap
<1>1. ASSUME NEW r \in Repos, GitHub(r)  PROVE CountTypes'
  BY <1>1 DEF GitHub, OpenPR, PushCommit, ClosePR, ReopenPR, Sends
<1>2. ASSUME NEW r \in Repos, NEW k \in 1 .. MaxEvents, Deliver(r, k)  PROVE CountTypes'
  BY <1>2 DEF Deliver
<1>3. CASE Restart
  BY <1>3 DEF Restart
<1>4. ASSUME NEW r \in Repos, Take(r)  PROVE CountTypes'
  BY <1>4 DEF Take
<1>5. ASSUME NEW r \in Repos, CancelPreviewBuilds(r)  PROVE CountTypes'
  BY <1>5 DEF CancelPreviewBuilds
<1>6. ASSUME NEW r \in Repos, DeletePreviewEnv(r)  PROVE CountTypes'
  BY <1>6 DEF DeletePreviewEnv
<1>7. ASSUME NEW r \in Repos, OtherPreviewEnvsForPR(r)  PROVE CountTypes'
  BY <1>7 DEF OtherPreviewEnvsForPR
<1>8. ASSUME NEW r \in Repos, DeletePRAddons(r)  PROVE CountTypes'
  BY <1>8 DEF DeletePRAddons
<1>9. ASSUME NEW r \in Repos, AwaitPreviewTeardown(r)  PROVE CountTypes'
  BY <1>9 DEF AwaitPreviewTeardown
<1>10. ASSUME NEW r \in Repos, Refuse(r)  PROVE CountTypes'
  BY <1>10 DEF Refuse
<1>11. ASSUME NEW r \in Repos, EnsurePRAddons(r)  PROVE CountTypes'
  BY <1>11 DEF EnsurePRAddons
<1>12. ASSUME NEW r \in Repos, UpdateEnv(r)  PROVE CountTypes'
  BY <1>12 DEF UpdateEnv
<1>13. ASSUME NEW r \in Repos, CreateEnv(r)  PROVE CountTypes'
  BY <1>13 DEF CreateEnv
<1>14. ASSUME NEW r \in Repos, PriorBuildsForSHA(r)  PROVE CountTypes'
  BY <1>14 DEF PriorBuildsForSHA
<1>15. ASSUME NEW r \in Repos, CreateBuild(r)  PROVE CountTypes'
  BY <1>15 DEF CreateBuild
<1>16. ASSUME NEW r \in Repos, StampExistingBuildImage(r)  PROVE CountTypes'
  BY <1>16 DEF StampExistingBuildImage
<1>17. ASSUME NEW r \in Repos, NEW s \in Heads, PromoteBuild(r, s)  PROVE CountTypes'
  BY <1>17 DEF PromoteBuild
<1>18. ASSUME NEW r \in Repos, NEW s \in Heads, FinishBuild(r, s)  PROVE CountTypes'
  BY <1>18 DEF FinishBuild
<1>19. ASSUME NEW r \in Repos, NEW s \in Heads, FailBuild(r, s)  PROVE CountTypes'
  BY <1>19 DEF FailBuild
<1>20. ASSUME NEW r \in Repos, FinalizeEnv(r)  PROVE CountTypes'
  BY <1>20 DEF FinalizeEnv
<1>21. CASE FinalizeClone
  BY <1>21 DEF FinalizeClone
<1>22. ASSUME NEW r \in Repos, Expire(r)  PROVE CountTypes'
  BY <1>22 DEF Expire
<1>23. ASSUME NEW r \in Repos, SweepExtends(r)  PROVE CountTypes'
  BY <1>23 DEF SweepExtends
<1>24. ASSUME NEW r \in Repos, SweepDecides(r)  PROVE CountTypes'
  BY <1>24 DEF SweepDecides
<1>25. CASE SweepDeletes
  BY <1>25 DEF SweepDeletes
<1>26. CASE SweepLists
  BY <1>26 DEF SweepLists
<1>27. CASE SweepDrops
  BY <1>27 DEF SweepDrops
<1>28. CASE UNCHANGED PreviewVars
  BY <1>28 DEF PreviewVars
<1>. QED
  BY <1>1, <1>2, <1>3, <1>4, <1>5, <1>6, <1>7, <1>8, <1>9, <1>10, <1>11, <1>12, <1>13,
     <1>14, <1>15, <1>16, <1>17, <1>18, <1>19, <1>20, <1>21, <1>22, <1>23, <1>24, <1>25,
     <1>26, <1>27, <1>28
  DEF PreviewNext, Worker, Building, Finalizers, Sweeping

LEMMA DeliveryTypesStep ==
    CountTypes /\ EventsInv /\ DeliveryTypes /\ [PreviewNext]_PreviewVars => DeliveryTypes'
<1>. SUFFICES ASSUME CountTypes, EventsInv, DeliveryTypes, [PreviewNext]_PreviewVars
              PROVE  DeliveryTypes'
  OBVIOUS
<1>. USE PreviewAssumption
     DEF DeliveryTypes, TeardownSteps, EnsureSteps, github, delivery, environment, objects,
         builds, sweeper, Goes, Mishap
<1>1. ASSUME NEW r \in Repos, GitHub(r)  PROVE DeliveryTypes'
  <2>1. PICK p \in Payloads : wire' = [wire EXCEPT ![r] = Append(@, p)]
    <3>1. CASE OpenPR(r)
      <4>1. 1 \in Heads
        BY PreviewAssumption DEF Heads
      <4>. QED BY <3>1, <4>1 DEF OpenPR, Sends, Payloads, Acts
    <3>2. CASE PushCommit(r)
      <4>1. head[r] + 1 \in Heads
        BY <3>2 DEF PushCommit, CountTypes, Heads
      <4>. QED BY <3>2, <4>1 DEF PushCommit, Sends, Payloads, Acts
    <3>3. CASE ClosePR(r)
      <4>1. head[r] \in Heads
        BY <3>3 DEF ClosePR, CountTypes, EventsInv, Heads
      <4>. QED BY <3>3, <4>1 DEF ClosePR, Sends, Payloads, Acts
    <3>4. CASE ReopenPR(r)
      <4>1. head[r] \in Heads
        BY <3>4 DEF ReopenPR, CountTypes, Heads
      <4>. QED BY <3>4, <4>1 DEF ReopenPR, Sends, Payloads, Acts
    <3>. QED BY <1>1, <3>1, <3>2, <3>3, <3>4 DEF GitHub
  <2>2. wire' \in [Repos -> Seq(Payloads)]
    BY <2>1, AppendProperties
  <2>3. UNCHANGED <<inbox, step, doing>>
    BY <1>1 DEF GitHub, OpenPR, PushCommit, ClosePR, ReopenPR, Sends
  <2>. QED BY <2>2, <2>3
<1>2. ASSUME NEW r \in Repos, NEW k \in 1 .. MaxEvents, Deliver(r, k)  PROVE DeliveryTypes'
  <2>1. k \in 1 .. Len(wire[r]) /\ wire[r] \in Seq(Payloads)
    BY <1>2 DEF Deliver
  <2>2. RemoveAt(wire[r], k) \in Seq(Payloads) /\ wire[r][k] \in Payloads
    BY <2>1, RemoveAtIs
  <2>3. Append(inbox[r], wire[r][k]) \in Seq(Payloads)
    BY <2>2, AppendProperties
  <2>. QED BY <1>2, <2>2, <2>3 DEF Deliver
<1>3. CASE Restart
  <2>1. <<>> \in Seq(Payloads) /\ Nothing \in Payloads
    BY DEF Nothing, Payloads, Acts, Heads
  <2>. QED BY <1>3, <2>1 DEF Restart
<1>4. ASSUME NEW r \in Repos, Take(r)  PROVE DeliveryTypes'
  <2>1. inbox[r] \in Seq(Payloads) /\ inbox[r] # <<>>
    BY <1>4 DEF Take
  <2>2. Head(inbox[r]) \in Payloads /\ Tail(inbox[r]) \in Seq(Payloads)
    BY <2>1, HeadTailProperties
  <2>3. \E pc \in {"idle", "cancel", "await"} : step' = [step EXCEPT ![r] = pc]
    BY <1>4 DEF Take
  <2>. QED BY <1>4, <2>2, <2>3 DEF Take
<1>5. ASSUME NEW r \in Repos, CancelPreviewBuilds(r)  PROVE DeliveryTypes'
  BY <1>5 DEF CancelPreviewBuilds
<1>6. ASSUME NEW r \in Repos, DeletePreviewEnv(r)  PROVE DeliveryTypes'
  BY <1>6 DEF DeletePreviewEnv
<1>7. ASSUME NEW r \in Repos, OtherPreviewEnvsForPR(r)  PROVE DeliveryTypes'
  BY <1>7 DEF OtherPreviewEnvsForPR
<1>8. ASSUME NEW r \in Repos, DeletePRAddons(r)  PROVE DeliveryTypes'
  BY <1>8 DEF DeletePRAddons
<1>9. ASSUME NEW r \in Repos, AwaitPreviewTeardown(r)  PROVE DeliveryTypes'
  BY <1>9 DEF AwaitPreviewTeardown
<1>10. ASSUME NEW r \in Repos, Refuse(r)  PROVE DeliveryTypes'
  BY <1>10 DEF Refuse
<1>11. ASSUME NEW r \in Repos, EnsurePRAddons(r)  PROVE DeliveryTypes'
  BY <1>11 DEF EnsurePRAddons
<1>12. ASSUME NEW r \in Repos, UpdateEnv(r)  PROVE DeliveryTypes'
  BY <1>12 DEF UpdateEnv
<1>13. ASSUME NEW r \in Repos, CreateEnv(r)  PROVE DeliveryTypes'
  BY <1>13 DEF CreateEnv
<1>14. ASSUME NEW r \in Repos, PriorBuildsForSHA(r)  PROVE DeliveryTypes'
  BY <1>14 DEF PriorBuildsForSHA
<1>15. ASSUME NEW r \in Repos, CreateBuild(r)  PROVE DeliveryTypes'
  BY <1>15 DEF CreateBuild
<1>16. ASSUME NEW r \in Repos, StampExistingBuildImage(r)  PROVE DeliveryTypes'
  BY <1>16 DEF StampExistingBuildImage
<1>17. ASSUME NEW r \in Repos, NEW s \in Heads, PromoteBuild(r, s)  PROVE DeliveryTypes'
  BY <1>17 DEF PromoteBuild
<1>18. ASSUME NEW r \in Repos, NEW s \in Heads, FinishBuild(r, s)  PROVE DeliveryTypes'
  BY <1>18 DEF FinishBuild
<1>19. ASSUME NEW r \in Repos, NEW s \in Heads, FailBuild(r, s)  PROVE DeliveryTypes'
  BY <1>19 DEF FailBuild
<1>20. ASSUME NEW r \in Repos, FinalizeEnv(r)  PROVE DeliveryTypes'
  BY <1>20 DEF FinalizeEnv
<1>21. CASE FinalizeClone
  BY <1>21 DEF FinalizeClone
<1>22. ASSUME NEW r \in Repos, Expire(r)  PROVE DeliveryTypes'
  BY <1>22 DEF Expire
<1>23. ASSUME NEW r \in Repos, SweepExtends(r)  PROVE DeliveryTypes'
  BY <1>23 DEF SweepExtends
<1>24. ASSUME NEW r \in Repos, SweepDecides(r)  PROVE DeliveryTypes'
  BY <1>24 DEF SweepDecides
<1>25. CASE SweepDeletes
  BY <1>25 DEF SweepDeletes
<1>26. CASE SweepLists
  BY <1>26 DEF SweepLists
<1>27. CASE SweepDrops
  BY <1>27 DEF SweepDrops
<1>28. CASE UNCHANGED PreviewVars
  BY <1>28 DEF PreviewVars
<1>. QED
  BY <1>1, <1>2, <1>3, <1>4, <1>5, <1>6, <1>7, <1>8, <1>9, <1>10, <1>11, <1>12, <1>13,
     <1>14, <1>15, <1>16, <1>17, <1>18, <1>19, <1>20, <1>21, <1>22, <1>23, <1>24, <1>25,
     <1>26, <1>27, <1>28
  DEF PreviewNext, Worker, Building, Finalizers, Sweeping

\* What a write of an image, or of a pull request's builds, leaves.
LEMMA ImageSet ==
    ASSUME ObjectTypes, NEW r \in Repos, NEW h \in 0 .. MaxHeads,
           image' = image \/ image' = [image EXCEPT ![r] = h]
    PROVE  image' \in [Repos -> 0 .. MaxHeads]
BY DEF ObjectTypes

LEMMA NoImage == 0 \in 0 .. MaxHeads
BY PreviewAssumption

LEMMA BuildSet ==
    ASSUME ObjectTypes, NEW r \in Repos, NEW f \in [Heads -> BuildStates],
           build' = build \/ build' = [build EXCEPT ![r] = f]
    PROVE  build' \in [Repos -> [Heads -> BuildStates]]
BY DEF ObjectTypes


LEMMA ObjectTypesStep ==
    CountTypes /\ DeliveryTypes /\ ObjectTypes /\ [PreviewNext]_PreviewVars => ObjectTypes'
<1>. SUFFICES ASSUME CountTypes, DeliveryTypes, ObjectTypes, [PreviewNext]_PreviewVars
              PROVE  ObjectTypes'
  OBVIOUS
<1>. USE PreviewAssumption
     DEF DeliveryTypes, ObjectTypes, BuildStates, Heads, Payloads, ObjectStates, Deleted,
         github, delivery, environment, objects, builds, sweeper, Goes, Mishap
<1>1. ASSUME NEW r \in Repos, GitHub(r)  PROVE ObjectTypes'
  BY <1>1 DEF GitHub, OpenPR, PushCommit, ClosePR, ReopenPR, Sends
<1>2. ASSUME NEW r \in Repos, NEW k \in 1 .. MaxEvents, Deliver(r, k)  PROVE ObjectTypes'
  BY <1>2 DEF Deliver
<1>3. CASE Restart
  BY <1>3 DEF Restart
<1>4. ASSUME NEW r \in Repos, Take(r)  PROVE ObjectTypes'
  BY <1>4 DEF Take
<1>5. ASSUME NEW r \in Repos, CancelPreviewBuilds(r)  PROVE ObjectTypes'
  <2>. DEFINE f == [s \in Heads |->
                     IF build[r][s] \in {"running", "promoted"} THEN "dead" ELSE build[r][s]]
  <2>1. f \in [Heads -> BuildStates]
    OBVIOUS
  <2>2. build' = build \/ build' = [build EXCEPT ![r] = f]
    BY <1>5 DEF CancelPreviewBuilds
  <2>3. build' \in [Repos -> [Heads -> BuildStates]]
    <3>. HIDE DEF f
    <3>. QED BY <2>1, <2>2, BuildSet
  <2>. QED BY <1>5, <2>3 DEF CancelPreviewBuilds
<1>6. ASSUME NEW r \in Repos, DeletePreviewEnv(r)  PROVE ObjectTypes'
  BY <1>6 DEF DeletePreviewEnv
<1>7. ASSUME NEW r \in Repos, OtherPreviewEnvsForPR(r)  PROVE ObjectTypes'
  BY <1>7 DEF OtherPreviewEnvsForPR
<1>8. ASSUME NEW r \in Repos, DeletePRAddons(r)  PROVE ObjectTypes'
  BY <1>8 DEF DeletePRAddons
<1>9. ASSUME NEW r \in Repos, AwaitPreviewTeardown(r)  PROVE ObjectTypes'
  BY <1>9 DEF AwaitPreviewTeardown
<1>10. ASSUME NEW r \in Repos, Refuse(r)  PROVE ObjectTypes'
  BY <1>10 DEF Refuse
<1>11. ASSUME NEW r \in Repos, EnsurePRAddons(r)  PROVE ObjectTypes'
  BY <1>11 DEF EnsurePRAddons
<1>12. ASSUME NEW r \in Repos, UpdateEnv(r)  PROVE ObjectTypes'
  <2>1. image' = image \/ image' = [image EXCEPT ![r] = 0]
    BY <1>12 DEF UpdateEnv
  <2>2. image' \in [Repos -> 0 .. MaxHeads]
    BY <2>1, NoImage, ImageSet
  <2>. QED BY <1>12, <2>2 DEF UpdateEnv
<1>13. ASSUME NEW r \in Repos, CreateEnv(r)  PROVE ObjectTypes'
  <2>1. image' = image \/ image' = [image EXCEPT ![r] = 0]
    BY <1>13 DEF CreateEnv
  <2>2. env' = env \/ env' = [env EXCEPT ![r] = "live"]
    BY <1>13 DEF CreateEnv
  <2>3. image' \in [Repos -> 0 .. MaxHeads]
    BY <2>1, NoImage, ImageSet
  <2>4. env' \in [Repos -> ObjectStates]
    BY <2>2
  <2>. QED BY <1>13, <2>3, <2>4 DEF CreateEnv
<1>14. ASSUME NEW r \in Repos, PriorBuildsForSHA(r)  PROVE ObjectTypes'
  BY <1>14 DEF PriorBuildsForSHA
<1>15. ASSUME NEW r \in Repos, CreateBuild(r)  PROVE ObjectTypes'
  BY <1>15 DEF CreateBuild
<1>16. ASSUME NEW r \in Repos, StampExistingBuildImage(r)  PROVE ObjectTypes'
  BY <1>16 DEF StampExistingBuildImage
<1>17. ASSUME NEW r \in Repos, NEW s \in Heads, PromoteBuild(r, s)  PROVE ObjectTypes'
  <2>1. build' \in [Repos -> [Heads -> BuildStates]]
    BY <1>17 DEF PromoteBuild
  <2>2. image' = image \/ image' = [image EXCEPT ![r] = s]
    BY <1>17 DEF PromoteBuild
  <2>3. s \in 0 .. MaxHeads
    BY DEF Heads
  <2>4. image' \in [Repos -> 0 .. MaxHeads]
    BY <2>2, <2>3, ImageSet
  <2>. QED BY <1>17, <2>1, <2>4 DEF PromoteBuild
<1>18. ASSUME NEW r \in Repos, NEW s \in Heads, FinishBuild(r, s)  PROVE ObjectTypes'
  BY <1>18 DEF FinishBuild
<1>19. ASSUME NEW r \in Repos, NEW s \in Heads, FailBuild(r, s)  PROVE ObjectTypes'
  BY <1>19 DEF FailBuild
<1>20. ASSUME NEW r \in Repos, FinalizeEnv(r)  PROVE ObjectTypes'
  BY <1>20 DEF FinalizeEnv
<1>21. CASE FinalizeClone
  BY <1>21 DEF FinalizeClone
<1>22. ASSUME NEW r \in Repos, Expire(r)  PROVE ObjectTypes'
  BY <1>22 DEF Expire
<1>23. ASSUME NEW r \in Repos, SweepExtends(r)  PROVE ObjectTypes'
  BY <1>23 DEF SweepExtends
<1>24. ASSUME NEW r \in Repos, SweepDecides(r)  PROVE ObjectTypes'
  BY <1>24 DEF SweepDecides
<1>25. CASE SweepDeletes
  BY <1>25 DEF SweepDeletes
<1>26. CASE SweepLists
  BY <1>26 DEF SweepLists
<1>27. CASE SweepDrops
  BY <1>27 DEF SweepDrops
<1>28. CASE UNCHANGED PreviewVars
  BY <1>28 DEF PreviewVars
<1>. QED
  BY <1>1, <1>2, <1>3, <1>4, <1>5, <1>6, <1>7, <1>8, <1>9, <1>10, <1>11, <1>12, <1>13,
     <1>14, <1>15, <1>16, <1>17, <1>18, <1>19, <1>20, <1>21, <1>22, <1>23, <1>24, <1>25,
     <1>26, <1>27, <1>28
  DEF PreviewNext, Worker, Building, Finalizers, Sweeping
-----------------------------------------------------------------------------
(* Deliveries and triggers *)

\* A reopen is an event without a commit: it follows a close, which is one too.
LEMMA EventsInvStep ==
    PreviewFlags /\ CountTypes /\ EventsInv /\ [PreviewNext]_PreviewVars => EventsInv'
<1>. SUFFICES ASSUME PreviewFlags, CountTypes, EventsInv, [PreviewNext]_PreviewVars
              PROVE  EventsInv'
  OBVIOUS
<1>. USE PreviewAssumption DEF CountTypes, EventsInv
<1>1. ASSUME NEW r \in Repos, OpenPR(r)  PROVE EventsInv'
  <2>1. /\ prOpen' = [prOpen EXCEPT ![r] = TRUE] /\ head' = [head EXCEPT ![r] = 1]
        /\ events' = [events EXCEPT ![r] = @ + 1] /\ head[r] = 0
    BY <1>1 DEF OpenPR, Sends
  <2>2. ASSUME NEW q \in Repos, q # r
        PROVE  prOpen'[q] = prOpen[q] /\ head'[q] = head[q] /\ events'[q] = events[q]
    BY <2>1, <2>2 DEF PreviewFlags
  <2>3. prOpen'[r] /\ head'[r] = 1 /\ events'[r] = 1
    BY <2>1 DEF PreviewFlags
  <2>. QED BY <2>2, <2>3
<1>2. ASSUME NEW r \in Repos, PushCommit(r)  PROVE EventsInv'
  BY <1>2 DEF PushCommit, Sends
<1>3. ASSUME NEW r \in Repos, ClosePR(r)  PROVE EventsInv'
  BY <1>3 DEF ClosePR, Sends
<1>4. ASSUME NEW r \in Repos, ReopenPR(r)  PROVE EventsInv'
  BY <1>4 DEF ReopenPR, Sends
<1>5. CASE UNCHANGED <<prOpen, head, events>>
  BY <1>5
<1>. QED
  BY <1>1, <1>2, <1>3, <1>4, <1>5
  DEF PreviewNext, PreviewVars, GitHub, Worker, Building, Finalizers, Sweeping, github,
     Deliver,
      Restart, Take, CancelPreviewBuilds, DeletePreviewEnv, OtherPreviewEnvsForPR,
      DeletePRAddons, AwaitPreviewTeardown, Refuse, EnsurePRAddons, UpdateEnv, CreateEnv,
      PriorBuildsForSHA, CreateBuild, StampExistingBuildImage, PromoteBuild, FinishBuild,
      FailBuild, FinalizeEnv, FinalizeClone, Expire, SweepExtends, SweepDecides, SweepDeletes,
      SweepLists, SweepDrops

\* Most steps make no webhook, move none, and take up none.
Settles ==
    /\ UNCHANGED <<github, wire, inbox, tombstone, trigger, restarts>>
    /\ mishaps <= mishaps'
    /\ \A r \in Repos : step'[r] \in EnsureSteps => step[r] \in EnsureSteps

\* The steps that matter to deliveries and their triggers: one of GitHub's, a delivery's
\* arrival, its start, its build, and a restart.
LEMMA StepKinds ==
    ASSUME CountTypes, DeliveryTypes, ObjectTypes, [PreviewNext]_PreviewVars
    PROVE  \/ \E r \in Repos :
                \/ GitHub(r) \/ Take(r) \/ CreateBuild(r)
                \/ \E k \in 1 .. MaxEvents : Deliver(r, k)
           \/ Restart
           \/ Settles
<1>. USE DEF CountTypes, DeliveryTypes, Settles, delivery, objects, environment, builds,
   sweeper,
             Goes, Mishap, EnsureSteps
<1>1. ASSUME NEW r \in Repos, CancelPreviewBuilds(r) \/ DeletePreviewEnv(r)
      PROVE  Settles
  BY <1>1 DEF CancelPreviewBuilds, DeletePreviewEnv
<1>2. ASSUME NEW r \in Repos, OtherPreviewEnvsForPR(r) \/ DeletePRAddons(r)
      PROVE  Settles
  BY <1>2 DEF OtherPreviewEnvsForPR, DeletePRAddons
<1>3. ASSUME NEW r \in Repos, AwaitPreviewTeardown(r) \/ Refuse(r) \/ EnsurePRAddons(r)
      PROVE  Settles
  BY <1>3 DEF AwaitPreviewTeardown, Refuse, EnsurePRAddons
<1>4. ASSUME NEW r \in Repos, UpdateEnv(r) \/ CreateEnv(r)
      PROVE  Settles
  BY <1>4 DEF UpdateEnv, CreateEnv
<1>5. ASSUME NEW r \in Repos, PriorBuildsForSHA(r) \/ StampExistingBuildImage(r)
      PROVE  Settles
  BY <1>5 DEF PriorBuildsForSHA, StampExistingBuildImage
<1>6. ASSUME NEW r \in Repos, NEW s \in Heads,
             PromoteBuild(r, s) \/ FinishBuild(r, s) \/ FailBuild(r, s)
      PROVE  Settles
  BY <1>6 DEF PromoteBuild, FinishBuild, FailBuild
<1>7. ASSUME NEW r \in Repos,
             FinalizeEnv(r) \/ Expire(r) \/ SweepExtends(r) \/ SweepDecides(r)
      PROVE  Settles
  BY <1>7 DEF FinalizeEnv, Expire, SweepExtends, SweepDecides
<1>8. CASE FinalizeClone \/ SweepDeletes \/ SweepLists \/ SweepDrops
  BY <1>8 DEF FinalizeClone, SweepDeletes, SweepLists, SweepDrops
<1>9. CASE UNCHANGED PreviewVars
  BY <1>9 DEF PreviewVars
<1>. QED
  BY <1>1, <1>2, <1>3, <1>4, <1>5, <1>6, <1>7, <1>8, <1>9
  DEF PreviewNext, Worker, Building, Finalizers, Sweeping

\* A trigger is one more than the last, and each delivery that is taken triggers one build
\* at most: so there are no more triggers than events.
LEMMA TriggersStep ==
    ASSUME CountTypes, DeliveryTypes, DeliveryTypes', ObjectTypes, TriggersInv,
           [PreviewNext]_PreviewVars,
           NEW q \in Repos, NEW h \in Heads
    PROVE  /\ trigger' \in [Repos -> [Heads -> Nat]]
           /\ trigger'[q][h] + Undone(q)' <= events'[q]
<1>. DEFINE Good == /\ trigger' \in [Repos -> [Heads -> Nat]]
                    /\ trigger'[q][h] + Undone(q)' <= events'[q]
<1>1. /\ Waiting(q) \in Nat /\ Waiting(q)' \in Nat
      /\ Owed(q) \in 0 .. 1 /\ Owed(q)' \in 0 .. 1
  BY LenProperties DEF DeliveryTypes, Waiting, Owed
<1>2. Undone(q) \in Nat /\ Undone(q)' \in Nat
  BY <1>1 DEF Undone
<1>3. trigger \in [Repos -> [Heads -> Nat]] /\ events[q] \in Nat
  BY PreviewAssumption DEF TriggersInv, CountTypes
<1>4. trigger[q][h] \in Nat /\ trigger[q][h] + Undone(q) <= events[q]
  BY <1>3 DEF TriggersInv
<1>5. ASSUME UNCHANGED trigger, UNCHANGED events, Undone(q)' <= Undone(q)
      PROVE  Good
  <2>1. trigger'[q][h] + Undone(q)' <= events'[q]
    BY <1>2, <1>3, <1>4, <1>5
  <2>. QED BY <1>3, <1>5, <2>1
<1>6. ASSUME NEW r \in Repos, GitHub(r)  PROVE Good
  <2>1. PICK p : wire' = [wire EXCEPT ![r] = Append(wire[r], p)]
    BY <1>6 DEF GitHub, OpenPR, PushCommit, ClosePR, ReopenPR, Sends
  <2>2. /\ events' = [events EXCEPT ![r] = events[r] + 1]
        /\ UNCHANGED <<inbox, step, trigger>>
    BY <1>6 DEF GitHub, OpenPR, PushCommit, ClosePR, ReopenPR, Sends, delivery, builds
  <2>3. CASE q = r
    <3>1. Len(wire'[q]) = Len(wire[q]) + 1
      BY <2>1, <2>3 DEF DeliveryTypes
    <3>2. Waiting(q)' = Waiting(q) + 1
      BY <2>2, <3>1, LenProperties DEF Waiting, DeliveryTypes
    <3>3. Undone(q)' = Undone(q) + 1
      BY <1>1, <2>2, <3>2 DEF Undone, Owed
    <3>4. events'[q] = events[q] + 1
      BY <2>2, <2>3 DEF CountTypes
    <3>5. trigger[q][h] + (Undone(q) + 1) <= events[q] + 1
      BY <1>2, <1>3, <1>4
    <3>. QED BY <1>3, <2>2, <3>3, <3>4, <3>5
  <2>4. CASE q # r
    <3>1. wire'[q] = wire[q] /\ events'[q] = events[q]
      BY <2>1, <2>2, <2>4 DEF DeliveryTypes, CountTypes
    <3>2. Undone(q)' = Undone(q)
      BY <2>2, <3>1 DEF Undone, Waiting, Owed
    <3>. QED BY <1>3, <1>4, <2>2, <3>1, <3>2
  <2>. QED BY <2>3, <2>4
<1>7. ASSUME NEW r \in Repos, NEW k \in 1 .. MaxEvents, Deliver(r, k)  PROVE Good
  <2>1. k \in 1 .. Len(wire[r]) /\ wire[r] \in Seq(Payloads) /\ inbox[r] \in Seq(Payloads)
    BY <1>7 DEF Deliver, DeliveryTypes
  <2>2. UNCHANGED <<events, step, trigger>>
    BY <1>7 DEF Deliver, github, delivery, builds
  <2>3. CASE q = r
    <3>1. wire'[q] = RemoveAt(wire[q], k) /\ inbox'[q] = Append(inbox[q], wire[q][k])
      BY <1>7, <2>3 DEF Deliver, DeliveryTypes
    <3>2. Len(wire'[q]) = Len(wire[q]) - 1 /\ Len(inbox'[q]) = Len(inbox[q]) + 1
      BY <2>1, <2>3, <3>1, RemoveAtIs
    <3>3. Len(wire[q]) \in Nat /\ Len(inbox[q]) \in Nat
      BY <2>1, <2>3, LenProperties
    <3>. DEFINE w == Len(wire[q])
                i == Len(inbox[q])
    <3>4. Waiting(q)' = (w - 1) + (i + 1) /\ Waiting(q) = w + i
      BY <3>2 DEF Waiting
    <3>4a. Waiting(q)' = Waiting(q)
      <4>. HIDE DEF w, i
      <4>1. w \in Nat /\ i \in Nat
        BY <3>3 DEF w, i
      <4>. QED BY <3>4, <4>1
    <3>5. Owed(q)' = Owed(q)
      BY <2>2 DEF Owed
    <3>6. Undone(q)' = Undone(q)
      BY <3>4a, <3>5 DEF Undone
    <3>. QED BY <1>2, <1>5, <2>2, <3>6
  <2>4. CASE q # r
    <3>1. wire'[q] = wire[q] /\ inbox'[q] = inbox[q]
      BY <1>7, <2>4 DEF Deliver, DeliveryTypes
    <3>2. Undone(q)' = Undone(q)
      BY <2>2, <3>1 DEF Undone, Waiting, Owed
    <3>. QED BY <1>2, <1>5, <2>2, <3>2
  <2>. QED BY <2>3, <2>4
<1>8. ASSUME NEW r \in Repos, Take(r)  PROVE Good
  <2>1. UNCHANGED <<events, wire, trigger>> /\ Owed(r) = 0
    BY <1>8 DEF Take, github, builds, Owed, EnsureSteps
  <2>2. CASE q = r
    <3>1. inbox'[q] = Tail(inbox[q]) /\ inbox[q] # <<>> /\ inbox[q] \in Seq(Payloads)
      BY <1>8, <2>2 DEF Take, DeliveryTypes
    <3>2. Len(inbox'[q]) = Len(inbox[q]) - 1
      BY <3>1, HeadTailProperties
    <3>3. Waiting(q)' = Waiting(q) - 1
      BY <2>1, <3>1, <3>2, LenProperties DEF Waiting, DeliveryTypes
    <3>4. Undone(q)' <= Undone(q)
      BY <1>1, <2>1, <2>2, <3>3 DEF Undone
    <3>. QED BY <1>5, <2>1, <3>4
  <2>3. CASE q # r
    <3>1. inbox'[q] = inbox[q] /\ step'[q] = step[q]
      BY <1>8, <2>3 DEF Take, DeliveryTypes
    <3>2. Undone(q)' = Undone(q)
      BY <2>1, <3>1 DEF Undone, Waiting, Owed
    <3>. QED BY <1>2, <1>5, <2>1, <3>2
  <2>. QED BY <2>2, <2>3
<1>9. ASSUME NEW r \in Repos, CreateBuild(r)  PROVE Good
  <2>. DEFINE T == {trigger[r][x] : x \in Heads}
  <2>1. doing[r].sha \in Heads
    BY DEF DeliveryTypes, Payloads
  <2>2. /\ trigger' = [trigger EXCEPT ![r][doing[r].sha] = 1 + Max(T)]
        /\ step' = [step EXCEPT ![r] = "idle"] /\ step[r] = "build"
        /\ UNCHANGED <<events, wire, inbox>>
    BY <1>9 DEF CreateBuild, Goes, github
  <2>3. /\ Waiting(r) \in Nat /\ events[r] \in Nat /\ Undone(r) = Waiting(r) + 1
    BY <2>2, LenProperties, PreviewAssumption
    DEF CountTypes, DeliveryTypes, Undone, Waiting, Owed, EnsureSteps
  <2>4. \A x \in Heads : trigger[r][x] \in Nat /\ trigger[r][x] <= events[r]
                         /\ trigger[r][x] + (Waiting(r) + 1) <= events[r]
    BY <1>3, <2>3 DEF TriggersInv
  <2>5. T \in SUBSET Nat /\ T # {}
    BY <2>1, <2>4
  <2>6. \A x \in T : x <= events[r] /\ x + (Waiting(r) + 1) <= events[r]
    BY <2>4
  <2>. HIDE DEF T
  <2>7. Max(T) \in T
    BY <2>3, <2>5, <2>6, MaxIs
  <2>8. Max(T) \in Nat /\ Max(T) + (Waiting(r) + 1) <= events[r]
    BY <2>5, <2>6, <2>7
  <2>9. trigger' \in [Repos -> [Heads -> Nat]]
    BY <1>3, <2>1, <2>2, <2>8
  <2>10. CASE q = r
    <3>1. Undone(q)' = Waiting(q)
      BY <1>1, <2>2, <2>10 DEF Undone, Waiting, Owed, EnsureSteps, DeliveryTypes
    <3>2. trigger'[q][h] = trigger[q][h] \/ trigger'[q][h] = 1 + Max(T)
      BY <1>3, <2>1, <2>2, <2>10
    <3>3. trigger[q][h] + Waiting(q) <= events[q]
      BY <2>3, <2>4, <2>10
    <3>4. (1 + Max(T)) + Waiting(q) <= events[q]
      BY <2>3, <2>8, <2>10
    <3>. QED BY <2>2, <2>9, <3>1, <3>2, <3>3, <3>4
  <2>11. CASE q # r
    <3>1. trigger'[q][h] = trigger[q][h] /\ step'[q] = step[q]
      BY <1>3, <2>1, <2>2, <2>11 DEF DeliveryTypes
    <3>. QED BY <1>4, <2>2, <2>9, <3>1 DEF Undone, Waiting, Owed
  <2>. QED BY <2>10, <2>11
<1>10. CASE Restart
  <2>1. inbox'[q] = <<>> /\ step'[q] = "idle" /\ UNCHANGED <<events, wire, trigger>>
    BY <1>10 DEF Restart, github, objects, builds
  <2>2. Waiting(q)' <= Waiting(q)
    BY <2>1, LenProperties DEF Waiting, DeliveryTypes
  <2>3. Owed(q)' = 0
    BY <2>1 DEF Owed, EnsureSteps
  <2>. QED BY <1>1, <1>5, <2>1, <2>2, <2>3 DEF Undone
<1>11. CASE Settles
  <2>1. UNCHANGED <<events, wire, inbox, trigger>>
    BY <1>11 DEF Settles, github
  <2>2. Owed(q)' <= Owed(q)
    BY <1>11 DEF Settles, Owed
  <2>3. Waiting(q)' = Waiting(q)
    BY <2>1 DEF Waiting
  <2>4. Undone(q)' <= Undone(q)
    BY <1>1, <2>2, <2>3 DEF Undone
  <2>. QED BY <1>5, <2>1, <2>4
<1>. QED BY <1>6, <1>7, <1>8, <1>9, <1>10, <1>11, StepKinds

-----------------------------------------------------------------------------
(* Closes that are pending, and tombstones *)

\* What arrives, what is delivered out of turn and what is taken: no delivery gets lost.
LEMMA OccursAppend ==
    ASSUME NEW q \in Seq(Payloads), NEW d \in Payloads, NEW act
    PROVE  Occurs(act, Append(q, d)) <=> Occurs(act, q) \/ d.act = act
<1>1. /\ Len(Append(q, d)) = Len(q) + 1 /\ Append(q, d) \in Seq(Payloads)
      /\ \A i \in 1 .. Len(q) + 1 : Append(q, d)[i] = IF i <= Len(q) THEN q[i] ELSE d
  BY AppendProperties
<1>2. DOMAIN q = 1 .. Len(q) /\ Len(q) \in Nat /\ DOMAIN Append(q, d) = 1 .. Len(q) + 1
  BY <1>1, LenProperties
<1>. DEFINE p == Append(q, d)
<1>3. \A i \in 1 .. Len(q) : i \in DOMAIN p /\ p[i] = q[i]
  BY <1>1, <1>2
<1>4. Len(q) + 1 \in DOMAIN p /\ p[Len(q) + 1] = d
  BY <1>1, <1>2
<1>5. \A i \in DOMAIN p : i \in 1 .. Len(q) \/ i = Len(q) + 1
  BY <1>2
<1>. HIDE DEF p
<1>. QED BY <1>2, <1>3, <1>4, <1>5 DEF Occurs, p

LEMMA OccursRemoveAt ==
    ASSUME NEW q \in Seq(Payloads), NEW k \in 1 .. Len(q), NEW act
    PROVE  Occurs(act, q) <=> Occurs(act, RemoveAt(q, k)) \/ q[k].act = act
<1>. DEFINE p == RemoveAt(q, k)
<1>1. /\ p \in Seq(Payloads) /\ Len(p) = Len(q) - 1
      /\ \A j \in 1 .. Len(q) - 1 : p[j] = IF j < k THEN q[j] ELSE q[j + 1]
  BY RemoveAtIs
<1>2. DOMAIN q = 1 .. Len(q) /\ Len(q) \in Nat /\ DOMAIN p = 1 .. Len(q) - 1
  BY <1>1, LenProperties
<1>. HIDE DEF p
<1>3. ASSUME NEW i \in 1 .. Len(q), q[i].act = act, q[k].act # act
      PROVE  \E j \in 1 .. Len(q) - 1 : p[j].act = act
  <2>1. CASE i < k
    <3>1. i \in 1 .. Len(q) - 1 /\ p[i] = q[i]
      BY <1>1, <1>2, <2>1
    <3>. QED BY <1>3, <3>1
  <2>2. CASE i > k
    <3>1. i - 1 \in 1 .. Len(q) - 1 /\ p[i - 1] = q[i]
      BY <1>1, <1>2, <2>2
    <3>. QED BY <1>3, <3>1
  <2>. QED BY <1>3, <2>1, <2>2
<1>4. ASSUME NEW j \in 1 .. Len(q) - 1
      PROVE  \E i \in 1 .. Len(q) : q[i] = p[j]
  <2>1. j \in 1 .. Len(q) /\ j + 1 \in 1 .. Len(q)
    BY <1>2
  <2>. QED BY <1>1, <2>1
<1>5. Occurs(act, p) => Occurs(act, q)
  BY <1>2, <1>4 DEF Occurs
<1>6. Occurs(act, q) => Occurs(act, p) \/ q[k].act = act
  BY <1>2, <1>3 DEF Occurs
<1>7. q[k].act = act => Occurs(act, q)
  BY <1>2 DEF Occurs
<1>. QED BY <1>5, <1>6, <1>7 DEF p

LEMMA OccursTail ==
    ASSUME NEW q \in Seq(Payloads), q # <<>>, NEW act
    PROVE  Occurs(act, q) <=> Head(q).act = act \/ Occurs(act, Tail(q))
<1>1. /\ Head(q) = q[1] /\ Tail(q) \in Seq(Payloads) /\ Len(Tail(q)) = Len(q) - 1
      /\ \A j \in 1 .. Len(q) - 1 : Tail(q)[j] = q[j + 1]
  BY HeadTailProperties
<1>2. DOMAIN q = 1 .. Len(q) /\ Len(q) \in Nat \ {0} /\ DOMAIN Tail(q) = 1 .. Len(q) - 1
  BY <1>1, LenProperties, EmptySeq
<1>3. ASSUME NEW i \in 1 .. Len(q), q[i].act = act, q[1].act # act
      PROVE  \E j \in 1 .. Len(q) - 1 : Tail(q)[j].act = act
  <2>1. i - 1 \in 1 .. Len(q) - 1 /\ Tail(q)[i - 1] = q[i]
    BY <1>1, <1>2, <1>3
  <2>. QED BY <1>3, <2>1
<1>4. ASSUME NEW j \in 1 .. Len(q) - 1
      PROVE  \E i \in 1 .. Len(q) : q[i] = Tail(q)[j]
  <2>1. j + 1 \in 1 .. Len(q)
    BY <1>2
  <2>. QED BY <1>1, <2>1
<1>5. Occurs(act, Tail(q)) => Occurs(act, q)
  BY <1>2, <1>4 DEF Occurs
<1>6. Occurs(act, q) => Occurs(act, Tail(q)) \/ q[1].act = act
  BY <1>2, <1>3 DEF Occurs
<1>7. q[1].act = act => Occurs(act, q)
  BY <1>2 DEF Occurs
<1>. QED BY <1>1, <1>5, <1>6, <1>7

\* The close moves from the wire to the queue, and its start sets the tombstone, which ends
\* only with a reopened or a restart.
LEMMA ClosedOnceStep ==
    PreviewFlags /\ CountTypes /\ DeliveryTypes /\ ObjectTypes /\ EventsInv /\ ClosedOnceInv
    /\ [PreviewNext]_PreviewVars => ClosedOnceInv'
<1>. SUFFICES ASSUME PreviewFlags, CountTypes, DeliveryTypes, ObjectTypes, EventsInv,
                     ClosedOnceInv, [PreviewNext]_PreviewVars,
                     NEW q \in Repos, restarts' = 0, NeverReopened(q)'
              PROVE  /\ ~Occurs("reopened", wire'[q]) /\ ~Occurs("reopened", inbox'[q])
                     /\ Down(q)' => ClosePending(q)'
                                    \/ (tombstone'[q] /\ step'[q] \notin EnsureSteps)
  BY DEF ClosedOnceInv, Occurs
<1>. DEFINE Good == /\ ~Occurs("reopened", wire'[q]) /\ ~Occurs("reopened", inbox'[q])
                    /\ Down(q)' => ClosePending(q)'
                                   \/ (tombstone'[q] /\ step'[q] \notin EnsureSteps)
<1>1. Down(q) => head[q] < events[q]
  BY DEF Down, EventsInv
<1>2. /\ wire[q] \in Seq(Payloads) /\ inbox[q] \in Seq(Payloads)
      /\ step \in [Repos -> {"idle"} \union TeardownSteps \union EnsureSteps]
      /\ head[q] \in Nat /\ events[q] \in Nat
  BY PreviewAssumption DEF DeliveryTypes, CountTypes
<1>3. ASSUME NeverReopened(q), restarts = 0
      PROVE  /\ ~Occurs("reopened", wire[q]) /\ ~Occurs("reopened", inbox[q])
             /\ Down(q) => ClosePending(q) \/ (tombstone[q] /\ step[q] \notin EnsureSteps)
  BY <1>3 DEF ClosedOnceInv
<1>4. ASSUME wire'[q] = wire[q], inbox'[q] = inbox[q], tombstone'[q] = tombstone[q],
             step'[q] \in EnsureSteps => step[q] \in EnsureSteps,
             prOpen'[q] = prOpen[q], head'[q] = head[q], events'[q] = events[q],
             restarts' = restarts
      PROVE  Good
  <2>1. NeverReopened(q) /\ restarts = 0
    BY <1>4 DEF NeverReopened
  <2>2. Down(q)' => Down(q)
    BY <1>4 DEF Down
  <2>3. ClosePending(q) => ClosePending(q)'
    BY <1>4 DEF ClosePending
  <2>. QED BY <1>3, <1>4, <2>1, <2>2, <2>3
<1>5. ASSUME NEW r \in Repos, GitHub(r)  PROVE Good
  <2>1. UNCHANGED <<inbox, tombstone, step, restarts>>
    BY <1>5 DEF GitHub, OpenPR, PushCommit, ClosePR, ReopenPR, Sends, delivery
  <2>2. CASE q # r
    <3>1. /\ wire'[q] = wire[q] /\ prOpen'[q] = prOpen[q] /\ head'[q] = head[q]
          /\ events'[q] = events[q]
      BY <1>5, <2>2 DEF GitHub, OpenPR, PushCommit, ClosePR, ReopenPR, Sends, DeliveryTypes,
                        CountTypes, PreviewFlags
    <3>. QED BY <1>4, <2>1, <3>1
  <2>3. CASE q = r
    <3>1. ASSUME NEW act, NEW open, NEW sha, Sends(q, act, open, sha),
                 [act |-> act, sha |-> sha] \in Payloads,
                 act # "reopened", sha <= head[q] + 1,
                 open \/ act = "closed", sha \in Nat,
                 ~open => sha = head[q]
          PROVE  Good
      <4>1. /\ wire'[q] = Append(wire[q], [act |-> act, sha |-> sha])
            /\ prOpen'[q] = open /\ head'[q] = sha /\ events'[q] = events[q] + 1
        BY <2>3, <3>1 DEF Sends, DeliveryTypes, CountTypes, PreviewFlags
      <4>2. NeverReopened(q)
        BY <1>2, <3>1, <4>1 DEF NeverReopened
      <4>3. ~Occurs("reopened", wire'[q])
        BY <1>2, <1>3, <2>1, <3>1, <4>1, <4>2, OccursAppend
      <4>4. ~open => Occurs("closed", wire'[q])
        BY <1>2, <3>1, <4>1, OccursAppend
      <4>5. ~open => ClosePending(q)'
        BY <4>4 DEF ClosePending, Occurs
      <4>6. Down(q)' => ~open
        BY <4>1 DEF Down
      <4>. QED BY <1>3, <2>1, <4>2, <4>3, <4>5, <4>6
    <3>2. CASE OpenPR(r)
      <4>1. 1 \in Heads
        BY PreviewAssumption DEF Heads
      <4>2. Sends(q, "opened", TRUE, 1)
        BY <2>3, <3>2 DEF OpenPR
      <4>2a. 1 <= head[q] + 1
        BY <1>2
      <4>3. [act |-> "opened", sha |-> 1] \in Payloads
        BY <4>1 DEF Payloads, Acts
      <4>. QED BY <2>3, <3>1, <4>2, <4>2a, <4>3
    <3>3. CASE PushCommit(r)
      <4>. DEFINE n == head[q] + 1
      <4>1. n \in Heads /\ n \in Nat /\ n <= head[q] + 1
        BY <1>2, <2>3, <3>3, PreviewAssumption DEF PushCommit, Heads, CountTypes
      <4>2. Sends(q, "synchronize", TRUE, n)
        BY <2>3, <3>3 DEF PushCommit
      <4>3. [act |-> "synchronize", sha |-> n] \in Payloads
        BY <4>1 DEF Payloads, Acts
      <4>. HIDE DEF n
      <4>. QED BY <2>3, <3>1, <4>1, <4>2, <4>3
    <3>4. CASE ClosePR(r)
      <4>1. head[q] \in Heads
        BY <2>3, <3>4, PreviewAssumption DEF ClosePR, CountTypes, EventsInv, Heads
      <4>2. Sends(q, "closed", FALSE, head[q])
        BY <2>3, <3>4 DEF ClosePR
      <4>2a. head[q] <= head[q] + 1
        BY <1>2
      <4>3. [act |-> "closed", sha |-> head[q]] \in Payloads
        BY <4>1 DEF Payloads, Acts
      <4>. QED BY <1>2, <2>3, <3>1, <4>2, <4>2a, <4>3
    <3>5. CASE ReopenPR(r)
      <4>1. head'[q] = head[q] /\ events'[q] = events[q] + 1 /\ head[q] < events[q]
        BY <2>3, <3>5 DEF ReopenPR, Sends, EventsInv, CountTypes
      <4>. QED BY <1>2, <4>1 DEF NeverReopened
    <3>. QED BY <1>5, <3>2, <3>3, <3>4, <3>5 DEF GitHub
  <2>. QED BY <2>2, <2>3
<1>6. ASSUME NEW r \in Repos, NEW k \in 1 .. MaxEvents, Deliver(r, k)  PROVE Good
  <2>1. UNCHANGED <<prOpen, head, events, tombstone, step, restarts>>
    BY <1>6 DEF Deliver, github, delivery
  <2>2. CASE q # r
    <3>1. wire'[q] = wire[q] /\ inbox'[q] = inbox[q]
      BY <1>6, <2>2 DEF Deliver, DeliveryTypes
    <3>. QED BY <1>4, <2>1, <3>1
  <2>3. CASE q = r
    <3>1. k \in 1 .. Len(wire[q])
      BY <1>2, <1>6, <2>3, LenProperties DEF Deliver
    <3>2. wire'[q] = RemoveAt(wire[q], k) /\ inbox'[q] = Append(inbox[q], wire[q][k])
      BY <1>6, <2>3 DEF Deliver, DeliveryTypes
    <3>3. wire[q][k] \in Payloads
      BY <1>2, <3>1, ElementOfSeq
    <3>4. \A act : (Occurs(act, wire'[q]) \/ Occurs(act, inbox'[q]))
                   <=> (Occurs(act, wire[q]) \/ Occurs(act, inbox[q]))
      BY <1>2, <3>1, <3>2, <3>3, OccursAppend, OccursRemoveAt
    <3>5. NeverReopened(q) /\ restarts = 0
      BY <2>1 DEF NeverReopened
    <3>6. ClosePending(q) => ClosePending(q)'
      BY <3>4 DEF ClosePending, Occurs
    <3>7. Down(q)' => Down(q)
      BY <2>1 DEF Down
    <3>. QED BY <1>3, <2>1, <3>4, <3>5, <3>6, <3>7
  <2>. QED BY <2>2, <2>3
<1>7. ASSUME NEW r \in Repos, Take(r)  PROVE Good
  <2>1. UNCHANGED <<prOpen, head, events, wire, restarts>>
    BY <1>7 DEF Take, github
  <2>2. CASE q # r
    <3>1. inbox'[q] = inbox[q] /\ step'[q] = step[q] /\ tombstone'[q] = tombstone[q]
      BY <1>7, <2>2 DEF Take, DeliveryTypes, PreviewFlags
    <3>. QED BY <1>4, <2>1, <3>1
  <2>3. CASE q = r
    <3>. DEFINE d == Head(inbox[q])
    <3>1. inbox[q] # <<>> /\ inbox'[q] = Tail(inbox[q])
      BY <1>7, <2>3 DEF Take, DeliveryTypes
    <3>2. \A act : Occurs(act, inbox[q]) <=> d.act = act \/ Occurs(act, inbox'[q])
      BY <1>2, <3>1, OccursTail
    <3>3. NeverReopened(q) /\ restarts = 0
      BY <2>1 DEF NeverReopened
    <3>4. ~Occurs("reopened", wire'[q]) /\ ~Occurs("reopened", inbox'[q]) /\ d.act # "reopened"
      BY <1>3, <2>1, <3>2, <3>3
    <3>5. d.act = "closed" => tombstone'[q] /\ step'[q] = "cancel"
      BY <1>2, <1>7, <2>3 DEF Take, PreviewFlags
    <3>6. d.act # "closed" => /\ tombstone'[q] = tombstone[q]
                              /\ tombstone[q] => step'[q] = "idle"
      BY <1>2, <1>7, <2>3, <3>4 DEF Take, PreviewFlags, Admits
    <3>7. ClosePending(q) => d.act = "closed" \/ ClosePending(q)'
      BY <2>1, <3>2 DEF ClosePending, Occurs
    <3>8. Down(q)' => Down(q)
      BY <2>1 DEF Down
    <3>. HIDE DEF d
    <3>9. "cancel" \notin EnsureSteps /\ "idle" \notin EnsureSteps
      BY DEF EnsureSteps
    <3>. QED BY <1>3, <3>3, <3>4, <3>5, <3>6, <3>7, <3>8, <3>9
  <2>. QED BY <2>2, <2>3
<1>8. ASSUME NEW r \in Repos, CreateBuild(r)  PROVE Good
  <2>1. UNCHANGED <<prOpen, head, events, wire, inbox, tombstone, restarts>>
    BY <1>8 DEF CreateBuild, github
  <2>2. step'[q] \in EnsureSteps => step[q] \in EnsureSteps
    BY <1>2, <1>8 DEF CreateBuild, Goes, EnsureSteps
  <2>. QED BY <1>4, <2>1, <2>2
<1>9. ASSUME Restart  PROVE Good
  <2>1. restarts' = restarts + 1 /\ restarts \in Nat
    BY <1>9, PreviewAssumption DEF Restart, CountTypes
  <2>. QED BY <2>1
<1>10. CASE Settles
  <2>1. UNCHANGED <<prOpen, head, events, wire, inbox, tombstone, restarts>>
    BY <1>10 DEF Settles, github
  <2>2. step'[q] \in EnsureSteps => step[q] \in EnsureSteps
    BY <1>10 DEF Settles
  <2>. QED BY <1>4, <2>1, <2>2
<1>. QED BY <1>5, <1>6, <1>7, <1>8, <1>9, <1>10, StepKinds

-----------------------------------------------------------------------------
(* Deliveries in order *)

\* The last of a queue, as deliveries are appended and taken off its head.
LEMMA EndsAppend ==
    ASSUME NEW q \in Seq(Payloads), NEW d \in Payloads
    PROVE  Append(q, d) # <<>> /\ (EndsClosed(Append(q, d)) <=> d.act = "closed")
<1>1. /\ Append(q, d) \in Seq(Payloads) /\ Len(Append(q, d)) = Len(q) + 1
      /\ Append(q, d)[Len(q) + 1] = d /\ Len(q) \in Nat
  BY AppendProperties, LenProperties
<1>2. Append(q, d) # <<>>
  BY <1>1, EmptySeq
<1>. QED BY <1>1, <1>2 DEF EndsClosed

LEMMA EndsTail ==
    ASSUME NEW q \in Seq(Payloads), q # <<>>
    PROVE  EndsClosed(q) <=> IF Tail(q) = <<>> THEN Head(q).act = "closed"
                                               ELSE EndsClosed(Tail(q))
<1>1. /\ Head(q) = q[1] /\ Tail(q) \in Seq(Payloads) /\ Len(Tail(q)) = Len(q) - 1
      /\ \A j \in 1 .. Len(q) - 1 : Tail(q)[j] = q[j + 1]
      /\ Len(q) \in Nat \ {0}
  BY HeadTailProperties, LenProperties, EmptySeq
<1>2. Tail(q) = <<>> <=> Len(q) = 1
  BY <1>1, EmptySeq
<1>3. CASE Len(q) = 1
  BY <1>1, <1>2, <1>3 DEF EndsClosed
<1>4. CASE Len(q) # 1
  <2>1. Len(q) - 1 \in 1 .. Len(q) - 1 /\ (Len(q) - 1) + 1 = Len(q)
    BY <1>1, <1>4
  <2>2. Tail(q)[Len(Tail(q))] = q[Len(q)]
    BY <1>1, <2>1
  <2>. QED BY <1>2, <1>4, <2>2 DEF EndsClosed
<1>. QED BY <1>3, <1>4

LEMMA FirstRemoved ==
    ASSUME NEW q \in Seq(Payloads), q # <<>>
    PROVE  /\ RemoveAt(q, 1) = Tail(q) /\ Head(q) = q[1] /\ Head(q) \in Payloads
           /\ Tail(q) \in Seq(Payloads)
<1>1. /\ Head(q) = q[1] /\ Tail(q) \in Seq(Payloads) /\ Len(Tail(q)) = Len(q) - 1
      /\ \A j \in 1 .. Len(q) - 1 : Tail(q)[j] = q[j + 1]
      /\ Len(q) \in Nat \ {0} /\ Head(q) \in Payloads
  BY HeadTailProperties, LenProperties, EmptySeq
<1>2. 1 \in 1 .. Len(q)
  BY <1>1
<1>. DEFINE p == RemoveAt(q, 1)
<1>3. /\ p \in Seq(Payloads) /\ Len(p) = Len(q) - 1
      /\ \A j \in 1 .. Len(q) - 1 : p[j] = IF j < 1 THEN q[j] ELSE q[j + 1]
  BY <1>2, RemoveAtIs
<1>. HIDE DEF p
<1>3a. \A j \in 1 .. Len(q) - 1 : p[j] = q[j + 1]
  BY <1>3
<1>4. p = Tail(q)
  BY <1>1, <1>3, <1>3a, SeqEqual
<1>. QED BY <1>1, <1>4 DEF p

\* Without mishaps a delivery moves from the head of the wire to the end of the queue, so a
\* close that GitHub sent last is the last the worker takes.
LEMMA InOrderStep ==
    PreviewFlags /\ CountTypes /\ DeliveryTypes /\ ObjectTypes /\ EventsInv /\ InOrderInv
    /\ [PreviewNext]_PreviewVars => InOrderInv'
<1>. SUFFICES ASSUME PreviewFlags, CountTypes, DeliveryTypes, ObjectTypes, EventsInv,
                     InOrderInv, [PreviewNext]_PreviewVars,
                     NEW q \in Repos, mishaps' = 0, Down(q)'
              PROVE  IF wire'[q] # <<>> THEN EndsClosed(wire'[q])
                     ELSE IF inbox'[q] # <<>> THEN EndsClosed(inbox'[q])
                     ELSE step'[q] \notin EnsureSteps
  BY DEF InOrderInv, EndsClosed
<1>. DEFINE Good == IF wire'[q] # <<>> THEN EndsClosed(wire'[q])
                    ELSE IF inbox'[q] # <<>> THEN EndsClosed(inbox'[q])
                    ELSE step'[q] \notin EnsureSteps
<1>1. /\ wire[q] \in Seq(Payloads) /\ inbox[q] \in Seq(Payloads)
      /\ step \in [Repos -> {"idle"} \union TeardownSteps \union EnsureSteps]
      /\ mishaps \in Nat
  BY PreviewAssumption DEF DeliveryTypes, CountTypes
<1>2. ASSUME mishaps = 0, Down(q)
      PROVE  IF wire[q] # <<>> THEN EndsClosed(wire[q])
             ELSE IF inbox[q] # <<>> THEN EndsClosed(inbox[q])
             ELSE step[q] \notin EnsureSteps
  BY <1>2 DEF InOrderInv
<1>3. ASSUME wire'[q] = wire[q], inbox'[q] = inbox[q],
             step'[q] \in EnsureSteps => step[q] \in EnsureSteps,
             prOpen'[q] = prOpen[q], head'[q] = head[q], mishaps <= mishaps'
      PROVE  Good
  <2>1. mishaps = 0 /\ Down(q)
    BY <1>1, <1>3 DEF Down
  <2>. QED BY <1>2, <1>3, <2>1
<1>4. ASSUME NEW r \in Repos, GitHub(r)  PROVE Good
  <2>1. UNCHANGED <<inbox, step, mishaps>>
    BY <1>4 DEF GitHub, OpenPR, PushCommit, ClosePR, ReopenPR, Sends, delivery
  <2>2. CASE q # r
    <3>1. wire'[q] = wire[q] /\ prOpen'[q] = prOpen[q] /\ head'[q] = head[q]
      BY <1>4, <2>2 DEF GitHub, OpenPR, PushCommit, ClosePR, ReopenPR, Sends, DeliveryTypes,
                        CountTypes, PreviewFlags
    <3>. QED BY <1>1, <1>3, <2>1, <3>1
  <2>3. CASE q = r
    <3>1. OpenPR(r) \/ PushCommit(r) \/ ReopenPR(r) => prOpen'[q]
      BY <2>3 DEF OpenPR, PushCommit, ReopenPR, Sends, PreviewFlags
    <3>2. ClosePR(r)
      BY <1>4, <3>1 DEF GitHub, Down
    <3>. DEFINE d == [act |-> "closed", sha |-> head[q]]
    <3>3. head[q] \in Heads
      BY <2>3, <3>2, PreviewAssumption DEF ClosePR, CountTypes, EventsInv, Heads
    <3>4. d \in Payloads /\ d.act = "closed"
      BY <3>3 DEF Payloads, Acts
    <3>5. wire'[q] = Append(wire[q], d)
      BY <2>3, <3>2 DEF ClosePR, Sends, DeliveryTypes
    <3>. HIDE DEF d
    <3>. QED BY <1>1, <3>4, <3>5, EndsAppend
  <2>. QED BY <2>2, <2>3
<1>5. ASSUME NEW r \in Repos, NEW k \in 1 .. MaxEvents, Deliver(r, k)  PROVE Good
  <2>1. UNCHANGED <<prOpen, head, step>> /\ mishaps <= mishaps' /\ k = 1 /\ mishaps = 0
    BY <1>1, <1>5 DEF Deliver, github, delivery, Mishap
  <2>2. CASE q # r
    <3>1. wire'[q] = wire[q] /\ inbox'[q] = inbox[q]
      BY <1>5, <2>2 DEF Deliver, DeliveryTypes
    <3>. QED BY <1>3, <2>1, <3>1
  <2>3. CASE q = r
    <3>1. wire[q] # <<>>
      BY <1>5, <2>1, <2>3 DEF Deliver
    <3>2. wire'[q] = RemoveAt(wire[q], 1) /\ inbox'[q] = Append(inbox[q], wire[q][1])
      BY <1>5, <2>1, <2>3 DEF Deliver, DeliveryTypes
    <3>3. Down(q)
      BY <2>1 DEF Down
    <3>4. EndsClosed(wire[q])
      BY <1>2, <2>1, <3>1, <3>3
    <3>5. /\ wire'[q] = Tail(wire[q]) /\ Head(wire[q]) \in Payloads
          /\ inbox'[q] = Append(inbox[q], Head(wire[q]))
      BY <1>1, <3>1, <3>2, FirstRemoved
    <3>6. Tail(wire[q]) = <<>> => Head(wire[q]).act = "closed"
      BY <1>1, <3>1, <3>4, EndsTail
    <3>7. Tail(wire[q]) # <<>> => EndsClosed(Tail(wire[q]))
      BY <1>1, <3>1, <3>4, EndsTail
    <3>8. inbox'[q] # <<>> /\ (EndsClosed(inbox'[q]) <=> Head(wire[q]).act = "closed")
      BY <1>1, <3>5, EndsAppend
    <3>. QED BY <3>5, <3>6, <3>7, <3>8
  <2>. QED BY <2>2, <2>3
<1>6. ASSUME NEW r \in Repos, Take(r)  PROVE Good
  <2>1. UNCHANGED <<prOpen, head, wire, mishaps>>
    BY <1>6 DEF Take, github
  <2>2. CASE q # r
    <3>1. inbox'[q] = inbox[q] /\ step'[q] = step[q]
      BY <1>6, <2>2 DEF Take, DeliveryTypes
    <3>. QED BY <1>1, <1>3, <2>1, <3>1
  <2>3. CASE q = r
    <3>1. inbox[q] # <<>> /\ inbox'[q] = Tail(inbox[q])
      BY <1>6, <2>3 DEF Take, DeliveryTypes
    <3>2. Head(inbox[q]).act = "closed" => step'[q] = "cancel"
      BY <1>1, <1>6, <2>3 DEF Take
    <3>3. "cancel" \notin EnsureSteps
      BY DEF EnsureSteps
    <3>4. mishaps = 0 /\ Down(q)
      BY <2>1 DEF Down
    <3>5. wire[q] = <<>> => EndsClosed(inbox[q])
      BY <1>2, <3>1, <3>4
    <3>6. wire[q] # <<>> => EndsClosed(wire[q])
      BY <1>2, <3>4
    <3>. QED BY <1>1, <2>1, <3>1, <3>2, <3>3, <3>5, <3>6, EndsTail
  <2>. QED BY <2>2, <2>3
<1>7. ASSUME NEW r \in Repos, CreateBuild(r)  PROVE Good
  <2>1. UNCHANGED <<prOpen, head, wire, inbox, mishaps>>
    BY <1>7 DEF CreateBuild, github
  <2>2. step'[q] \in EnsureSteps => step[q] \in EnsureSteps
    BY <1>1, <1>7 DEF CreateBuild, Goes, EnsureSteps
  <2>. QED BY <1>1, <1>3, <2>1, <2>2
<1>8. ASSUME Restart  PROVE Good
  <2>1. mishaps' = mishaps + 1
    BY <1>8 DEF Restart, Mishap
  <2>. QED BY <1>1, <2>1
<1>9. CASE Settles
  <2>1. UNCHANGED <<prOpen, head, wire, inbox>> /\ mishaps <= mishaps'
    BY <1>9 DEF Settles, github
  <2>2. step'[q] \in EnsureSteps => step[q] \in EnsureSteps
    BY <1>9 DEF Settles
  <2>. QED BY <1>3, <2>1, <2>2
<1>. QED BY <1>4, <1>5, <1>6, <1>7, <1>8, <1>9, StepKinds

-----------------------------------------------------------------------------

(* Previews, for every value of the constants *)

LEMMA TriggersInvStep ==
    CountTypes /\ CountTypes' /\ DeliveryTypes /\ DeliveryTypes' /\ ObjectTypes /\ TriggersInv
    /\ [PreviewNext]_PreviewVars => TriggersInv'
<1>. SUFFICES ASSUME CountTypes, CountTypes', DeliveryTypes, DeliveryTypes', ObjectTypes,
                     TriggersInv, [PreviewNext]_PreviewVars
              PROVE  TriggersInv'
  OBVIOUS
<1>1. (\E r \in Repos : TRUE) /\ 1 \in Heads
  BY PreviewAssumption DEF Heads
<1>2. /\ trigger' \in [Repos -> [Heads -> Nat]]
      /\ \A r \in Repos : \A h \in Heads : trigger'[r][h] + Undone(r)' <= events'[r]
  BY <1>1, TriggersStep
<1>3. ASSUME NEW r \in Repos  PROVE Undone(r)' \in Nat /\ events'[r] \in 0 .. MaxEvents
  BY LenProperties DEF DeliveryTypes, CountTypes, Undone, Waiting, Owed
<1>4. ASSUME NEW r \in Repos, NEW h \in Heads  PROVE trigger'[r][h] \in 0 .. MaxEvents
  <2>. DEFINE t == trigger'[r][h]
              u == Undone(r)'
              e == events'[r]
  <2>1. t \in Nat /\ u \in Nat /\ e \in 0 .. MaxEvents /\ t + u <= e
    BY <1>2, <1>3
  <2>2. MaxEvents \in Nat
    BY PreviewAssumption
  <2>. HIDE DEF t, u, e
  <2>3. t \in 0 .. MaxEvents
    BY <2>1, <2>2
  <2>. QED BY <2>3 DEF t
<1>5. trigger' \in [Repos -> [Heads -> 0 .. MaxEvents]]
  BY <1>2, <1>4
<1>6. promoted' \in [Repos -> 0 .. MaxEvents]
  <2>. USE DEF TriggersInv, environment, objects
  <2>1. ASSUME NEW r \in Repos, NEW h \in Heads, PromoteBuild(r, h)
        PROVE  promoted' \in [Repos -> 0 .. MaxEvents]
    <3>1. trigger[r][h] \in 0 .. MaxEvents
      OBVIOUS
    <3>. QED BY <2>1, <3>1 DEF PromoteBuild
  <2>2. ASSUME NEW r \in Repos, CreateEnv(r) \/ FinalizeEnv(r)
        PROVE  promoted' \in [Repos -> 0 .. MaxEvents]
    <3>1. 0 \in 0 .. MaxEvents
      BY PreviewAssumption
    <3>2. promoted' = promoted \/ promoted' = [promoted EXCEPT ![r] = 0]
      BY <2>2 DEF CreateEnv, FinalizeEnv
    <3>. QED BY <3>1, <3>2
  <2>3. CASE UNCHANGED promoted
    BY <2>3
  <2>. QED
    BY <2>1, <2>2, <2>3
    DEF PreviewNext, PreviewVars, GitHub, OpenPR, PushCommit, ClosePR, ReopenPR, Sends, Worker,
        Building, Finalizers, Sweeping, Deliver, Restart, Take, CancelPreviewBuilds,
        DeletePreviewEnv, OtherPreviewEnvsForPR, DeletePRAddons, AwaitPreviewTeardown, Refuse,
        EnsurePRAddons, UpdateEnv, PriorBuildsForSHA, CreateBuild, StampExistingBuildImage,
        FinishBuild, FailBuild, FinalizeClone, Expire, SweepExtends, SweepDecides,
        SweepDeletes, SweepLists, SweepDrops
<1>. QED BY <1>2, <1>5, <1>6 DEF TriggersInv, Undone, Waiting, Owed

LEMMA PreviewStarts == PreviewInit => PInv
<1>. SUFFICES ASSUME PreviewInit  PROVE PInv
  OBVIOUS
<1>. USE PreviewAssumption DEF PreviewInit
<1>1. PreviewFlags
  BY DEF PreviewFlags
<1>2. CountTypes
  BY DEF CountTypes
<1>3. DeliveryTypes
  BY DEF DeliveryTypes, Nothing, Payloads, Acts, Heads
<1>4. ObjectTypes
  BY DEF ObjectTypes, ObjectStates, BuildStates
<1>5. TriggersInv
  <2>1. \A r \in Repos : Waiting(r) = 0 /\ Owed(r) = 0
    BY EmptySeq DEF Waiting, Owed, EnsureSteps
  <2>2. \A r \in Repos : Undone(r) = 0
    BY <2>1 DEF Undone
  <2>3. 0 \in 0 .. MaxEvents
    OBVIOUS
  <2>. QED BY <2>2, <2>3 DEF TriggersInv
<1>6. EventsInv
  BY DEF EventsInv
<1>7. ClosedOnceInv
  BY DEF ClosedOnceInv, Occurs, Down
<1>8. InOrderInv
  BY DEF InOrderInv, Down
<1>. QED BY <1>1, <1>2, <1>3, <1>4, <1>5, <1>6, <1>7, <1>8 DEF PInv

LEMMA PreviewSteps == PInv /\ [PreviewNext]_PreviewVars => PInv'
<1>. SUFFICES ASSUME PInv, [PreviewNext]_PreviewVars  PROVE PInv'
  OBVIOUS
<1>1. /\ PreviewFlags /\ CountTypes /\ DeliveryTypes /\ ObjectTypes /\ TriggersInv
      /\ EventsInv /\ ClosedOnceInv /\ InOrderInv
  BY DEF PInv
<1>2. CountTypes' /\ DeliveryTypes'
  BY <1>1, CountTypesStep, DeliveryTypesStep
<1>3. PreviewFlags' /\ ObjectTypes' /\ EventsInv'
  BY <1>1, PreviewFlagsStep, ObjectTypesStep, EventsInvStep
<1>4. TriggersInv' /\ ClosedOnceInv' /\ InOrderInv'
  BY <1>1, <1>2, TriggersInvStep, ClosedOnceStep, InOrderStep
<1>. QED BY <1>2, <1>3, <1>4 DEF PInv

LEMMA PreviewInvariant == PreviewSpec => []PInv
<1>1. PInv /\ UNCHANGED PreviewVars => PInv'
  BY PreviewSteps
<1>. QED BY <1>1, PreviewStarts, PreviewSteps, PTL DEF PreviewSpec

\* Every variable stays in its type; above all, no build of a pull request is triggered more
\* often than it has events, though a retry creates a build anew.
THEOREM PreviewTypeCorrect == PreviewSpec => []PreviewTypeOK
<1>1. PInv => PreviewTypeOK
  BY DEF PInv, PreviewFlags, CountTypes, DeliveryTypes, ObjectTypes, TriggersInv,
     PreviewTypeOK,
         BuildStates
<1>. QED BY <1>1, PreviewInvariant, PTL

\* Who writes the state of a preview's environment.
LEMMA EnvSteps ==
    ASSUME [PreviewNext]_PreviewVars
    PROVE  \/ env' = env
           \/ SweepDeletes
           \/ \E r \in Repos : DeletePreviewEnv(r) \/ CreateEnv(r) \/ FinalizeEnv(r)
<1>. USE DEF environment, objects
<1>1. ASSUME NEW r \in Repos, GitHub(r) \/ (\E k \in 1 .. MaxEvents : Deliver(r, k)) \/
   Expire(r)
      PROVE  env' = env
  BY <1>1 DEF GitHub, OpenPR, PushCommit, ClosePR, ReopenPR, Sends, Deliver, Expire
<1>2. ASSUME NEW r \in Repos, Take(r) \/ CancelPreviewBuilds(r) \/ OtherPreviewEnvsForPR(r)
                              \/ DeletePRAddons(r) \/ AwaitPreviewTeardown(r) \/ Refuse(r)
      PROVE  env' = env
  BY <1>2 DEF Take, CancelPreviewBuilds, OtherPreviewEnvsForPR, DeletePRAddons,
              AwaitPreviewTeardown, Refuse
<1>3. ASSUME NEW r \in Repos, EnsurePRAddons(r) \/ UpdateEnv(r) \/ PriorBuildsForSHA(r)
                              \/ CreateBuild(r) \/ StampExistingBuildImage(r)
      PROVE  env' = env
  BY <1>3 DEF EnsurePRAddons, UpdateEnv, PriorBuildsForSHA, CreateBuild,
     StampExistingBuildImage
<1>4. ASSUME NEW r \in Repos, Building(r)  PROVE env' = env
  BY <1>4 DEF Building, PromoteBuild, FinishBuild, FailBuild
<1>5. ASSUME NEW r \in Repos, SweepExtends(r) \/ SweepDecides(r)  PROVE env' = env
  BY <1>5 DEF SweepExtends, SweepDecides
<1>6. CASE FinalizeClone \/ SweepLists \/ SweepDrops \/ Restart
  BY <1>6 DEF FinalizeClone, SweepLists, SweepDrops, Restart
<1>7. CASE UNCHANGED PreviewVars
  BY <1>7 DEF PreviewVars
<1>. QED
  BY <1>1, <1>2, <1>3, <1>4, <1>5, <1>6, <1>7
  DEF PreviewNext, Worker, Finalizers, Sweeping

\* Once its close has been taken, no late webhook rebuilds the preview of a pull request that
\* was never reopened; and none does of any, if the deliveries come in order.
THEOREM LateDeliveryDoesNotRebuildHolds == PreviewSpec => LateDeliveryDoesNotRebuild
<1>1. ASSUME PInv, [PreviewNext]_PreviewVars, NEW r \in Repos,
             env[r] = "none", env'[r] = "live", restarts = 0, NeverReopened(r) \/ mishaps = 0,
             ~prOpen[r]
      PROVE  ClosePending(r)
  <2>1. /\ CountTypes /\ DeliveryTypes /\ ObjectTypes /\ TriggersInv
        /\ EventsInv /\ ClosedOnceInv /\ InOrderInv
    BY <1>1 DEF PInv
  <2>2. PICK q \in Repos : CreateEnv(q)
    <3>1. Deleted("none") = "none"
      BY DEF Deleted
    <3>2. ASSUME NEW q \in Repos, env' = [env EXCEPT ![q] = Deleted(@)]  PROVE FALSE
      BY <1>1, <2>1, <3>1, <3>2 DEF ObjectTypes
    <3>3. ASSUME NEW q \in Repos, FinalizeEnv(q)  PROVE FALSE
      BY <1>1, <2>1, <3>3 DEF FinalizeEnv, ObjectTypes
    <3>4. env' # env
      BY <1>1
    <3>5. ASSUME NEW q \in Repos, DeletePreviewEnv(q)  PROVE FALSE
      BY <3>2, <3>4, <3>5 DEF DeletePreviewEnv
    <3>6. ASSUME SweepDeletes  PROVE FALSE
      BY <2>1, <3>2, <3>4, <3>6 DEF SweepDeletes, ObjectTypes
    <3>. QED BY <1>1, <3>3, <3>4, <3>5, <3>6, EnvSteps
  <2>3. step[r] \in EnsureSteps
    BY <1>1, <2>1, <2>2 DEF CreateEnv, ObjectTypes, environment, EnsureSteps
  <2>4. 1 \in Heads
    BY PreviewAssumption DEF Heads
  <2>5. Waiting(r) \in Nat /\ Owed(r) = 1 /\ trigger[r][1] \in Nat /\ events[r] \in Nat
    BY <2>1, <2>3, <2>4, LenProperties DEF DeliveryTypes, CountTypes, TriggersInv, Waiting,
       Owed
  <2>6. trigger[r][1] + Undone(r) <= events[r] /\ Undone(r) = Waiting(r) + 1
    BY <2>1, <2>4, <2>5 DEF TriggersInv, Undone
  <2>7. events[r] # 0
    BY <2>5, <2>6
  <2>8. Down(r)
    BY <1>1, <2>1, <2>7, PreviewAssumption DEF EventsInv, Down, CountTypes
  <2>9. CASE NeverReopened(r)
    BY <1>1, <2>1, <2>3, <2>8, <2>9 DEF ClosedOnceInv
  <2>10. CASE mishaps = 0
    <3>1. ASSUME NEW s \in Seq(Payloads), s # <<>>, EndsClosed(s)
          PROVE  \E i \in DOMAIN s : s[i].act = "closed"
      <4>1. Len(s) \in DOMAIN s
        BY <3>1, LenProperties, EmptySeq
      <4>. QED BY <3>1, <4>1 DEF EndsClosed
    <3>2. wire[r] \in Seq(Payloads) /\ inbox[r] \in Seq(Payloads)
      BY <2>1 DEF DeliveryTypes
    <3>3. \/ wire[r] # <<>> /\ EndsClosed(wire[r])
          \/ inbox[r] # <<>> /\ EndsClosed(inbox[r])
      BY <2>1, <2>3, <2>8, <2>10 DEF InOrderInv
    <3>. QED BY <3>1, <3>2, <3>3 DEF ClosePending
  <2>. QED BY <1>1, <2>9, <2>10
<1>2. ASSUME PInv, [PreviewNext]_PreviewVars
      PROVE  [\A r \in Repos :
                 /\ env[r] = "none" /\ env'[r] = "live"
                 /\ restarts = 0 /\ (NeverReopened(r) \/ mishaps = 0)
                 => prOpen[r] \/ ClosePending(r)]_PreviewVars
  BY <1>1, <1>2
<1>. QED BY <1>2, PreviewInvariant, PTL DEF PreviewSpec, LateDeliveryDoesNotRebuild
================================================================================
