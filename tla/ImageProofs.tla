----------------------------- MODULE ImageProofs -----------------------------
(***************************************************************************)
(* ImageRetention, for any builds, replicas, window and bounds: its types,  *)
(* and that no sweep deletes an image that was in use all along.            *)
(***************************************************************************)
EXTENDS ImageRetention, FiniteSetTheorems, TLAPS

\* The steps that come after the list of a consumer, up to the deletions.
ListedBefore(c) ==
    IF c = "env" THEN {"cron", "pod", "digests"}
    ELSE IF c = "cron" THEN {"pod", "digests"} ELSE {"digests"}

\* What the lists and the digests of a sweep know of a consumer that has not moved.
KnowsOf(s, c) ==
    /\ image[c] \in Images
    /\ step[s] \in ListedBefore(c) => image[c] \in inUse[s]
    /\ step[s] = "delete" /\ image[c] \in registry => Digest[image[c]] \in guarded[s]
    /\ checked[s] \in registry /\ image[c] \in registry
            => Digest[checked[s]] # Digest[image[c]]

ImageInv ==
    /\ ImageTypeOK
    /\ \A s \in Sweepers :
        /\ checked[s] # NoImage => step[s] = "delete"
        /\ \A c \in steady[s] : KnowsOf(s, c)

\* Steps that leave every sweep, the registry and the consumers alone.
Unswept == UNCHANGED <<SweepVars, registry, image, steady>>

-----------------------------------------------------------------------------

LEMMA ImageInvInit == ImageInit => ImageInv
  <1> SUFFICES ASSUME ImageInit PROVE ImageInv
    OBVIOUS
  <1> USE ImageAssumption
  <1>1. Built \subseteq Images /\ IsFiniteSet(Built)
    BY FS_Subset DEF Built
  <1>2. Cardinality(Built) \in Nat
    BY <1>1, FS_CardinalityType
  <1>3. Cardinality(Images) \in Nat
    BY FS_CardinalityType
  <1>4. BuiltAs \in [Images -> Nat]
    BY <1>3
  <1>5. ImageTypeOK
    BY <1>1, <1>2, <1>4 DEF ImageInit, ImageTypeOK, Tags, Steps, Consumers
  <1> QED
    BY <1>5 DEF ImageInit, ImageInv

\* A consumer that moves is not steady any more; the others have not changed.
LEMMA ReferKeepsInv ==
  ASSUME NEW c \in Consumers, NEW b \in Tags, ImageInv, Refer(c, b),
         ImageTypeOK', UNCHANGED <<SweepVars, registry>>
  PROVE  ImageInv'
  <1>1. ASSUME NEW s \in Sweepers, NEW d \in steady'[s]
        PROVE  d \in steady[s] /\ image'[d] = image[d]
    BY <1>1 DEF Refer, ImageInv, ImageTypeOK
  <1>2. UNCHANGED <<step, untag, inUse, guarded, checked, registry>>
    BY DEF SweepVars
  <1>3. ASSUME NEW s \in Sweepers, NEW d \in steady'[s]
        PROVE  KnowsOf(s, d)'
    <2>1. KnowsOf(s, d)
      BY <1>1, <1>3 DEF ImageInv
    <2> QED
      BY <2>1, <1>1, <1>2, <1>3 DEF KnowsOf
  <1>4. ASSUME NEW s \in Sweepers PROVE (checked[s] # NoImage => step[s] = "delete")'
    BY <1>2 DEF ImageInv
  <1> QED
    BY <1>3, <1>4 DEF ImageInv

LEMMA TypeStep == ImageTypeOK /\ [ImageNext]_ImageVars => ImageTypeOK'
  <1> SUFFICES ASSUME ImageTypeOK, [ImageNext]_ImageVars PROVE ImageTypeOK'
    OBVIOUS
  <1> USE ImageAssumption DEF ImageTypeOK, Tags, Miss
  <1>1. ASSUME NEW b \in Images, PushImage(b) PROVE ImageTypeOK'
    BY <1>1 DEF PushImage, SweepVars
  <1>2. ASSUME NEW c \in Consumers, NEW b \in Tags, Refer(c, b)
        PROVE  image' \in [Consumers -> Tags] /\ steady' \in [Sweepers -> SUBSET Consumers]
    BY <1>2 DEF Refer
  <1>3. ASSUME NEW b \in Images, PromoteImage(b) PROVE ImageTypeOK'
    BY <1>3, <1>2 DEF PromoteImage, SweepVars, Consumers
  <1>4. ASSUME NEW b \in Images, StampDone(b) PROVE ImageTypeOK'
    <2>1. time' \in Nat
      BY <1>4 DEF StampDone
    <2>2. record' \in [Images -> [at : Nat, tagged : BOOLEAN]]
      <3> DEFINE stamped == [at |-> IF record[b].at = 0 THEN time' ELSE record[b].at,
                             tagged |-> TRUE]
      <3>1. record[b].at \in Nat
        OBVIOUS
      <3>2. stamped \in [at : Nat, tagged : BOOLEAN]
        BY <2>1, <3>1
      <3>3. record' = [record EXCEPT ![b] = stamped] \/ record' = record
        BY <1>4 DEF StampDone
      <3> HIDE DEF stamped
      <3> QED
        BY <3>2, <3>3
    <2>3. misses' \in 0..MaxMisses
      BY <1>4 DEF StampDone
    <2> QED
      BY <1>4, <2>1, <2>2, <2>3 DEF StampDone, SweepVars
  <1>5. ASSUME NEW b \in Images, CollectBuild(b) PROVE ImageTypeOK'
    BY <1>5 DEF CollectBuild, SweepVars
  <1>6. ASSUME NEW b \in Images, RollbackChecks(b) PROVE ImageTypeOK'
    BY <1>6 DEF RollbackChecks, SweepVars
  <1>7. CASE RollOut
    BY <1>7, <1>2 DEF RollOut, SweepVars, Consumers
  <1>8. CASE SyncCron
    BY <1>8, <1>2 DEF SyncCron, SweepVars, Consumers
  <1>9. CASE RollbackPatchesEnv
    BY <1>9, <1>2 DEF RollbackPatchesEnv, SweepVars, Consumers
  <1>10. ASSUME NEW s \in Sweepers, ListBuilds(s) PROVE ImageTypeOK'
    BY <1>10 DEF ListBuilds, NextStep, After, Steps, Consumers, History
  <1>11. ASSUME NEW s \in Sweepers, ListConsumer(s) PROVE ImageTypeOK'
    BY <1>11 DEF ListConsumer, NextStep, After, Steps, Consumers
  <1>12. ASSUME NEW s \in Sweepers, ResolveInUse(s) PROVE ImageTypeOK'
    BY <1>12 DEF ResolveInUse, NextStep, After, Steps
  <1>13. ASSUME NEW s \in Sweepers, CheckTarget(s) PROVE ImageTypeOK'
    BY <1>13 DEF CheckTarget
  <1>14. ASSUME NEW s \in Sweepers, DeleteTarget(s) PROVE ImageTypeOK'
    <2> DEFINE b == checked[s]
    <2>1. b \in Images
      BY <1>14 DEF DeleteTarget
    <2>2. record' \in [Images -> [at : Nat, tagged : BOOLEAN]]
      <3> DEFINE cleared == [at |-> record[b].at, tagged |-> FALSE]
      <3>1. record[b].at \in Nat
        BY <2>1
      <3>2. cleared \in [at : Nat, tagged : BOOLEAN]
        BY <3>1
      <3>3. record' = [record EXCEPT ![b] = cleared] \/ record' = record
        BY <1>14 DEF DeleteTarget
      <3> HIDE DEF cleared, b
      <3> QED
        BY <2>1, <3>2, <3>3
    <2>3. registry' \subseteq Images
      BY <1>14 DEF DeleteTarget
    <2>4. misses' \in 0..MaxMisses
      BY <1>14 DEF DeleteTarget
    <2>5. checked' \in [Sweepers -> Images \cup {NoImage}]
      BY <1>14 DEF DeleteTarget
    <2> QED
      BY <1>14, <2>2, <2>3, <2>4, <2>5 DEF DeleteTarget
  <1>15. ASSUME NEW s \in Sweepers, EndSweep(s) PROVE ImageTypeOK'
    BY <1>15 DEF EndSweep, Steps
  <1>16. CASE UNCHANGED ImageVars
    BY <1>16 DEF ImageVars, SweepVars
  <1> QED
    BY <1>1, <1>3, <1>4, <1>5, <1>6, <1>7, <1>8, <1>9, <1>10, <1>11, <1>12, <1>13, <1>14,
       <1>15, <1>16 DEF ImageNext
-----------------------------------------------------------------------------

\* PushImage: only consumers of another digest stay steady, so for them the registry is as
\* it was; the tag that comes back shares no digest with theirs.
LEMMA PushKeepsInv ==
  ASSUME NEW b \in Images, ImageInv, PushImage(b), ImageTypeOK'
  PROVE  ImageInv'
  <1>1. UNCHANGED <<image, step, untag, inUse, guarded, checked>>
    BY DEF PushImage, SweepVars
  <1>2. ASSUME NEW s \in Sweepers, NEW c \in steady'[s]
        PROVE  KnowsOf(s, c)'
    <2>1. c \in steady[s] /\ Digest[image[c]] # Digest[b] /\ registry' = registry \cup {b}
      BY <1>2 DEF PushImage
    <2>2. KnowsOf(s, c)
      BY <2>1 DEF ImageInv
    <2>3. image[c] # b
      BY <2>1
    <2>4. checked[s] \in registry' /\ image[c] \in registry'
            => Digest[checked[s]] # Digest[image[c]]
      BY <2>1, <2>2, <2>3 DEF KnowsOf
    <2> QED
      BY <1>1, <2>1, <2>2, <2>3, <2>4 DEF KnowsOf
  <1>3. ASSUME NEW s \in Sweepers PROVE (checked[s] # NoImage => step[s] = "delete")'
    BY <1>1 DEF ImageInv
  <1> QED
    BY <1>2, <1>3 DEF ImageInv

\* What one sweep does leaves the knowledge of the others as it is, as long as no image
\* comes and no consumer moves.
LEMMA OtherSweepsKeepKnowing ==
  ASSUME NEW s \in Sweepers, NEW r \in Sweepers, NEW c \in steady[r], ImageInv,
         image' = image, registry' \subseteq registry, step'[r] = step[r],
         inUse'[r] = inUse[r], guarded'[r] = guarded[r], checked'[r] = checked[r]
  PROVE  KnowsOf(r, c)'
  <1>1. KnowsOf(r, c)
    BY DEF ImageInv
  <1> QED
    BY <1>1 DEF KnowsOf

\* The beginning of a sweep.
LEMMA ListBuildsKeepsInv ==
  ASSUME NEW s \in Sweepers, ImageInv, ListBuilds(s), ImageTypeOK'
  PROVE  ImageInv'
  <1> USE ImageAssumption
  <1>1. /\ UNCHANGED <<image, registry, inUse, guarded, checked>>
        /\ step[s] = "builds" /\ step'[s] = "env"
        /\ \A r \in Sweepers \ {s} : step'[r] = step[r] /\ steady'[r] = steady[r]
    BY DEF ListBuilds, NextStep, After, ImageInv, ImageTypeOK
  <1>2. checked[s] = NoImage
    BY <1>1 DEF ImageInv
  <1>3. ASSUME NEW c \in steady'[s] PROVE KnowsOf(s, c)'
    <2>1. image[c] \in registry /\ registry \subseteq Images
      BY <1>3 DEF ListBuilds, ImageInv, ImageTypeOK
    <2>2. "env" \notin ListedBefore(c)
      BY DEF ListedBefore
    <2> QED
      BY <1>1, <1>2, <2>1, <2>2 DEF KnowsOf, ListedBefore
  <1>4. ASSUME NEW r \in Sweepers \ {s}, NEW c \in steady'[r] PROVE KnowsOf(r, c)'
    BY <1>1, <1>4, OtherSweepsKeepKnowing
  <1>5. ASSUME NEW r \in Sweepers PROVE (checked[r] # NoImage => step[r] = "delete")'
    BY <1>1, <1>2 DEF ImageInv
  <1> QED
    BY <1>3, <1>4, <1>5 DEF ImageInv

\* A list adds what its own consumer refers to, and forgets nothing.
LEMMA ListConsumerKeepsInv ==
  ASSUME NEW s \in Sweepers, ImageInv, ListConsumer(s), ImageTypeOK'
  PROVE  ImageInv'
  <1> USE ImageAssumption
  <1> DEFINE shown == {image[step[s]]} \ {NoImage}
  <1>1. /\ UNCHANGED <<image, registry, checked, steady>>
        /\ step[s] \in Consumers /\ step'[s] = After[step[s]]
        /\ inUse'[s] = inUse[s] \cup shown
        /\ \A r \in Sweepers \ {s} : /\ step'[r] = step[r] /\ inUse'[r] = inUse[r]
                                     /\ guarded'[r] = guarded[r]
    BY DEF ListConsumer, NextStep, ImageInv, ImageTypeOK
  <1>2. checked[s] = NoImage
    BY <1>1 DEF ImageInv, Consumers
  <1>3. \/ step[s] = "env" /\ step'[s] = "cron"
        \/ step[s] = "cron" /\ step'[s] = "pod"
        \/ step[s] = "pod" /\ step'[s] = "digests"
    BY <1>1 DEF Consumers, After
  <1>4. ASSUME NEW c \in steady'[s] PROVE KnowsOf(s, c)'
    <2>1. c \in steady[s] /\ c \in Consumers
      BY <1>1, <1>4 DEF ImageInv, ImageTypeOK
    <2>2. KnowsOf(s, c)
      BY <2>1 DEF ImageInv
    <2>3. image[c] \in Images /\ image[c] # NoImage
      BY <2>2 DEF KnowsOf
    <2>4. step'[s] \in ListedBefore(c) => step[s] \in ListedBefore(c) \/ step[s] = c
      BY <1>3, <2>1 DEF ListedBefore, Consumers
    <2>5. step'[s] \in ListedBefore(c) => image[c] \in inUse'[s]
      BY <1>1, <2>2, <2>3, <2>4 DEF KnowsOf
    <2>6. step'[s] # "delete"
      BY <1>3
    <2> QED
      BY <1>1, <1>2, <2>3, <2>5, <2>6 DEF KnowsOf, ImageInv, ImageTypeOK
  <1>5. ASSUME NEW r \in Sweepers \ {s}, NEW c \in steady'[r] PROVE KnowsOf(r, c)'
    BY <1>1, <1>5, OtherSweepsKeepKnowing
  <1>6. ASSUME NEW r \in Sweepers PROVE (checked[r] # NoImage => step[r] = "delete")'
    BY <1>1, <1>2 DEF ImageInv
  <1> QED
    BY <1>4, <1>5, <1>6 DEF ImageInv

\* The digests of what is in use.
LEMMA ResolveKeepsInv ==
  ASSUME NEW s \in Sweepers, ImageInv, ResolveInUse(s), ImageTypeOK'
  PROVE  ImageInv'
  <1> USE ImageAssumption
  <1>1. /\ UNCHANGED <<image, registry, checked, steady>>
        /\ step[s] = "digests" /\ step'[s] = "delete"
        /\ guarded'[s] = guarded[s] \cup {Digest[b] : b \in inUse[s] \cap registry}
        /\ \A r \in Sweepers \ {s} : /\ step'[r] = step[r] /\ inUse'[r] = inUse[r]
                                     /\ guarded'[r] = guarded[r]
    BY DEF ResolveInUse, NextStep, After, ImageInv, ImageTypeOK
  <1>2. checked[s] = NoImage
    BY <1>1 DEF ImageInv
  <1>3. ASSUME NEW c \in steady'[s] PROVE KnowsOf(s, c)'
    <2>1. KnowsOf(s, c)
      BY <1>1, <1>3 DEF ImageInv
    <2>2. image[c] \in inUse[s]
      BY <1>1, <2>1 DEF KnowsOf, ListedBefore
    <2>3. "delete" \notin ListedBefore(c)
      BY DEF ListedBefore
    <2>4. image[c] \in registry => Digest[image[c]] \in guarded'[s]
      BY <1>1, <2>2
    <2>5. NoImage \notin registry
      BY DEF ImageInv, ImageTypeOK
    <2> QED
      BY <1>1, <1>2, <2>1, <2>3, <2>4, <2>5 DEF KnowsOf
  <1>4. ASSUME NEW r \in Sweepers \ {s}, NEW c \in steady'[r] PROVE KnowsOf(r, c)'
    BY <1>1, <1>4, OtherSweepsKeepKnowing
  <1>5. ASSUME NEW r \in Sweepers PROVE (checked[r] # NoImage => step[r] = "delete")'
    BY <1>1, <1>2 DEF ImageInv
  <1> QED
    BY <1>3, <1>4, <1>5 DEF ImageInv

\* A target that is still in the registry is let through only if its digest is not one of
\* those in use; those include the digest of every steady consumer.
LEMMA CheckKeepsInv ==
  ASSUME NEW s \in Sweepers, ImageInv, CheckTarget(s), ImageTypeOK'
  PROVE  ImageInv'
  <1> USE ImageAssumption
  <1>1. /\ UNCHANGED <<image, registry, step, inUse, guarded, steady>>
        /\ step[s] = "delete" /\ checked[s] = NoImage
        /\ \A r \in Sweepers \ {s} : checked'[r] = checked[r]
    BY DEF CheckTarget, ImageInv, ImageTypeOK
  <1>2. checked'[s] \in registry => Digest[checked'[s]] \notin guarded[s]
    <2>1. NoImage \notin registry
      BY DEF ImageInv, ImageTypeOK
    <2> QED
      BY <1>1, <2>1 DEF CheckTarget, ImageInv, ImageTypeOK
  <1>3. ASSUME NEW c \in steady'[s] PROVE KnowsOf(s, c)'
    <2>1. KnowsOf(s, c)
      BY <1>1, <1>3 DEF ImageInv
    <2>2. image[c] \in registry => Digest[image[c]] \in guarded[s]
      BY <1>1, <2>1 DEF KnowsOf
    <2> QED
      BY <1>1, <1>2, <2>1, <2>2 DEF KnowsOf
  <1>4. ASSUME NEW r \in Sweepers \ {s}, NEW c \in steady'[r] PROVE KnowsOf(r, c)'
    BY <1>1, <1>4, OtherSweepsKeepKnowing
  <1>5. ASSUME NEW r \in Sweepers PROVE (checked[r] # NoImage => step[r] = "delete")'
    BY <1>1 DEF ImageInv
  <1> QED
    BY <1>3, <1>4, <1>5 DEF ImageInv

\* A deletion only takes from the registry.
LEMMA DeleteKeepsInv ==
  ASSUME NEW s \in Sweepers, ImageInv, DeleteTarget(s), ImageTypeOK'
  PROVE  ImageInv'
  <1> USE ImageAssumption
  <1>1. /\ UNCHANGED <<image, step, inUse, guarded, steady>>
        /\ registry' \subseteq registry /\ checked'[s] = NoImage
        /\ \A r \in Sweepers \ {s} : checked'[r] = checked[r]
    BY DEF DeleteTarget, ImageInv, ImageTypeOK
  <1>2. ASSUME NEW c \in steady'[s] PROVE KnowsOf(s, c)'
    <2>1. KnowsOf(s, c)
      BY <1>1, <1>2 DEF ImageInv
    <2>2. NoImage \notin registry'
      BY DEF ImageTypeOK
    <2> QED
      BY <1>1, <2>1, <2>2 DEF KnowsOf
  <1>3. ASSUME NEW r \in Sweepers \ {s}, NEW c \in steady'[r] PROVE KnowsOf(r, c)'
    BY <1>1, <1>3, OtherSweepsKeepKnowing
  <1>4. ASSUME NEW r \in Sweepers PROVE (checked[r] # NoImage => step[r] = "delete")'
    BY <1>1 DEF ImageInv
  <1> QED
    BY <1>2, <1>3, <1>4 DEF ImageInv

\* The end of a sweep: nothing is steady for it, nothing is left to delete.
LEMMA EndKeepsInv ==
  ASSUME NEW s \in Sweepers, ImageInv, EndSweep(s), ImageTypeOK'
  PROVE  ImageInv'
  <1>1. /\ UNCHANGED <<image, registry>>
        /\ steady'[s] = {} /\ checked'[s] = NoImage
        /\ \A r \in Sweepers \ {s} :
             /\ step'[r] = step[r] /\ inUse'[r] = inUse[r] /\ guarded'[r] = guarded[r]
             /\ checked'[r] = checked[r] /\ steady'[r] = steady[r]
    BY DEF EndSweep, ImageInv, ImageTypeOK
  <1>2. ASSUME NEW r \in Sweepers \ {s}, NEW c \in steady'[r] PROVE KnowsOf(r, c)'
    BY <1>1, <1>2, OtherSweepsKeepKnowing
  <1>3. ASSUME NEW r \in Sweepers PROVE (checked[r] # NoImage => step[r] = "delete")'
    BY <1>1 DEF ImageInv
  <1> QED
    BY <1>1, <1>2, <1>3 DEF ImageInv

-----------------------------------------------------------------------------

LEMMA ImageInvStep == ImageInv /\ [ImageNext]_ImageVars => ImageInv'
  <1> SUFFICES ASSUME ImageInv, [ImageNext]_ImageVars PROVE ImageInv'
    OBVIOUS
  <1>1. ImageTypeOK'
    BY TypeStep DEF ImageInv
  <1>2. ASSUME Unswept PROVE ImageInv'
    BY <1>1, <1>2 DEF Unswept, SweepVars, ImageInv, KnowsOf
  <1>3. ASSUME NEW b \in Images, PushImage(b) PROVE ImageInv'
    BY <1>1, <1>3, PushKeepsInv
  <1>4. ASSUME NEW b \in Images, PromoteImage(b) PROVE ImageInv'
    BY <1>1, <1>4, ReferKeepsInv DEF PromoteImage, Consumers, Tags
  <1>5. ASSUME NEW b \in Images, StampDone(b) \/ CollectBuild(b) \/ RollbackChecks(b)
        PROVE  ImageInv'
    BY <1>2, <1>5 DEF StampDone, CollectBuild, RollbackChecks, Unswept
  <1>6. CASE RollOut
    <2>1. image["env"] \in Tags
      BY DEF ImageInv, ImageTypeOK, Consumers
    <2> QED
      BY <1>1, <1>6, <2>1, ReferKeepsInv DEF RollOut, Consumers
  <1>7. CASE SyncCron
    <2>1. image["env"] \in Tags
      BY DEF ImageInv, ImageTypeOK, Consumers
    <2> QED
      BY <1>1, <1>7, <2>1, ReferKeepsInv DEF SyncCron, Consumers
  <1>8. CASE RollbackPatchesEnv
    <2>1. CASE Refer("env", chosen)
      <3>1. chosen \in Tags
        BY DEF ImageInv, ImageTypeOK
      <3> QED
        BY <1>1, <1>8, <2>1, <3>1, ReferKeepsInv DEF RollbackPatchesEnv, Consumers
    <2>2. CASE UNCHANGED <<image, steady>>
      BY <1>2, <1>8, <2>2 DEF RollbackPatchesEnv, Unswept
    <2> QED
      BY <1>8, <2>1, <2>2 DEF RollbackPatchesEnv
  <1>9. ASSUME NEW s \in Sweepers,
               \/ ListBuilds(s) \/ ListConsumer(s) \/ ResolveInUse(s)
               \/ CheckTarget(s) \/ DeleteTarget(s) \/ EndSweep(s)
        PROVE  ImageInv'
    BY <1>1, <1>9, ListBuildsKeepsInv, ListConsumerKeepsInv, ResolveKeepsInv, CheckKeepsInv,
       DeleteKeepsInv, EndKeepsInv
  <1>10. CASE UNCHANGED ImageVars
    BY <1>2, <1>10 DEF ImageVars, Unswept
  <1> QED
    BY <1>3, <1>4, <1>5, <1>6, <1>7, <1>8, <1>9, <1>10 DEF ImageNext

LEMMA ImageInvHolds == ImageSpec => []ImageInv
  BY ImageInvInit, ImageInvStep, PTL DEF ImageSpec

\* The fields that SweepImagesPastWindow, the retention of the builds and their records
\* keep are always of their types.
THEOREM ImageTypeCorrect == ImageSpec => []ImageTypeOK
  <1>1. ImageInv => ImageTypeOK
    BY DEF ImageInv
  <1> QED
    BY <1>1, ImageInvHolds, PTL

\* SweepImagesPastWindow deletes no image that was in use when it began and has been since:
\* for any number of builds, replicas and sweeps, and any digests they share.
THEOREM SteadyImagesStayHolds == ImageSpec => SteadyImagesStay
  <1> DEFINE Kept ==
        \A s \in Sweepers, c \in Consumers :
          c \in steady[s] /\ image[c] \in registry /\ checked[s] # NoImage
              /\ checked'[s] = NoImage => image[c] \in registry'
  <1>1. ImageInv /\ [ImageNext]_ImageVars => [Kept]_ImageVars
    <2> SUFFICES ASSUME ImageInv, ImageNext, NEW s \in Sweepers, NEW c \in Consumers,
                        c \in steady[s], image[c] \in registry, checked[s] # NoImage,
                        checked'[s] = NoImage
                 PROVE  image[c] \in registry'
      OBVIOUS
    <2>1. KnowsOf(s, c)
      BY DEF ImageInv
    <2>2. CASE DeleteTarget(s)
      <3>1. checked[s] \in registry => image[c] \in {b \in registry : Digest[b] # Digest[checked[s]]}
        BY <2>1 DEF KnowsOf
      <3> QED
        BY <2>2, <3>1 DEF DeleteTarget
    <2>3. ASSUME NEW r \in Sweepers \ {s}, DeleteTarget(r) PROVE image[c] \in registry'
      BY <2>3 DEF DeleteTarget, ImageInv, ImageTypeOK
    <2>4. CASE \A r \in Sweepers : ~DeleteTarget(r)
      BY <2>4 DEF ImageNext, PushImage, PromoteImage, StampDone, CollectBuild, RollOut, SyncCron,
         RollbackChecks, RollbackPatchesEnv, ListBuilds, ListConsumer, ResolveInUse, CheckTarget,
         EndSweep
    <2> QED
      BY <2>2, <2>3, <2>4
  <1> QED
    BY <1>1, ImageInvHolds, PTL DEF ImageSpec, SteadyImagesStay
==============================================================================
