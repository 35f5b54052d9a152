-------------------------- MODULE PromotionGateProofs --------------------------
(***************************************************************************)
(* PromotionGate, for any builds, services and pushes: its types, and that *)
(* no service of a commit goes out before the others are settled.          *)
(***************************************************************************)
EXTENDS PromotionGate, WellFoundedInduction, TLAPS

-----------------------------------------------------------------------------
(* The inductive invariant *)

\* What a sibling takes for green, or for skipped, has been so: a hold for the wave is only
\* written of a build that is green and scanned.
ShowsSettled(c) == c.phase \in {"succeeded"} \cup (Cancelled \ {"red"}) \/ c.hold = "wave"

SettledInv ==
    \A b \in Builds :
        /\ ShowsSettled(cr[b]) => b \in settled
        /\ ShowsSettled(seen.cr[b]) => b \in settled
        /\ pc[b] = "promote" => b \in settled

\* A build whose CI failed stays as it is: its Job never ran, so no run of it begins.
RejectedInv ==
    \A b \in Builds :
        /\ Rejected(b) => job[b] = "active"
        /\ seen.cr[b].phase = "red" => Rejected(b)
        /\ pc[b] # "idle" => job[b] = "green"

\* Every service that the commit had built by then has a settled build, as new or newer, or
\* a newer one that its CI rejected.
WaveIsSettled(b) ==
    \A s \in Wave(b, seen) :
      Age[s] <= Age[b] =>
        \E n \in Siblings(b, seen) :
           /\ Service[n] = Service[s] /\ Age[n] >= Age[s]
           /\ n \in settled \/ (Rejected(n) /\ n \notin Wave(b, seen))

\* A run has seen its own build, and so everything that its push made.
WaveInv ==
    \A b \in Builds :
        /\ pc[b] # "idle" => Age[b] <= seen.now
        /\ b \in Gated /\ pc[b] = "promote" => WaveIsSettled(b)

-----------------------------------------------------------------------------
(* Types *)

LEMMA FreshTyped == \A b \in Builds : Fresh(b) \in CR
  BY DEF Fresh, CR, Phases

\* A field of a CR that changes leaves it a CR.
LEMMA FieldsTyped ==
  ASSUME NEW c \in CR
  PROVE  /\ \A p \in Phases : [c EXCEPT !.phase = p] \in CR
         /\ \A h \in {"none", "scan", "wave"} : [c EXCEPT !.hold = h] \in CR
         /\ \A k \in BOOLEAN : [c EXCEPT !.cleared = k] \in CR
         /\ \A p \in Phases, h \in {"none", "scan", "wave"} :
              [c EXCEPT !.phase = p, !.hold = h] \in CR
         /\ \A h \in {"none", "scan", "wave"}, k \in BOOLEAN :
              [c EXCEPT !.hold = h, !.cleared = k] \in CR
  BY DEF CR

\* Any of these phases may be written.
LEMMA PhasesWritten ==
  {"running", "succeeded", "failed", "release-failed", "cancelled", "red", "superseded",
   "expired"} = Phases
  BY DEF Phases, NotGreen, Cancelled, ByGate

LEMMA TypeInit == Init => TypeOK
  BY FreshTyped, GateAssumption DEF Init, TypeOK

\* A build gets a CR, and its run a label.
LEMMA WritesTyped ==
  ASSUME TypeOK, NEW b \in Builds,
         \E c \in CR : cr' = [cr EXCEPT ![b] = c],
         \E l \in {"idle", "gates", "promote"} : pc' = [pc EXCEPT ![b] = l]
  PROVE  cr' \in [Builds -> CR] /\ pc' \in [Builds -> {"idle", "gates", "promote"}]
<1>1. cr \in [Builds -> CR] /\ pc \in [Builds -> {"idle", "gates", "promote"}]
  BY DEF TypeOK
<1>. QED BY <1>1

\* What a hold writes: the phase is left alone.
LEMMA NoteHoldWrites ==
  ASSUME TypeOK, NEW b \in Builds, NEW reason \in {"scan", "wave"}, NEW cleared \in BOOLEAN,
         NoteHold(b, reason, cleared)
  PROVE  /\ \E c \in CR : /\ cr' = [cr EXCEPT ![b] = c]
                         /\ c.phase = cr[b].phase
                         /\ c.hold \in {cr[b].hold, reason}
         /\ pc' = [pc EXCEPT ![b] = "idle"]
         /\ mine' \in [Builds -> CR]
         /\ old' \subseteq Builds
         /\ faults' \in 0..MaxFaults
<1>1. cr[b] \in CR /\ cr[b].cleared \in BOOLEAN
  BY DEF TypeOK, CR
<1>2. mine' \in [Builds -> CR] /\ pc' = [pc EXCEPT ![b] = "idle"]
  BY FreshTyped DEF NoteHold, Return, Goto, TypeOK
<1>3. old' \subseteq Builds /\ faults' \in 0..MaxFaults
  BY GateAssumption DEF NoteHold, Fault, TypeOK
<1>. DEFINE k == cr[b].cleared \/ cleared
<1>4. CASE cr' = [cr EXCEPT ![b].cleared = @ \/ cleared]
  <2>. DEFINE c == [cr[b] EXCEPT !.cleared = k]
  <2>1. c \in CR /\ c.phase = cr[b].phase /\ c.hold = cr[b].hold
    BY <1>1 DEF CR
  <2>2. cr' = [cr EXCEPT ![b] = c]
    BY <1>4
  <2>. QED BY <1>2, <1>3, <2>1, <2>2
<1>5. CASE cr' = [cr EXCEPT ![b].hold = reason, ![b].cleared = @ \/ cleared]
  <2>. DEFINE c == [cr[b] EXCEPT !.hold = reason, !.cleared = k]
  <2>1. c \in CR /\ c.phase = cr[b].phase /\ c.hold = reason
    BY <1>1 DEF CR
  <2>2. cr' = [cr EXCEPT ![b] = c]
    BY <1>5 DEF TypeOK
  <2>. QED BY <1>2, <1>3, <2>1, <2>2
<1>6. CASE cr' = cr
  <2>1. cr' = [cr EXCEPT ![b] = cr[b]]
    BY <1>6 DEF TypeOK
  <2>. QED BY <1>1, <1>2, <1>3, <2>1
<1>. QED BY <1>4, <1>5, <1>6 DEF NoteHold

\* PassGates takes a hold off the build, or nothing.
LEMMA PassGatesWrites ==
  ASSUME TypeOK, NEW b \in Builds, PassGates(b)
  PROVE  /\ \E c \in CR : /\ cr' = [cr EXCEPT ![b] = c]
                         /\ c.phase = cr[b].phase
                         /\ c.hold \in {cr[b].hold, "none"}
         /\ pc' = [pc EXCEPT ![b] = "promote"]
         /\ mine' \in [Builds -> CR]
         /\ faults' \in 0..MaxFaults
<1>1. cr[b] \in CR
  BY DEF TypeOK
<1>2. mine' \in [Builds -> CR] /\ pc' = [pc EXCEPT ![b] = "promote"]
  BY FreshTyped DEF PassGates, Goto, TypeOK
<1>3. faults' \in 0..MaxFaults
  BY GateAssumption DEF PassGates, Fault, TypeOK
<1>. DEFINE h == IF mine[b].hold = "none" THEN cr[b].hold ELSE "none"
            c == [cr[b] EXCEPT !.hold = h, !.cleared = TRUE]
<1>4. c \in CR /\ c.phase = cr[b].phase /\ c.hold \in {cr[b].hold, "none"}
  BY <1>1 DEF CR
<1>5. cr' = [cr EXCEPT ![b] = c] \/ cr' = [cr EXCEPT ![b] = cr[b]]
  BY DEF PassGates, TypeOK
<1>. QED BY <1>1, <1>2, <1>3, <1>4, <1>5

\* A promotion writes the phase of its build, or nothing.
LEMMA PromoteWrites ==
  ASSUME TypeOK, NEW b \in Builds, Promote(b)
  PROVE  \E c \in CR : cr' = [cr EXCEPT ![b] = c]
<1>1. cr[b] \in CR /\ cr = [cr EXCEPT ![b] = cr[b]]
  BY DEF TypeOK
<1>2. cr' = cr \/ \E p \in Phases : cr' = [cr EXCEPT ![b].phase = p]
  <2>1. {"succeeded"} \cup (IF b \in Fragile THEN NotGreen ELSE {}) \subseteq Phases
    BY PhasesWritten DEF NotGreen
  <2>. QED BY <2>1 DEF Promote
<1>3. ASSUME NEW p \in Phases, cr' = [cr EXCEPT ![b].phase = p]
      PROVE  \E c \in CR : cr' = [cr EXCEPT ![b] = c]
  <2>1. [cr[b] EXCEPT !.phase = p] \in CR
    BY <1>1, FieldsTyped
  <2>2. cr' = [cr EXCEPT ![b] = [cr[b] EXCEPT !.phase = p]]
    BY <1>3
  <2>. QED BY <2>1, <2>2
<1>. QED BY <1>1, <1>2, <1>3

LEMMA TypeStep == TypeOK /\ [Next]_vars => TypeOK'
<1>. SUFFICES ASSUME TypeOK, [Next]_vars PROVE TypeOK'
  OBVIOUS
<1>1. CASE UNCHANGED vars
  BY <1>1 DEF vars, TypeOK
<1>2. CASE Push
  BY <1>2 DEF Push, TypeOK
<1>3. CASE Sync
  BY <1>3 DEF Sync, TypeOK
<1>4. ASSUME NEW b \in Builds, Start(b) PROVE TypeOK'
  BY <1>4 DEF Start, Goto, TypeOK
<1>5. ASSUME NEW b \in Builds, ScanPending(b) PROVE TypeOK'
  <2>1. NoteHold(b, "scan", FALSE)
    BY <1>5 DEF ScanPending
  <2>2. /\ cr' \in [Builds -> CR] /\ pc' \in [Builds -> {"idle", "gates", "promote"}]
        /\ mine' \in [Builds -> CR] /\ old' \subseteq Builds /\ faults' \in 0..MaxFaults
    BY <2>1, NoteHoldWrites, WritesTyped
  <2>. QED BY <1>5, <2>2 DEF ScanPending, TypeOK
<1>6. ASSUME NEW b \in Builds, ScanBlocks(b) PROVE TypeOK'
  <2>1. cr' \in [Builds -> CR]
    <3>. DEFINE c == [cr[b] EXCEPT !.phase = "failed", !.hold = "none"]
    <3>1. c \in CR
      BY FieldsTyped, PhasesWritten DEF TypeOK
    <3>2. cr' = [cr EXCEPT ![b] = c]
      BY <1>6 DEF ScanBlocks, TypeOK
    <3>. QED BY <3>1, <3>2 DEF TypeOK
  <2>. QED BY <1>6, <2>1, FreshTyped DEF ScanBlocks, Return, Goto, TypeOK
<1>7. ASSUME NEW b \in Builds, HoldForWave(b) PROVE TypeOK'
  <2>1. NoteHold(b, "wave", TRUE)
    BY <1>7 DEF HoldForWave
  <2>2. /\ cr' \in [Builds -> CR] /\ pc' \in [Builds -> {"idle", "gates", "promote"}]
        /\ mine' \in [Builds -> CR] /\ old' \subseteq Builds /\ faults' \in 0..MaxFaults
    BY <2>1, NoteHoldWrites, WritesTyped
  <2>. QED BY <1>7, <2>2 DEF HoldForWave, TypeOK
<1>8. ASSUME NEW b \in Builds, StampHeld(b) PROVE TypeOK'
  <2>1. cr' \in [Builds -> CR]
    BY <1>8 DEF StampHeld, TypeOK, CR, Phases, Cancelled, ByGate
  <2>. QED BY <1>8, <2>1, FreshTyped DEF StampHeld, Return, Goto, TypeOK
<1>9. ASSUME NEW b \in Builds, PassGates(b) PROVE TypeOK'
  <2>1. /\ cr' \in [Builds -> CR] /\ pc' \in [Builds -> {"idle", "gates", "promote"}]
        /\ mine' \in [Builds -> CR] /\ faults' \in 0..MaxFaults
    <3>1. /\ \E c \in CR : cr' = [cr EXCEPT ![b] = c]
          /\ pc' = [pc EXCEPT ![b] = "promote"]
          /\ mine' \in [Builds -> CR] /\ faults' \in 0..MaxFaults
      BY <1>9, PassGatesWrites
    <3>. QED BY <3>1, WritesTyped
  <2>. QED BY <1>9, <2>1 DEF PassGates, TypeOK
<1>10. ASSUME NEW b \in Builds, Promote(b) PROVE TypeOK'
  <2>1. cr' \in [Builds -> CR]
    BY <1>10, PromoteWrites DEF TypeOK
  <2>2. faults' \in 0..MaxFaults
    BY <1>10, GateAssumption DEF Promote, Fault, TypeOK
  <2>. QED BY <1>10, <2>1, <2>2, FreshTyped DEF Promote, Return, Goto, TypeOK
<1>11. ASSUME NEW b \in Builds, JobSucceeds(b) PROVE TypeOK'
  BY <1>11 DEF JobSucceeds, TypeOK
<1>12. ASSUME NEW b \in Builds, JobFails(b) PROVE TypeOK'
  BY <1>12, FieldsTyped, PhasesWritten DEF JobFails, TypeOK
<1>13. ASSUME NEW b \in Builds, CIFails(b) PROVE TypeOK'
  BY <1>13, FieldsTyped, PhasesWritten DEF CIFails, TypeOK
<1>14. ASSUME NEW b \in Builds, Cancel(b) PROVE TypeOK'
  <2>1. cr' \in [Builds -> CR]
    <3>. DEFINE c == [cr[b] EXCEPT !.phase = "cancelled", !.hold = "none"]
    <3>1. c \in CR
      BY FieldsTyped, PhasesWritten DEF TypeOK
    <3>2. cr' = [cr EXCEPT ![b] = c]
      BY <1>14 DEF Cancel, TypeOK
    <3>. QED BY <3>1, <3>2 DEF TypeOK
  <2>. QED BY <1>14, <2>1 DEF Cancel, TypeOK
<1>15. ASSUME NEW b \in Builds, HoldAges(b) PROVE TypeOK'
  BY <1>15 DEF HoldAges, TypeOK
<1>. QED
  BY <1>1, <1>2, <1>3, <1>4, <1>5, <1>6, <1>7, <1>8, <1>9, <1>10, <1>11, <1>12, <1>13,
     <1>14, <1>15 DEF Next, RunStep

\* Every variable of the gates stays in its type, for any builds and pushes; above all, the
\* informer never shows a push that has not happened.
THEOREM GateTypeCorrect == Spec => []TypeOK
<1>. QED BY TypeInit, TypeStep, PTL DEF Spec

-----------------------------------------------------------------------------
(* What shows as green has been so *)

\* A step that leaves the informer alone and writes at most one build.
LEMMA SettledKept ==
  ASSUME TypeOK, SettledInv, settled \subseteq settled', seen' = seen,
         NEW b \in Builds, NEW c \in CR, cr' = [cr EXCEPT ![b] = c],
         ShowsSettled(c) => b \in settled',
         \A d \in Builds : pc'[d] = "promote" => pc[d] = "promote" \/ d \in settled'
  PROVE  SettledInv'
<1>. SUFFICES ASSUME NEW d \in Builds
              PROVE  /\ ShowsSettled(cr'[d]) => d \in settled'
                     /\ ShowsSettled(seen'.cr[d]) => d \in settled'
                     /\ pc'[d] = "promote" => d \in settled'
  BY DEF SettledInv
<1>1. cr'[d] = IF d = b THEN c ELSE cr[d]
  BY DEF TypeOK
<1>. QED BY <1>1 DEF SettledInv

\* Most runs end, or leave the build as it is.
LEMMA SettledStep ==
  ASSUME TypeOK, SettledInv, [Next]_vars
  PROVE  SettledInv' /\ settled \subseteq settled'
<1>0. cr \in [Builds -> CR] /\ pc \in [Builds -> {"idle", "gates", "promote"}]
  BY DEF TypeOK
<1>1. CASE UNCHANGED <<cr, seen, settled, pc>>
  BY <1>1 DEF SettledInv
<1>2. CASE Sync
  BY <1>2 DEF Sync, SettledInv
<1>3. ASSUME NEW b \in Builds, Start(b) PROVE SettledInv' /\ settled \subseteq settled'
  BY <1>0, <1>3 DEF Start, Goto, SettledInv
<1>4. ASSUME NEW b \in Builds, NEW reason \in {"scan", "wave"}, NEW cleared \in BOOLEAN,
             NoteHold(b, reason, cleared), UNCHANGED seen,
             settled \subseteq settled', reason = "wave" => b \in settled'
      PROVE  SettledInv'
  <2>1. PICK c \in CR : /\ cr' = [cr EXCEPT ![b] = c]
                        /\ c.phase = cr[b].phase
                        /\ c.hold \in {cr[b].hold, reason}
    BY <1>4, NoteHoldWrites
  <2>2. ShowsSettled(c) => b \in settled'
    BY <1>4, <2>1 DEF ShowsSettled, SettledInv
  <2>3. \A d \in Builds : pc'[d] = "promote" => pc[d] = "promote"
    BY <1>0, <1>4 DEF NoteHold, Return, Goto
  <2>. QED BY <1>4, <2>1, <2>2, <2>3, SettledKept
<1>5. ASSUME NEW b \in Builds, ScanPending(b) PROVE SettledInv' /\ settled \subseteq settled'
  BY <1>4, <1>5 DEF ScanPending
<1>6. ASSUME NEW b \in Builds, ScanBlocks(b) PROVE SettledInv' /\ settled \subseteq settled'
  <2>. DEFINE c == [cr[b] EXCEPT !.phase = "failed", !.hold = "none"]
  <2>1. c \in CR /\ c.phase = "failed" /\ c.hold = "none"
    <3>1. c \in CR
      BY <1>0, FieldsTyped, PhasesWritten
    <3>. QED BY <1>0, <3>1 DEF CR
  <2>2. cr' = [cr EXCEPT ![b] = c]
    BY <1>0, <1>6 DEF ScanBlocks
  <2>3. ~ShowsSettled(c)
    BY <2>1 DEF ShowsSettled, Cancelled, ByGate
  <2>4. \A d \in Builds : pc'[d] = "promote" => pc[d] = "promote"
    BY <1>0, <1>6 DEF ScanBlocks, Return, Goto
  <2>. QED BY <1>6, <2>1, <2>2, <2>3, <2>4, SettledKept DEF ScanBlocks
<1>7. ASSUME NEW b \in Builds, HoldForWave(b) PROVE SettledInv' /\ settled \subseteq settled'
  BY <1>4, <1>7 DEF HoldForWave
<1>8. ASSUME NEW b \in Builds, StampHeld(b) PROVE SettledInv' /\ settled \subseteq settled'
  <2>1. PICK c \in CR : cr' = [cr EXCEPT ![b] = c]
    BY <1>8, PhasesWritten DEF StampHeld, CR, ByGate
  <2>2. \A d \in Builds : pc'[d] = "promote" => pc[d] = "promote"
    BY <1>0, <1>8 DEF StampHeld, Return, Goto
  <2>3. settled \subseteq settled' /\ b \in settled' /\ seen' = seen
    BY <1>8 DEF StampHeld
  <2>. QED BY <2>1, <2>2, <2>3, SettledKept
<1>9. ASSUME NEW b \in Builds, PassGates(b) PROVE SettledInv' /\ settled \subseteq settled'
  <2>1. PICK c \in CR : cr' = [cr EXCEPT ![b] = c]
    BY <1>9, PassGatesWrites
  <2>2. settled \subseteq settled' /\ b \in settled' /\ seen' = seen
    BY <1>9 DEF PassGates
  <2>3. \A d \in Builds : pc'[d] = "promote" => pc[d] = "promote" \/ d = b
    BY <1>0, <1>9 DEF PassGates, Goto
  <2>. QED BY <2>1, <2>2, <2>3, SettledKept
<1>10. ASSUME NEW b \in Builds, Promote(b) PROVE SettledInv' /\ settled \subseteq settled'
  <2>1. PICK c \in CR : cr' = [cr EXCEPT ![b] = c]
    BY <1>10, PromoteWrites
  <2>2. settled' = settled /\ seen' = seen /\ b \in settled
    BY <1>10 DEF Promote, SettledInv
  <2>3. \A d \in Builds : pc'[d] = "promote" => pc[d] = "promote"
    BY <1>0, <1>10 DEF Promote, Return, Goto
  <2>. QED BY <2>1, <2>2, <2>3, SettledKept
<1>11. ASSUME NEW b \in Builds, JobFails(b) PROVE SettledInv' /\ settled \subseteq settled'
  <2>. DEFINE c == [cr[b] EXCEPT !.phase = "failed"]
  <2>1. c \in CR /\ c.phase = "failed" /\ c.hold = cr[b].hold
    <3>1. c \in CR
      BY <1>0, FieldsTyped, PhasesWritten
    <3>. QED BY <1>0, <3>1 DEF CR
  <2>2. cr' = [cr EXCEPT ![b] = c] /\ UNCHANGED <<seen, settled, pc>>
    BY <1>0, <1>11 DEF JobFails
  <2>3. ShowsSettled(c) => b \in settled
    BY <2>1 DEF ShowsSettled, SettledInv, Cancelled, ByGate
  <2>. QED BY <2>1, <2>2, <2>3, SettledKept
<1>12. ASSUME NEW b \in Builds, Cancel(b) PROVE SettledInv' /\ settled \subseteq settled'
  <2>1. cr' = [cr EXCEPT ![b] = [cr[b] EXCEPT !.phase = "cancelled", !.hold = "none"]]
    BY <1>0, <1>12 DEF Cancel
  <2>2. PICK c \in CR : cr' = [cr EXCEPT ![b] = c]
    BY <1>0, <2>1, FieldsTyped, PhasesWritten
  <2>3. settled' = settled \cup {b} /\ UNCHANGED <<seen, pc>>
    BY <1>12 DEF Cancel
  <2>. QED BY <2>2, <2>3, SettledKept
<1>14. ASSUME NEW b \in Builds, CIFails(b) PROVE SettledInv' /\ settled \subseteq settled'
  <2>. DEFINE c == [cr[b] EXCEPT !.phase = "red"]
  <2>1. c \in CR /\ c.phase = "red" /\ c.hold = cr[b].hold
    <3>1. c \in CR
      BY <1>0, FieldsTyped, PhasesWritten
    <3>. QED BY <1>0, <3>1 DEF CR
  <2>2. cr' = [cr EXCEPT ![b] = c] /\ UNCHANGED <<seen, settled, pc>>
    BY <1>0, <1>14 DEF CIFails
  <2>3. ShowsSettled(c) => b \in settled
    BY <2>1 DEF ShowsSettled, SettledInv
  <2>. QED BY <2>1, <2>2, <2>3, SettledKept
<1>13. UNCHANGED vars \/ Push \/ (\E b \in Builds : JobSucceeds(b) \/ HoldAges(b))
         => UNCHANGED <<cr, seen, settled, pc>>
  BY DEF vars, Push, JobSucceeds, HoldAges
<1>. QED
  BY <1>1, <1>2, <1>3, <1>5, <1>6, <1>7, <1>8, <1>9, <1>10, <1>11, <1>12, <1>13, <1>14
     DEF Next, RunStep, Sync

-----------------------------------------------------------------------------
(* A rejected build stays rejected *)

LEMMA RejectedStep ==
  ASSUME TypeOK, RejectedInv, [Next]_vars
  PROVE  RejectedInv' /\ \A b \in Builds : Rejected(b) => Rejected(b)'
<1>0. /\ cr \in [Builds -> CR] /\ pc \in [Builds -> {"idle", "gates", "promote"}]
      /\ job \in [Builds -> {"active", "green"}]
  BY DEF TypeOK
<1>. USE DEF RejectedInv, Rejected
\* A write to a build that is not rejected.
<1>1. ASSUME NEW b \in Builds, ~Rejected(b), UNCHANGED <<seen, job>>,
             NEW c \in CR, cr' = [cr EXCEPT ![b] = c], c.phase = "red" => job[b] = "active",
             \A d \in Builds : pc'[d] # "idle" => pc[d] # "idle"
      PROVE  RejectedInv' /\ \A d \in Builds : Rejected(d) => Rejected(d)'
  <2>1. \A d \in Builds : cr'[d] = IF d = b THEN c ELSE cr[d]
    BY <1>0, <1>1
  <2>. QED BY <1>1, <2>1
<1>2. CASE UNCHANGED <<cr, seen, job, pc>>
  BY <1>2
<1>3. CASE Sync
  BY <1>3 DEF Sync
<1>4. ASSUME NEW b \in Builds, Start(b)
      PROVE  RejectedInv' /\ \A d \in Builds : Rejected(d) => Rejected(d)'
  BY <1>0, <1>4 DEF Start, Goto
\* A run has a Job that was green, so its build is not rejected.
<1>5. ASSUME NEW b \in Builds, pc[b] # "idle" PROVE ~Rejected(b) /\ cr[b].phase # "red"
  BY <1>5
<1>6. ASSUME NEW b \in Builds, NEW reason \in {"scan", "wave"}, NEW cleared \in BOOLEAN,
             pc[b] = "gates", NoteHold(b, reason, cleared), UNCHANGED <<seen, job>>
      PROVE  RejectedInv' /\ \A d \in Builds : Rejected(d) => Rejected(d)'
  <2>1. PICK c \in CR : cr' = [cr EXCEPT ![b] = c] /\ c.phase = cr[b].phase
    BY <1>6, NoteHoldWrites
  <2>2. pc' = [pc EXCEPT ![b] = "idle"]
    BY <1>6, NoteHoldWrites
  <2>3. \A d \in Builds : pc'[d] # "idle" => pc[d] # "idle"
    BY <1>0, <2>2
  <2>4. ~Rejected(b) /\ c.phase # "red"
    BY <1>5, <1>6, <2>1
  <2>. QED BY <1>1, <1>6, <2>1, <2>3, <2>4
<1>7. ASSUME NEW b \in Builds, ScanPending(b) \/ HoldForWave(b)
      PROVE  RejectedInv' /\ \A d \in Builds : Rejected(d) => Rejected(d)'
  BY <1>6, <1>7 DEF ScanPending, HoldForWave
<1>8. ASSUME NEW b \in Builds, PassGates(b)
      PROVE  RejectedInv' /\ \A d \in Builds : Rejected(d) => Rejected(d)'
  <2>1. PICK c \in CR : cr' = [cr EXCEPT ![b] = c] /\ c.phase = cr[b].phase
    BY <1>8, PassGatesWrites
  <2>2. pc[b] = "gates" /\ pc' = [pc EXCEPT ![b] = "promote"] /\ UNCHANGED <<seen, job>>
    BY <1>8 DEF PassGates, Goto
  <2>3. \A d \in Builds : pc'[d] # "idle" => pc[d] # "idle"
    BY <1>0, <2>2
  <2>4. ~Rejected(b) /\ c.phase # "red"
    BY <1>5, <2>1, <2>2
  <2>. QED BY <1>1, <2>1, <2>2, <2>3, <2>4
\* The other steps of a run end it, with a phase of their own.
<1>9. ASSUME NEW b \in Builds, ScanBlocks(b) \/ StampHeld(b) \/ Promote(b)
      PROVE  RejectedInv' /\ \A d \in Builds : Rejected(d) => Rejected(d)'
  <2>1. pc[b] # "idle" /\ pc' = [pc EXCEPT ![b] = "idle"] /\ UNCHANGED <<seen, job>>
    BY <1>9 DEF ScanBlocks, StampHeld, Promote, Return, Goto
  <2>2. \A d \in Builds : pc'[d] # "idle" => pc[d] # "idle"
    BY <1>0, <2>1
  <2>3. ~Rejected(b) /\ cr[b].phase # "red"
    BY <1>5, <2>1
  <2>4. \E c : cr' = [cr EXCEPT ![b] = c] /\ c.phase # "red"
    <3>1. CASE ScanBlocks(b)
      <4>. DEFINE c == [cr[b] EXCEPT !.phase = "failed", !.hold = "none"]
      <4>1. cr' = [cr EXCEPT ![b] = c] /\ c.phase # "red"
        BY <1>0, <3>1 DEF ScanBlocks, CR
      <4>. QED BY <4>1
    <3>2. CASE StampHeld(b)
      BY <3>2 DEF StampHeld, ByGate
    <3>3. CASE Promote(b)
      <4>1. cr' = cr \/ \E p \in {"succeeded"} \cup NotGreen : cr' = [cr EXCEPT ![b].phase = p]
        BY <3>3 DEF Promote
      <4>2. CASE cr' = cr
        BY <1>0, <2>3, <4>2
      <4>3. ASSUME NEW p \in {"succeeded"} \cup NotGreen, cr' = [cr EXCEPT ![b].phase = p]
            PROVE  \E c : cr' = [cr EXCEPT ![b] = c] /\ c.phase # "red"
        <5>. DEFINE c == [cr[b] EXCEPT !.phase = p]
        <5>1. cr' = [cr EXCEPT ![b] = c] /\ c.phase = p /\ p # "red"
          BY <1>0, <4>3 DEF CR, NotGreen
        <5>. QED BY <5>1
      <4>. QED BY <4>1, <4>2, <4>3
    <3>. QED BY <1>9, <3>1, <3>2, <3>3
  <2>5. cr' \in [Builds -> CR]
    BY TypeStep DEF TypeOK
  <2>6. PICK c \in CR : cr' = [cr EXCEPT ![b] = c] /\ c.phase # "red"
    BY <1>0, <2>4, <2>5
  <2>. QED BY <1>1, <2>1, <2>2, <2>3, <2>6
<1>10. ASSUME NEW b \in Builds, JobSucceeds(b)
       PROVE  RejectedInv' /\ \A d \in Builds : Rejected(d) => Rejected(d)'
  BY <1>0, <1>10 DEF JobSucceeds
\* What is written from outside is written to a build that runs, or whose hook failed.
<1>11. ASSUME NEW b \in Builds, JobFails(b) \/ CIFails(b) \/ Cancel(b)
       PROVE  RejectedInv' /\ \A d \in Builds : Rejected(d) => Rejected(d)'
  <2>1. ~Rejected(b) /\ UNCHANGED <<seen, job, pc>>
    BY <1>11 DEF JobFails, CIFails, Cancel
  <2>2. PICK p \in {"failed", "red", "cancelled"} :
          /\ \/ cr' = [cr EXCEPT ![b] = [cr[b] EXCEPT !.phase = p]]
             \/ cr' = [cr EXCEPT ![b] = [cr[b] EXCEPT !.phase = p, !.hold = "none"]]
          /\ p = "red" => job[b] = "active"
    BY <1>0, <1>11 DEF JobFails, CIFails, Cancel
  <2>3. PICK c \in CR : cr' = [cr EXCEPT ![b] = c] /\ c.phase = p
    <3>1. p \in Phases
      BY PhasesWritten
    <3>. DEFINE here  == [cr[b] EXCEPT !.phase = p]
                there == [cr[b] EXCEPT !.phase = p, !.hold = "none"]
    <3>2. here \in CR /\ here.phase = p
      BY <1>0, <3>1 DEF CR
    <3>3. there \in CR /\ there.phase = p
      BY <1>0, <3>1 DEF CR
    <3>4. cr' = [cr EXCEPT ![b] = here] \/ cr' = [cr EXCEPT ![b] = there]
      BY <2>2
    <3>. HIDE DEF here, there
    <3>. QED BY <3>2, <3>3, <3>4
  <2>. QED BY <1>1, <2>1, <2>2, <2>3
<1>12. UNCHANGED vars \/ Push \/ (\E b \in Builds : HoldAges(b)) => UNCHANGED <<cr, seen, job, pc>>
  BY DEF vars, Push, HoldAges
<1>. QED
  BY <1>2, <1>3, <1>4, <1>7, <1>8, <1>9, <1>10, <1>11, <1>12 DEF Next, RunStep

-----------------------------------------------------------------------------
(* The wave of a build that goes out is settled *)

\* Of builds that are all as old as a moment, one is the youngest.
LEMMA Youngest ==
  ASSUME NEW S \in SUBSET Builds, NEW n \in Nat, NEW s \in S, \A x \in S : Age[x] <= n
  PROVE  \E l \in S : \A x \in S : Age[x] <= Age[l]
<1>. DEFINE R == OpToRel(<, Nat)
            T == {n - Age[x] : x \in S}
<1>1. \A x \in S : Age[x] \in Nat /\ n - Age[x] \in Nat
  BY GateAssumption
<1>2. T \subseteq Nat /\ T # {}
  BY <1>1
<1>3. \A i, j \in Nat : i < j => <<i, j>> \in R
  BY Zenon DEF OpToRel
<1>4. IsWellFoundedOn(R, Nat)
  BY NatLessThanWellFounded, Zenon
<1>. HIDE DEF R
<1>5. PICK k \in T : \A j \in T : ~(<<j, k>> \in R)
  <2>. HIDE DEF T
  <2>. QED BY <1>2, <1>4, WFMin
<1>6. PICK l \in S : k = n - Age[l]
  OBVIOUS
<1>7. ASSUME NEW x \in S PROVE Age[x] <= Age[l]
  <2>1. n - Age[x] \in T /\ n - Age[x] \in Nat /\ k \in Nat
    BY <1>1, <1>2
  <2>2. ~(n - Age[x] < k)
    BY <1>3, <1>5, <2>1
  <2>. QED BY <1>1, <1>6, <2>1, <2>2
<1>. QED BY <1>7

\* What the verdict sees of the siblings has been so.  It judges a service by its youngest
\* build of the commit, and so by one no older than any that a push made.
LEMMA ProceedsMeansSettled ==
  ASSUME TypeOK, SettledInv, RejectedInv, NEW b \in Gated, Proceeds(b, seen)
  PROVE  WaveIsSettled(b)
<1>1. SUFFICES ASSUME NEW s \in Wave(b, seen)
               PROVE  \E n \in Siblings(b, seen) :
                        /\ Service[n] = Service[s] /\ Age[n] >= Age[s]
                        /\ n \in settled \/ (Rejected(n) /\ n \notin Wave(b, seen))
  BY DEF WaveIsSettled
<1>. DEFINE S == {x \in Wave(b, seen) : Service[x] = Service[s]}
<1>2. /\ S \subseteq Builds /\ s \in S
      /\ \A x \in S : Age[x] <= seen.now /\ x \in Siblings(b, seen)
      /\ seen.now \in Nat /\ Age \in [Builds -> Nat \ {0}]
  BY GateAssumption DEF Wave, Siblings, TypeOK
<1>3. PICK l \in S : \A x \in S : Age[x] <= Age[l]
  <2>. HIDE DEF S
  <2>. QED BY <1>2, Youngest
<1>4. l \in Wave(b, seen) /\ Service[l] = Service[s] /\ IsLatest(l, Wave(b, seen))
  BY <1>3 DEF IsLatest
<1>5. l \in Builds /\ l \in Siblings(b, seen) /\ Age[l] >= Age[s]
  BY <1>2, <1>3
<1>6. \A n \in Builds : Clears(n, seen) => n \in settled \/ seen.cr[n].phase = "red"
  BY DEF Clears, HeldGreen, ShowsSettled, SettledInv
<1>7. CASE Clears(l, seen) /\ seen.cr[l].phase # "red"
  BY <1>4, <1>5, <1>6, <1>7
<1>8. CASE Forgiven(l, b, seen)
  <2>1. PICK n \in Siblings(b, seen) :
          Service[n] = Service[l] /\ Age[n] > Age[l] /\ Clears(n, seen)
    BY <1>8 DEF Forgiven
  <2>2. n \in Builds
    BY DEF Siblings
  <2>3. Age[n] >= Age[s] /\ ~(Age[n] <= Age[l])
    BY <1>2, <1>5, <2>1, <2>2
  <2>4. n \notin Wave(b, seen)
    BY <1>4, <2>1, <2>3 DEF IsLatest
  <2>5. n \in settled \/ Rejected(n)
    BY <1>6, <2>1, <2>2 DEF RejectedInv
  <2>. QED BY <1>4, <2>1, <2>3, <2>4, <2>5
<1>. QED BY <1>4, <1>7, <1>8 DEF Proceeds

\* What a build's commit had built by then is all on show: a later look only adds newer
\* builds, and what was green stays one that has been.
LEMMA WaveStaysSettled ==
  ASSUME TypeOK, NEW b \in Gated,
         Age[b] <= seen.now, WaveIsSettled(b),
         seen' = seen \/ seen'.now = now, settled \subseteq settled',
         \A d \in Builds : Rejected(d) => Rejected(d)'
  PROVE  WaveIsSettled(b)'
<1>1. SUFFICES ASSUME NEW s \in Wave(b, seen'), Age[s] <= Age[b]
               PROVE  \E n \in Siblings(b, seen') :
                        /\ Service[n] = Service[s] /\ Age[n] >= Age[s]
                        /\ n \in settled' \/ (Rejected(n)' /\ n \notin Wave(b, seen'))
  BY DEF WaveIsSettled, Wave, Siblings, SameScope, Rejected
<1>2. seen.now \in Nat /\ now \in Nat /\ seen.now <= now
  BY DEF TypeOK
<1>3. Age \in [Builds -> Nat \ {0}] /\ b \in Builds
  BY GateAssumption
<1>4. s \in Wave(b, seen)
  BY <1>1, <1>2, <1>3 DEF Wave, Siblings
<1>5. PICK n \in Siblings(b, seen) :
        /\ Service[n] = Service[s] /\ Age[n] >= Age[s]
        /\ n \in settled \/ (Rejected(n) /\ n \notin Wave(b, seen))
  BY <1>1, <1>4 DEF WaveIsSettled
<1>6. n \in Siblings(b, seen') /\ n \in Builds
  BY <1>2, <1>3, <1>5 DEF Siblings
<1>7. n \notin Wave(b, seen) => n \notin Wave(b, seen')
  BY <1>5 DEF Wave
<1>. QED BY <1>5, <1>6, <1>7

LEMMA WaveStep ==
  ASSUME TypeOK, TypeOK', SettledInv, RejectedInv, WaveInv, [Next]_vars
  PROVE  WaveInv'
<1>0. /\ pc \in [Builds -> {"idle", "gates", "promote"}]
      /\ seen.now \in Nat /\ now \in Nat /\ seen.now <= now
      /\ Age \in [Builds -> Nat \ {0}] /\ Gated \subseteq Builds
  BY GateAssumption DEF TypeOK
<1>1. settled \subseteq settled' /\ \A b \in Builds : Rejected(b) => Rejected(b)'
  BY SettledStep, RejectedStep
<1>2. seen' = seen \/ seen'.now = now
  <2>1. ASSUME NEW b \in Builds, RunStep(b) PROVE seen' = seen
    BY <2>1 DEF RunStep, Start, ScanPending, ScanBlocks, HoldForWave, StampHeld, PassGates,
                Promote
  <2>2. Sync => seen'.now = now
    BY DEF Sync
  <2>3. UNCHANGED vars \/ Push => seen' = seen
    BY DEF vars, Push
  <2>4. ASSUME NEW b \in Builds,
               JobSucceeds(b) \/ JobFails(b) \/ CIFails(b) \/ Cancel(b) \/ HoldAges(b)
        PROVE  seen' = seen
    BY <2>4 DEF JobSucceeds, JobFails, CIFails, Cancel, HoldAges
  <2>. QED BY <2>1, <2>2, <2>3, <2>4 DEF Next
\* Only a run that starts leaves "idle", and only one that passes the gates enters "promote".
<1>3. \A d \in Builds :
        /\ pc[d] = "idle" /\ pc'[d] # "idle" => Age[d] <= seen.now
        /\ pc[d] # "promote" /\ pc'[d] = "promote" => pc[d] = "gates" /\ Proceeds(d, seen)
  <2>1. CASE pc' = pc
    BY <2>1
  <2>2. ASSUME NEW b \in Builds, RunStep(b)
        PROVE  \/ Start(b) /\ pc' = [pc EXCEPT ![b] = "gates"]
               \/ PassGates(b) /\ pc' = [pc EXCEPT ![b] = "promote"]
               \/ pc' = [pc EXCEPT ![b] = "idle"]
    BY <2>2 DEF RunStep, Start, ScanPending, ScanBlocks, HoldForWave, StampHeld, PassGates,
                Promote, NoteHold, Return, Goto
  <2>3. ASSUME NEW b \in Builds, Start(b), pc' = [pc EXCEPT ![b] = "gates"] PROVE <1>3
    BY <1>0, <2>3 DEF Start
  <2>4. ASSUME NEW b \in Builds, PassGates(b), pc' = [pc EXCEPT ![b] = "promote"] PROVE <1>3
    BY <1>0, <2>4 DEF PassGates
  <2>5. ASSUME NEW b \in Builds, pc' = [pc EXCEPT ![b] = "idle"] PROVE <1>3
    BY <1>0, <2>5
  <2>6. pc' = pc \/ \E b \in Builds : RunStep(b)
    BY DEF Next, vars, Push, Sync, JobSucceeds, JobFails, CIFails, Cancel, HoldAges
  <2>. QED BY <2>1, <2>2, <2>3, <2>4, <2>5, <2>6
<1>4. ASSUME NEW d \in Builds, pc'[d] # "idle" PROVE Age[d] <= seen.now /\ Age[d] <= seen'.now
  <2>1. Age[d] <= seen.now
    BY <1>3, <1>4 DEF WaveInv
  <2>. QED BY <1>0, <1>2, <2>1
<1>5. ASSUME NEW d \in Gated, pc'[d] = "promote" PROVE WaveIsSettled(d)'
  <2>1. d \in Builds
    BY <1>0
  <2>2. WaveIsSettled(d)
    BY <1>3, <1>5, <2>1, ProceedsMeansSettled DEF WaveInv
  <2>3. Age[d] <= seen.now
    BY <1>4, <1>5, <2>1
  <2>. QED BY <1>1, <1>2, <2>2, <2>3, WaveStaysSettled
<1>. QED BY <1>4, <1>5 DEF WaveInv, WaveIsSettled, Wave, Siblings, SameScope, Rejected

\* Only a promotion makes a build succeed.
LEMMA OnlyPromoteSucceeds ==
  ASSUME TypeOK, [Next]_vars, NEW b \in Builds,
         cr[b].phase # "succeeded", cr'[b].phase = "succeeded"
  PROVE  pc[b] = "promote" /\ UNCHANGED seen
<1>0. cr \in [Builds -> CR]
  BY DEF TypeOK
<1>1. PICK d \in Builds : RunStep(d) \/ JobFails(d) \/ CIFails(d) \/ Cancel(d)
  BY DEF Next, vars, Push, Sync, JobSucceeds, HoldAges
<1>2. ASSUME NEW c, cr' = [cr EXCEPT ![d] = c], c.phase # "succeeded" \/ c.phase = cr[d].phase
      PROVE  FALSE
  BY <1>0, <1>2
<1>3. CASE NoteHold(d, "scan", FALSE)
  BY <1>2, <1>3, NoteHoldWrites
<1>4. CASE NoteHold(d, "wave", TRUE)
  BY <1>2, <1>4, NoteHoldWrites
<1>5. CASE PassGates(d)
  BY <1>2, <1>5, PassGatesWrites
<1>6. CASE ScanBlocks(d) \/ JobFails(d) \/ CIFails(d) \/ Cancel(d)
  BY <1>0, <1>6 DEF CR, ScanBlocks, JobFails, CIFails, Cancel
<1>7. CASE StampHeld(d)
  BY <1>0, <1>7 DEF StampHeld, ByGate
<1>8. CASE Start(d)
  BY <1>8 DEF Start
<1>9. CASE Promote(d)
  <2>1. d = b
    BY <1>0, <1>9 DEF Promote
  <2>. QED BY <1>9, <2>1 DEF Promote
<1>. QED
  BY <1>1, <1>3, <1>4, <1>5, <1>6, <1>7, <1>8, <1>9 DEF RunStep, ScanPending, HoldForWave

\* No service of a repository goes out before every other that the same commit rebuilt is
\* settled, whatever the informer has not shown yet, whoever finishes at the same moment,
\* and whatever is pushed or retried in between.
THEOREM AtomicWaveHolds == Spec => AtomicWave
<1>. DEFINE IInv == TypeOK /\ SettledInv /\ RejectedInv /\ WaveInv
<1>1. Init => IInv
  <2>1. ASSUME Init PROVE SettledInv /\ RejectedInv /\ WaveInv
    BY <2>1 DEF Init, SettledInv, RejectedInv, Rejected, WaveInv, ShowsSettled, Fresh,
                Cancelled, ByGate
  <2>. QED BY <2>1, TypeInit
<1>2. IInv /\ [Next]_vars => IInv'
  BY TypeStep, SettledStep, RejectedStep, WaveStep
<1>3. IInv /\ [Next]_vars =>
        [\A b \in Gated :
           cr[b].phase # "succeeded" /\ cr'[b].phase = "succeeded" =>
             \A s \in Wave(b, seen) :
               Age[s] <= Age[b] =>
                 \E n \in Siblings(b, seen) :
                    /\ Service[n] = Service[s] /\ Age[n] >= Age[s]
                    /\ n \in settled \/ (Rejected(n) /\ n \notin Wave(b, seen))]_vars
  <2>. SUFFICES ASSUME IInv, [Next]_vars, NEW b \in Gated,
                       cr[b].phase # "succeeded", cr'[b].phase = "succeeded"
                PROVE  WaveIsSettled(b)
    BY DEF WaveIsSettled
  <2>1. b \in Builds /\ pc[b] = "promote"
    BY GateAssumption, OnlyPromoteSucceeds
  <2>. QED BY <2>1 DEF WaveInv
<1>. QED BY <1>1, <1>2, <1>3, PTL DEF Spec, AtomicWave
=============================================================================
