--------------------------- MODULE BuildQueueProofs ---------------------------
(***************************************************************************)
(* What holds of BuildQueue for any builds, services and cap: a service's  *)
(* queue is served in order and builds that came in by the same door       *)
(* exclude each other, but for an older one that waited for its CI; and a  *)
(* commit that its CI rejected is never built.  None of that rests on the  *)
(* cap.  Then, that                                                        *)
(* each door keeps the cap: whatever is at work, or about to be, was       *)
(* counted by the door it comes in by: in a reservation, in admitRecent,   *)
(* or in the informer.                                                     *)
(***************************************************************************)
EXTENDS BuildQueue, FiniteSetTheorems, TLAPS

-----------------------------------------------------------------------------
(* The inductive invariant *)

\* Create gives a service's builds their turns in the order of Age.
TurnsInv ==
    /\ \A b \in QueueBuilds : live[b].state # "absent" <=> create[b] = "made"
    /\ \A b \in waits : create[b] # "new"
    /\ \A b \in CIGated : create[b] \in {"write", "made"} => b \in waits
    /\ \A b, c \in QueueBuilds :
         Service[b] = Service[c] /\ Age[b] < Age[c] /\ create[c] \in {"write", "made"}
            => create[b] \notin {"admitted", "write"}
    /\ \A b \in QueueBuilds : live[b].state = "queued" => b \in waits
    /\ \A b \in QueueBuilds : live[b].state = "done" => live[b].done

\* The informer shows an earlier moment: of one build, and of the older ones with it.
SeenInv ==
    /\ \A b \in QueueBuilds :
         /\ cached[b].state # "absent" => live[b].state # "absent"
         /\ cached[b].state = "queued" => b \in waits
         /\ cached[b].state \in {"active", "done"} => live[b].state \in {"active", "done"}
         /\ cached[b].state = "done" => live[b].done
    /\ \A b, c \in QueueBuilds :
         Service[b] = Service[c] /\ Age[b] < Age[c] /\ cached[c].state # "absent"
            /\ create[b] = "made" => cached[b].state # "absent"

\* A held gate keeps a build out of the dispatcher's hands, and without a Job.
GateInv ==
    \A b \in QueueBuilds :
        /\ b \notin CIGated => live[b].gate = "none" /\ cached[b].gate = "none"
        /\ cached[b].state # "absent" /\ cached[b].gate # "waiting" => live[b].gate = cached[b].gate
        /\ live[b].state = "absent" => job[b] = "none"
        /\ CIGateHolds(b, live) => /\ live[b].state \in {"queued", "done"}
                                   /\ cached[b].state # "active"
                                   /\ b \notin tick.queue \cup tick.pick
                                   /\ job[b] = "none"

\* A tick holds queued builds; with one of them it holds the older ones of the service,
\* but for those the informer shows started.
TickInv ==
    /\ tick.at \in {"patch", "note"} => tick.room > 0
    /\ \A b \in tick.queue \cup tick.pick : b \in waits /\ cached[b].state # "absent"
    /\ \A b \in waits \ CIGated, c \in tick.queue :
         Service[b] = Service[c] /\ Age[b] < Age[c] /\ create[b] = "made" /\ b \notin tick.queue
            => cached[b].state # "queued"

\* When a queued build is started, the older queued ones of its service are over, but for
\* those that waited for their CI.
DispatchedInOrder ==
    \A b \in waits \ CIGated, c \in waits :
        Service[b] = Service[c] /\ Age[b] < Age[c]
            /\ (c \in tick.pick \/ live[c].state = "active")
            => create[b] # "made" \/ live[b].done

\* When a Create starts its build, no other that a Create started is at work.
StartedAlone ==
    \A b, c \in QueueBuilds \ waits :
        b # c /\ Service[b] = Service[c] /\ live[c].state = "active"
            => create[b] # "write" /\ live[b].state # "active"

IInv ==
    QueueTypeOK /\ TurnsInv /\ SeenInv /\ GateInv /\ TickInv /\ DispatchedInOrder /\ StartedAlone

LEMMA InitIInv == QueueInit => IInv
<1>. SUFFICES ASSUME QueueInit PROVE IInv
  OBVIOUS
<1>1. QueueTypeOK
  BY QueueAssumption DEF QueueInit, QueueTypeOK, NoTick, CR, Absent
<1>2. TurnsInv /\ SeenInv
  BY QueueAssumption DEF QueueInit, TurnsInv, SeenInv, Absent
<1>3. GateInv /\ TickInv
  BY DEF QueueInit, GateInv, TickInv, NoTick, Absent, CIGateHolds
<1>4. DispatchedInOrder /\ StartedAlone
  BY DEF QueueInit, DispatchedInOrder, StartedAlone, NoTick, Absent
<1>. QED BY <1>1, <1>2, <1>3, <1>4 DEF IInv

-----------------------------------------------------------------------------
(* The kinds of steps *)

\* A build that exists ends, or its gate or its green mark moves on.
Evolves(b) ==
    Finish(b) \/ MarkFailed(b) \/ NoteGreen(b) \/ CIVerdict(b) \/ CancelForCI(b) \/ Cancel(b)

\* Nothing moves but slots and Jobs.
Elsewhere ==
    \/ UNCHANGED QueueVars
    \/ \E b \in QueueBuilds : Forget(b) \/ StartJob(b) \/ JobEnds(b)

LEMMA StepKinds ==
    ASSUME [QueueNext]_QueueVars
    PROVE  \/ Elsewhere
           \/ \E b \in QueueBuilds :
                Evolves(b) \/ Admit(b) \/ Check(b) \/ Write(b) \/ Refuse(b) \/ Pick(b)
           \/ List \/ Patch \/ Note \/ EndTick \/ Sync
BY DEF QueueNext, CreateStep, TickStep, EndStep, Evolves, Elsewhere

LEMMA ElsewhereFrame ==
    ASSUME Elsewhere PROVE UNCHANGED <<live, cached, create, waits, tick>>
BY DEF Elsewhere, QueueVars, Forget, StartJob, JobEnds

LEMMA EndFrame ==
    ASSUME QueueTypeOK, NEW b \in QueueBuilds, End(b)
    PROVE  /\ live'[b].state = "done" /\ live'[b].done
           /\ live'[b].gate = live[b].gate /\ live'[b].green = live[b].green
           /\ \A c \in QueueBuilds : c # b => live'[c] = live[c]
<1>. DEFINE ended == [live[b] EXCEPT !.state = "done", !.done = TRUE]
<1>1. live[b] \in CR
  BY DEF QueueTypeOK
<1>2. /\ ended.state = "done" /\ ended.done
      /\ ended.gate = live[b].gate /\ ended.green = live[b].green
  BY <1>1 DEF CR
<1>3. live' = [live EXCEPT ![b] = ended]
  BY DEF End, QueueTypeOK
<1>4. live'[b] = ended /\ \A c \in QueueBuilds : c # b => live'[c] = live[c]
  <2>. HIDE DEF ended
  <2>. QED BY <1>3 DEF QueueTypeOK
<1>. HIDE DEF ended
<1>. QED BY <1>2, <1>4

LEMMA EvolvesFrame ==
    ASSUME QueueTypeOK, SeenInv, NEW b \in QueueBuilds, Evolves(b)
    PROVE  /\ UNCHANGED <<cached, create, waits, tick>>
           /\ \A c \in QueueBuilds :
                /\ \/ live'[c].state = live[c].state /\ live'[c].done = live[c].done
                   \/ live[c].state # "absent" /\ live'[c].state = "done" /\ live'[c].done
                /\ \/ live'[c].gate = live[c].gate
                   \/ live[c].gate = "waiting" /\ live'[c].gate \in {"passed", "failed"}
                        /\ live'[c].state = live[c].state /\ cached[c].gate = "waiting"
                /\ job'[c] \in {job[c], "none"}
<1>1. CASE Finish(b) \/ MarkFailed(b)
  <2>1. End(b) /\ live[b].state # "absent" /\ UNCHANGED <<cached, create, waits, tick, job>>
    BY <1>1 DEF Finish, MarkFailed, SeenInv
  <2>. QED BY <2>1, EndFrame
<1>2. CASE NoteGreen(b)
  BY <1>2 DEF NoteGreen, QueueTypeOK, CR
<1>3. CASE CIVerdict(b)
  BY <1>3 DEF CIVerdict, QueueTypeOK, CR
<1>4. CASE CancelForCI(b) \/ Cancel(b)
  <2>1. End(b) /\ live[b].state # "absent" /\ UNCHANGED <<cached, create, waits, tick>>
    BY <1>4 DEF CancelForCI, Cancel, CancelBuild
  <2>2. job' = [job EXCEPT ![b] = "none"]
    BY <1>4 DEF CancelForCI, Cancel, CancelBuild
  <2>3. \A c \in QueueBuilds : job'[c] \in {job[c], "none"}
    BY <2>2 DEF QueueTypeOK
  <2>. QED BY <2>1, <2>3, EndFrame
<1>. QED BY <1>1, <1>2, <1>3, <1>4 DEF Evolves

\* The dispatcher's patch only gives a label, to builds that exist.
LEMMA PatchFrame ==
    ASSUME QueueTypeOK, SeenInv, TickInv, Patch
    PROVE  /\ UNCHANGED <<cached, job, create, waits>>
           /\ tick'.queue = tick.queue /\ tick'.pick = tick.pick
           /\ tick'.at = "note" /\ tick'.room = tick.room /\ tick.at = "patch"
           /\ \A b \in tick.pick : b \in QueueBuilds /\ b \in waits /\ live[b].state # "absent"
           /\ \A b \in QueueBuilds :
                /\ live'[b].state = IF b \in tick.pick THEN "active" ELSE live[b].state
                /\ live'[b].done = live[b].done
                /\ live'[b].gate = live[b].gate
<1>1. \A b \in tick.pick : b \in QueueBuilds /\ b \in waits /\ live[b].state # "absent"
  BY DEF TickInv, QueueTypeOK, SeenInv
<1>2. \A b \in QueueBuilds :
        /\ live'[b].state = IF b \in tick.pick THEN "active" ELSE live[b].state
        /\ live'[b].done = live[b].done
        /\ live'[b].gate = live[b].gate
  BY DEF Patch, QueueTypeOK, CR
<1>3. /\ tick'.queue = tick.queue /\ tick'.pick = tick.pick
      /\ tick'.at = "note" /\ tick'.room = tick.room /\ tick.at = "patch"
  BY DEF Patch, QueueTypeOK
<1>. QED BY <1>1, <1>2, <1>3 DEF Patch

-----------------------------------------------------------------------------
(* Types *)

LEMMA CountIsNat ==
    ASSUME QueueTypeOK PROVE Count \in Nat
<1>. DEFINE busy == {b \in QueueBuilds :
                       \/ cached[b].state = "active" /\ ~cached[b].done /\ ~cached[b].green
                       \/ b \in recent}
<1>1. IsFiniteSet(busy) /\ IsFiniteSet(reserved)
  BY QueueAssumption, FS_Subset DEF QueueTypeOK
<1>2. Cardinality(busy) \in Nat /\ Cardinality(reserved) \in Nat
  BY <1>1, FS_CardinalityType
<1>3. Count = Cardinality(busy) + Cardinality(reserved)
  BY DEF Count
<1>. QED BY <1>2, <1>3

LEMMA EvolvesTyped ==
    ASSUME QueueTypeOK, NEW b \in QueueBuilds, Evolves(b) PROVE live' \in [QueueBuilds -> CR]
<1>1. live[b] \in CR
  BY DEF QueueTypeOK
<1>2. CASE End(b)
  <2>1. [live[b] EXCEPT !.state = "done", !.done = TRUE] \in CR
    BY <1>1 DEF CR
  <2>. QED BY <1>2, <2>1 DEF End, QueueTypeOK
<1>3. CASE NoteGreen(b)
  <2>1. [live[b] EXCEPT !.green = TRUE] \in CR
    BY <1>1 DEF CR
  <2>. QED BY <1>3, <2>1 DEF NoteGreen, QueueTypeOK
<1>4. CASE CIVerdict(b)
  <2>1. PICK v \in {"passed", "failed"} : live' = [live EXCEPT ![b].gate = v]
    BY <1>4 DEF CIVerdict
  <2>2. [live[b] EXCEPT !.gate = v] \in CR
    BY <1>1 DEF CR
  <2>. QED BY <2>1, <2>2 DEF QueueTypeOK
<1>. QED
  BY <1>2, <1>3, <1>4
  DEF Evolves, Finish, MarkFailed, CancelForCI, Cancel, CancelBuild

LEMMA TypeStep ==
    ASSUME QueueTypeOK, TickInv, [QueueNext]_QueueVars PROVE QueueTypeOK'
<1>1. CASE UNCHANGED QueueVars
  BY <1>1 DEF QueueVars, QueueTypeOK
<1>2. ASSUME NEW b \in QueueBuilds, Admit(b) \/ Check(b) \/ Write(b) \/ Refuse(b)
      PROVE  QueueTypeOK'
  <2>1. CASE Admit(b)
    BY <2>1 DEF Admit, QueueTypeOK
  <2>2. CASE Check(b)
    BY <2>2 DEF Check, QueueTypeOK
  <2>3. CASE Write(b)
    BY <2>3 DEF Write, QueueTypeOK, CR, Absent
  <2>4. CASE Refuse(b)
    BY <2>4 DEF Refuse, QueueTypeOK
  <2>. QED BY <1>2, <2>1, <2>2, <2>3, <2>4
<1>3. ASSUME NEW b \in QueueBuilds, Forget(b) \/ StartJob(b) \/ JobEnds(b) PROVE QueueTypeOK'
  BY <1>3 DEF Forget, StartJob, JobEnds, QueueTypeOK
<1>4. ASSUME NEW b \in QueueBuilds, Evolves(b) PROVE QueueTypeOK'
  <2>1. UNCHANGED <<cached, create, waits, reserved, recent, tick>>
    BY <1>4 DEF Evolves, Finish, MarkFailed, NoteGreen, CIVerdict, CancelForCI, Cancel,
                CancelBuild
  <2>2. job' = job \/ job' = [job EXCEPT ![b] = "none"]
    BY <1>4 DEF Evolves, Finish, MarkFailed, NoteGreen, CIVerdict, CancelForCI, Cancel,
                CancelBuild
  <2>. QED BY <1>4, <2>1, <2>2, EvolvesTyped DEF QueueTypeOK
<1>5. CASE List
  <2>1. Count < Cap /\ tick'.at = "pick" /\ tick'.room = Cap - Count /\ tick'.pick = {}
    BY <1>5 DEF List
  <2>2. Cap - Count \in 0..Cap
    BY <2>1, CountIsNat, QueueAssumption
  <2>. QED BY <1>5, <2>2 DEF List, QueueTypeOK
<1>6. ASSUME NEW b \in QueueBuilds, Pick(b) PROVE QueueTypeOK'
  <2>1. UNCHANGED <<live, cached, job, create, waits, reserved, recent>>
    BY <1>6 DEF Pick
  <2>2. CASE tick' = [tick EXCEPT !.queue = @ \ Peers(b)]
    BY <2>1, <2>2 DEF QueueTypeOK
  <2>3. CASE tick' = [tick EXCEPT !.queue = @ \ Peers(b), !.at = "patch", !.pick = {b}]
    BY <2>1, <2>3 DEF QueueTypeOK
  <2>. QED BY <1>6, <2>2, <2>3 DEF Pick
<1>7. CASE Patch
  <2>1. \A r \in CR : [r EXCEPT !.state = "active"] \in CR
    BY DEF CR
  <2>2. live' \in [QueueBuilds -> CR]
    BY <1>7, <2>1 DEF Patch, QueueTypeOK
  <2>. QED BY <1>7, <2>2 DEF Patch, QueueTypeOK
<1>8. CASE Note
  <2>1. tick.room \in 0..Cap /\ tick.room > 0
    BY <1>8 DEF Note, TickInv, QueueTypeOK
  <2>2. tick.room - 1 \in 0..Cap
    BY <2>1, QueueAssumption
  <2>. QED BY <1>8, <2>2 DEF Note, QueueTypeOK
<1>9. CASE EndTick \/ Sync
  BY <1>9, QueueAssumption DEF EndTick, Sync, NoTick, QueueTypeOK
<1>. QED
  BY <1>1, <1>2, <1>3, <1>4, <1>5, <1>6, <1>7, <1>8, <1>9
  DEF QueueNext, CreateStep, TickStep, EndStep, Evolves

-----------------------------------------------------------------------------
(* Creates take turns, and the informer follows *)

\* Two builds of a service never hold its lock at once.
LEMMA LockExcludes ==
    ASSUME TurnsInv, NEW b \in QueueBuilds, NEW c \in QueueBuilds, b # c,
           Service[b] = Service[c], create[b] = "write"
    PROVE  create[c] # "write"
<1>1. Age[b] \in Nat /\ Age[c] \in Nat /\ Age[b] # Age[c]
  BY QueueAssumption
<1>2. Age[b] < Age[c] \/ Age[c] < Age[b]
  BY <1>1
<1>. QED BY <1>2 DEF TurnsInv

LEMMA TurnsStep ==
    ASSUME QueueTypeOK, TurnsInv, SeenInv, TickInv, [QueueNext]_QueueVars PROVE TurnsInv'
<1>1. CASE Elsewhere
  BY <1>1, ElsewhereFrame DEF TurnsInv
<1>2. ASSUME NEW b \in QueueBuilds, Evolves(b) PROVE TurnsInv'
  BY <1>2, EvolvesFrame DEF TurnsInv
<1>3. ASSUME NEW b \in QueueBuilds, Admit(b) PROVE TurnsInv'
  <2>1. waits \subseteq waits' /\ waits' \subseteq waits \cup {b} /\ UNCHANGED live
    BY <1>3 DEF Admit
  <2>2. create[b] = "new" /\ create' = [create EXCEPT ![b] = "admitted"]
    BY <1>3 DEF Admit
  <2>3. \A c \in Peers(b) : Age[b] < Age[c] => create[c] \notin {"write", "made"}
    BY <1>3 DEF Admit
  <2>. QED BY <2>1, <2>2, <2>3 DEF TurnsInv, QueueTypeOK, Peers
<1>4. ASSUME NEW b \in QueueBuilds, Check(b) PROVE TurnsInv'
  BY <1>4 DEF Check, TurnsInv, QueueTypeOK, Peers
<1>5. ASSUME NEW b \in QueueBuilds, Write(b) PROVE TurnsInv'
  BY <1>5 DEF Write, TurnsInv, QueueTypeOK, CR, Absent
<1>6. ASSUME NEW b \in QueueBuilds, Refuse(b) PROVE TurnsInv'
  BY <1>6 DEF Refuse, TurnsInv, QueueTypeOK
<1>7. CASE Patch
  BY <1>7, PatchFrame DEF TurnsInv
<1>8. CASE \/ List \/ Note \/ EndTick \/ Sync
           \/ \E b \in QueueBuilds : Pick(b)
  BY <1>8 DEF List, Note, EndTick, Sync, Pick, TurnsInv
<1>. QED BY <1>1, <1>2, <1>3, <1>4, <1>5, <1>6, <1>7, <1>8, StepKinds

LEMMA SeenStep ==
    ASSUME QueueTypeOK, TurnsInv, SeenInv, TickInv, [QueueNext]_QueueVars PROVE SeenInv'
<1>1. CASE Elsewhere
  BY <1>1, ElsewhereFrame DEF SeenInv
<1>2. ASSUME NEW b \in QueueBuilds, Evolves(b) PROVE SeenInv'
  BY <1>2, EvolvesFrame DEF SeenInv
<1>3. ASSUME NEW b \in QueueBuilds, Admit(b) \/ Check(b) \/ Refuse(b) PROVE SeenInv'
  <2>1. waits \subseteq waits' /\ UNCHANGED <<live, cached>>
    BY <1>3 DEF Admit, Check, Refuse
  <2>2. \A c \in QueueBuilds : create'[c] = "made" => create[c] = "made"
    BY <1>3 DEF Admit, Check, Refuse, QueueTypeOK
  <2>. QED BY <2>1, <2>2 DEF SeenInv
<1>4. ASSUME NEW b \in QueueBuilds, Write(b) PROVE SeenInv'
  <2>1. create[b] = "write" /\ live[b].state = "absent" /\ cached[b].state = "absent"
    BY <1>4 DEF Write, TurnsInv, SeenInv
  <2>2. \A c \in QueueBuilds : Service[b] = Service[c] /\ Age[b] < Age[c]
                             => cached[c].state = "absent"
    BY <2>1 DEF TurnsInv, SeenInv
  <2>3. UNCHANGED <<cached, waits>> /\ create' = [create EXCEPT ![b] = "made"]
    BY <1>4 DEF Write
  <2>4. \A c \in QueueBuilds : c # b => live'[c] = live[c] /\ create'[c] = create[c]
    BY <1>4 DEF Write, QueueTypeOK
  <2>. QED BY <2>1, <2>2, <2>3, <2>4 DEF SeenInv
<1>5. CASE Patch
  BY <1>5, PatchFrame DEF SeenInv
<1>6. CASE Sync
  BY <1>6 DEF Sync, TurnsInv, SeenInv, QueueTypeOK, CR
<1>7. CASE List \/ Note \/ EndTick \/ \E b \in QueueBuilds : Pick(b)
  BY <1>7 DEF List, Note, EndTick, Pick, SeenInv
<1>. QED BY <1>1, <1>2, <1>3, <1>4, <1>5, <1>6, <1>7, StepKinds

-----------------------------------------------------------------------------
(* The dispatcher *)

LEMMA PickFrame ==
    ASSUME QueueTypeOK, NEW b \in QueueBuilds, Pick(b)
    PROVE  /\ UNCHANGED <<live, cached, job, create, waits>>
           /\ b \in tick.queue /\ tick.room > 0 /\ tick'.room = tick.room
           /\ tick'.queue = tick.queue \ Peers(b)
           /\ \/ tick'.pick = tick.pick /\ tick'.at = "pick"
              \/ tick'.pick = {b} /\ tick'.at = "patch" /\ ~ServiceIsActive(b, cached)
BY DEF Pick, QueueTypeOK

LEMMA TickStepKeepsTickInv ==
    ASSUME QueueTypeOK, TurnsInv, SeenInv, GateInv, TickInv, [QueueNext]_QueueVars PROVE TickInv'
<1>1. CASE Elsewhere
  BY <1>1, ElsewhereFrame DEF TickInv
<1>2. ASSUME NEW b \in QueueBuilds, Evolves(b) PROVE TickInv'
  BY <1>2, EvolvesFrame DEF TickInv
<1>3. ASSUME NEW b \in QueueBuilds, Admit(b) \/ Check(b) \/ Refuse(b) PROVE TickInv'
  <2>1. waits \subseteq waits' /\ UNCHANGED <<live, cached, tick>>
    BY <1>3 DEF Admit, Check, Refuse
  <2>2. \A c \in waits' \ waits : create'[c] # "made"
    BY <1>3 DEF Admit, Check, Refuse, QueueTypeOK
  <2>3. \A c \in QueueBuilds : create'[c] = "made" => create[c] = "made"
    BY <1>3 DEF Admit, Check, Refuse, QueueTypeOK
  <2>4. waits' \subseteq QueueBuilds
    BY <1>3 DEF Admit, Check, Refuse, QueueTypeOK
  <2>. QED BY <2>1, <2>2, <2>3, <2>4 DEF TickInv
<1>4. ASSUME NEW b \in QueueBuilds, Write(b) PROVE TickInv'
  <2>1. UNCHANGED <<cached, waits, tick>> /\ create[b] = "write"
    BY <1>4 DEF Write
  <2>2. \A c \in QueueBuilds : c # b => create'[c] = create[c]
    BY <1>4 DEF Write, QueueTypeOK
  <2>3. cached[b].state = "absent"
    BY <2>1 DEF TurnsInv, SeenInv
  <2>. QED BY <2>1, <2>2, <2>3 DEF TickInv, QueueTypeOK
<1>5. CASE Patch
  BY <1>5, PatchFrame DEF TickInv
<1>6. CASE Sync
  <2>1. cached' = live /\ UNCHANGED <<live, create, waits, tick>>
    BY <1>6 DEF Sync
  <2>2. tick.queue \cup tick.pick \subseteq QueueBuilds /\ waits \subseteq QueueBuilds
    BY DEF QueueTypeOK
  <2>3. \A b \in QueueBuilds : cached[b].state # "absent" => live[b].state # "absent"
    BY DEF SeenInv
  <2>4. \A b \in QueueBuilds, c \in tick.queue :
           Service[b] = Service[c] /\ Age[b] < Age[c] /\ create[b] = "made"
              => cached[b].state # "absent"
    BY <2>2 DEF SeenInv, TickInv
  <2>5. \A b \in QueueBuilds : cached[b].state \notin {"absent", "queued"} => live[b].state # "queued"
    BY DEF SeenInv, QueueTypeOK, CR
  <2>6. \A b \in waits \ CIGated, c \in tick.queue :
           Service[b] = Service[c] /\ Age[b] < Age[c] /\ create[b] = "made"
              /\ b \notin tick.queue => live[b].state # "queued"
    BY <2>2, <2>4, <2>5 DEF TickInv
  <2>. QED BY <2>1, <2>2, <2>3, <2>6 DEF TickInv
<1>7. CASE List
  <2>1. UNCHANGED <<live, cached, create, waits>>
    BY <1>7 DEF List
  <2>2. tick'.queue = {b \in QueueBuilds : cached[b].state = "queued" /\ ~CIGateHolds(b, cached)}
    BY <1>7 DEF List
  <2>3. tick'.pick = {} /\ tick'.at = "pick"
    BY <1>7 DEF List
  <2>4. \A b \in QueueBuilds \ CIGated : ~CIGateHolds(b, cached)
    BY DEF GateInv, CIGateHolds
  <2>. QED BY <2>1, <2>2, <2>3, <2>4 DEF TickInv, SeenInv, QueueTypeOK
<1>8. ASSUME NEW b \in QueueBuilds, Pick(b) PROVE TickInv'
  BY <1>8, PickFrame DEF TickInv, Peers, QueueTypeOK
<1>9. CASE Note
  BY <1>9 DEF Note, TickInv, QueueTypeOK
<1>10. CASE EndTick
  BY <1>10 DEF EndTick, NoTick, TickInv
<1>. QED BY <1>1, <1>2, <1>3, <1>4, <1>5, <1>6, <1>7, <1>8, <1>9, <1>10, StepKinds

LEMMA PickIsInOrder ==
    ASSUME QueueTypeOK, TurnsInv, SeenInv, TickInv, NEW c \in QueueBuilds, Pick(c),
           ~ServiceIsActive(c, cached),
           NEW b \in waits \ CIGated, Service[b] = Service[c], Age[b] < Age[c],
           create[b] = "made"
    PROVE  live[b].done
<1>1. b \in QueueBuilds /\ c \in tick.queue /\ cached[c].state # "absent"
  BY DEF Pick, TickInv, QueueTypeOK
<1>2. b \notin tick.queue
  <2>1. SUFFICES ASSUME b \in tick.queue PROVE FALSE
    OBVIOUS
  <2>2. Age[c] <= Age[b]
    BY <1>1, <2>1 DEF Pick, Peers
  <2>. QED BY <1>1, <2>2, QueueAssumption
<1>3. cached[b].state # "queued"
  BY <1>1, <1>2 DEF TickInv
<1>4. cached[b].state # "absent"
  BY <1>1 DEF SeenInv
<1>5. cached[b].state # "active"
  BY <1>1 DEF ServiceIsActive, Peers
<1>6. cached[b].state = "done"
  BY <1>1, <1>3, <1>4, <1>5 DEF QueueTypeOK, CR
<1>. QED BY <1>1, <1>6 DEF SeenInv

LEMMA DispatchStep ==
    ASSUME QueueTypeOK, TurnsInv, SeenInv, TickInv, DispatchedInOrder, [QueueNext]_QueueVars
    PROVE  DispatchedInOrder'
<1>. USE DEF DispatchedInOrder
<1>1. CASE Elsewhere
  BY <1>1, ElsewhereFrame
<1>2. ASSUME NEW b \in QueueBuilds, Evolves(b) PROVE DispatchedInOrder'
  BY <1>2, EvolvesFrame DEF QueueTypeOK
<1>3. ASSUME NEW b \in QueueBuilds, Admit(b) \/ Check(b) \/ Refuse(b) PROVE DispatchedInOrder'
  <2>1. waits \subseteq waits' /\ waits' \subseteq QueueBuilds /\ UNCHANGED <<live, cached, tick>>
    BY <1>3 DEF Admit, Check, Refuse, QueueTypeOK
  <2>2. \A c \in waits' \ waits : create[c] # "made" /\ create'[c] # "made"
    BY <1>3 DEF Admit, Check, Refuse, QueueTypeOK
  <2>3. \A c \in QueueBuilds : create'[c] = "made" => create[c] = "made"
    BY <1>3 DEF Admit, Check, Refuse, QueueTypeOK
  <2>4. \A c \in tick.pick : c \in waits
    BY DEF TickInv
  <2>5. \A c \in waits' \ waits : live[c].state # "active"
    BY <2>1, <2>2, <2>3 DEF TurnsInv
  <2>. QED BY <2>1, <2>2, <2>3, <2>4, <2>5
<1>4. ASSUME NEW b \in QueueBuilds, Write(b) PROVE DispatchedInOrder'
  <2>1. UNCHANGED <<cached, waits, tick>> /\ create[b] = "write" /\ create'[b] = "made"
    BY <1>4 DEF Write, QueueTypeOK
  <2>2. \A c \in QueueBuilds : c # b => create'[c] = create[c] /\ live'[c] = live[c]
    BY <1>4 DEF Write, QueueTypeOK
  <2>3. b \in waits => live'[b].state = "queued"
    BY <1>4 DEF Write, QueueTypeOK, Absent
  <2>4. b \notin tick.pick
    BY <2>1 DEF TickInv, TurnsInv, SeenInv
  <2>5. \A c \in QueueBuilds : Service[b] = Service[c] /\ Age[b] < Age[c]
                             => create[c] \notin {"write", "made"}
    BY <2>1 DEF TurnsInv
  <2>6. \A c \in QueueBuilds : c \in tick.pick \/ live[c].state = "active" => create[c] = "made"
    BY DEF TickInv, TurnsInv, SeenInv
  <2>7. waits \subseteq QueueBuilds
    BY DEF QueueTypeOK
  <2>. QED BY <2>1, <2>2, <2>3, <2>4, <2>5, <2>6, <2>7
<1>5. CASE Patch
  BY <1>5, PatchFrame DEF QueueTypeOK
<1>6. ASSUME NEW c \in QueueBuilds, Pick(c) PROVE DispatchedInOrder'
  <2>1. CASE tick'.pick = tick.pick
    BY <1>6, <2>1, PickFrame
  <2>2. CASE tick'.pick = {c} /\ ~ServiceIsActive(c, cached)
    BY <1>6, <2>2, PickFrame, PickIsInOrder
  <2>. QED BY <1>6, <2>1, <2>2, PickFrame
<1>7. CASE List \/ Note \/ EndTick \/ Sync
  <2>1. UNCHANGED <<live, create, waits>>
    BY <1>7 DEF List, Note, EndTick, Sync
  <2>2. (List => tick'.pick = {}) /\ (EndTick => tick'.pick = {})
    BY DEF List, EndTick, NoTick
  <2>3. Note => tick'.pick = {}
    BY DEF Note, QueueTypeOK
  <2>4. Sync => tick' = tick
    BY DEF Sync
  <2>. QED BY <1>7, <2>1, <2>2, <2>3, <2>4
<1>. QED BY <1>1, <1>2, <1>3, <1>4, <1>5, <1>6, <1>7, StepKinds

-----------------------------------------------------------------------------
(* The other door, and the gate *)

LEMMA StartStep ==
    ASSUME QueueTypeOK, TurnsInv, SeenInv, TickInv, StartedAlone, [QueueNext]_QueueVars
    PROVE  StartedAlone'
<1>. USE DEF StartedAlone
<1>1. CASE Elsewhere
  BY <1>1, ElsewhereFrame
<1>2. ASSUME NEW b \in QueueBuilds, Evolves(b) PROVE StartedAlone'
  BY <1>2, EvolvesFrame
<1>3. ASSUME NEW b \in QueueBuilds, Admit(b) \/ Refuse(b) PROVE StartedAlone'
  <2>1. waits \subseteq waits' /\ UNCHANGED live
    BY <1>3 DEF Admit, Refuse
  <2>2. \A c \in QueueBuilds : create'[c] = "write" => create[c] = "write"
    BY <1>3 DEF Admit, Refuse, QueueTypeOK
  <2>. QED BY <2>1, <2>2
<1>4. ASSUME NEW b \in QueueBuilds, Check(b) PROVE StartedAlone'
  <2>1. waits \subseteq waits' /\ UNCHANGED live
    BY <1>4 DEF Check
  <2>2. \A c \in QueueBuilds : create'[c] = "write" => create[c] = "write" \/ c = b
    BY <1>4 DEF Check, QueueTypeOK
  <2>3. b \in waits' \/ ~ServiceIsActive(b, live)
    BY <1>4 DEF Check
  <2>4. b \in waits' \/ \A c \in QueueBuilds : Service[b] = Service[c] => live[c].state # "active"
    BY <2>3 DEF ServiceIsActive, Peers
  <2>5. create[b] = "admitted"
    BY <1>4 DEF Check
  <2>6. live[b].state = "absent"
    BY <2>5 DEF TurnsInv
  <2>. QED BY <2>1, <2>2, <2>4, <2>6
<1>5. ASSUME NEW b \in QueueBuilds, Write(b) PROVE StartedAlone'
  <2>1. UNCHANGED waits /\ create[b] = "write" /\ create'[b] = "made"
    BY <1>5 DEF Write, QueueTypeOK
  <2>2. \A c \in QueueBuilds : c # b => create'[c] = create[c] /\ live'[c] = live[c]
    BY <1>5 DEF Write, QueueTypeOK
  <2>3. \A c \in QueueBuilds : c # b /\ Service[b] = Service[c] => create[c] # "write"
    BY <2>1, LockExcludes
  <2>. QED BY <2>1, <2>2, <2>3
<1>6. CASE Patch
  BY <1>6, PatchFrame
<1>7. CASE List \/ Note \/ EndTick \/ Sync \/ \E b \in QueueBuilds : Pick(b)
  BY <1>7 DEF List, Note, EndTick, Sync, Pick
<1>. QED BY <1>1, <1>2, <1>3, <1>4, <1>5, <1>6, <1>7, StepKinds

LEMMA GateStep ==
    ASSUME QueueTypeOK, TurnsInv, SeenInv, TickInv, GateInv, [QueueNext]_QueueVars
    PROVE  GateInv'
<1>. USE DEF GateInv, CIGateHolds
<1>1. CASE UNCHANGED QueueVars
  BY <1>1 DEF QueueVars
<1>2. ASSUME NEW b \in QueueBuilds, Forget(b) \/ StartJob(b) \/ JobEnds(b) PROVE GateInv'
  BY <1>2 DEF Forget, StartJob, JobEnds, SeenInv, QueueTypeOK
<1>3. ASSUME NEW b \in QueueBuilds, Evolves(b) PROVE GateInv'
  BY <1>3, EvolvesFrame
<1>4. ASSUME NEW b \in QueueBuilds, Admit(b) \/ Check(b) \/ Refuse(b) PROVE GateInv'
  BY <1>4 DEF Admit, Check, Refuse
<1>5. ASSUME NEW b \in QueueBuilds, Write(b) PROVE GateInv'
  <2>1. UNCHANGED <<cached, job, tick>> /\ create[b] = "write"
    BY <1>5 DEF Write
  <2>2. \A c \in QueueBuilds : c # b => live'[c] = live[c]
    BY <1>5 DEF Write, QueueTypeOK
  <2>3. /\ live'[b].gate = IF b \in CIGated THEN "waiting" ELSE "none"
        /\ b \in waits => live'[b].state = "queued"
    BY <1>5 DEF Write, QueueTypeOK, Absent
  <2>4. b \in CIGated => b \in waits
    BY <2>1 DEF TurnsInv
  <2>5. cached[b].state = "absent" /\ b \notin tick.queue \cup tick.pick
    BY <2>1 DEF TurnsInv, SeenInv, TickInv
  <2>6. job[b] = "none"
    BY <2>1 DEF TurnsInv
  <2>. QED BY <2>1, <2>2, <2>3, <2>4, <2>5, <2>6
<1>6. CASE Patch
  BY <1>6, PatchFrame
<1>7. CASE List
  <2>1. UNCHANGED <<live, cached, job>> /\ tick'.pick = {}
    BY <1>7 DEF List
  <2>2. tick'.queue = {b \in QueueBuilds : cached[b].state = "queued" /\ ~CIGateHolds(b, cached)}
    BY <1>7 DEF List
  <2>. QED BY <2>1, <2>2
<1>8. ASSUME NEW b \in QueueBuilds, Pick(b) PROVE GateInv'
  BY <1>8, PickFrame
<1>9. CASE Note
  BY <1>9 DEF Note, QueueTypeOK
<1>10. CASE EndTick
  BY <1>10 DEF EndTick, NoTick
<1>11. CASE Sync
  BY <1>11 DEF Sync, SeenInv
<1>. QED
  BY <1>1, <1>2, <1>3, <1>4, <1>5, <1>6, <1>7, <1>8, <1>9, <1>10, <1>11, StepKinds
  DEF Elsewhere

-----------------------------------------------------------------------------
(* The theorems *)

LEMMA StepIInv == IInv /\ [QueueNext]_QueueVars => IInv'
BY TypeStep, TurnsStep, SeenStep, GateStep, TickStepKeepsTickInv, DispatchStep, StartStep
DEF IInv

LEMMA Inductive == QueueSpec => []IInv
BY InitIInv, StepIInv, PTL DEF QueueSpec

\* Every variable of the queue stays in its type; above all, a tick's room for builds never
\* falls below zero (dispatchQueued).
THEOREM QueueTypeCorrect == QueueSpec => []QueueTypeOK
<1>1. IInv => QueueTypeOK
  BY DEF IInv
<1>. QED BY <1>1, Inductive, PTL

\* A queued build is started when the older queued ones of its service are over, but for
\* those that waited for their CI, however far the informer that the tick lists from is
\* behind (dispatchQueued, queuedBefore).
THEOREM FirstClickRunsFirstHolds == QueueSpec => []FirstClickRunsFirst
<1>1. IInv => FirstClickRunsFirst
  BY DEF IInv, DispatchedInOrder, FirstClickRunsFirst
<1>. QED BY <1>1, Inductive, PTL

\* Builds of a service that came in by the same door are not at work together unless the
\* older one waited for its CI, for any cap and any number of overlapping Creates (create's
\* lock and live list; dispatchQueued's order and its copy of the list).
THEOREM SameDoorExcludesHolds == QueueSpec => []SameDoorExcludes
<1>1. ASSUME IInv PROVE SameDoorExcludes
  <2>1. SUFFICES ASSUME NEW b \in QueueBuilds, NEW c \in QueueBuilds, b \notin CIGated,
                        Service[b] = Service[c], Age[b] < Age[c], AtWork(b), AtWork(c)
                 PROVE  (b \in waits) # (c \in waits)
    BY DEF SameDoorExcludes
  <2>2. ~(b \in waits /\ c \in waits)
    <3>1. create[b] = "made"
      BY <1>1, <2>1 DEF IInv, TurnsInv, AtWork
    <3>. QED BY <1>1, <2>1, <3>1 DEF IInv, DispatchedInOrder, AtWork
  <2>3. b \in waits \/ c \in waits
    <3>1. b # c
      BY <2>1, QueueAssumption
    <3>. QED BY <1>1, <2>1, <3>1 DEF IInv, StartedAlone, AtWork
  <2>. QED BY <2>2, <2>3
<1>. QED BY <1>1, Inductive, PTL

\* A build whose commit failed its CI has no Job, however the stamp, the cancel, the
\* informer and the dispatcher's tick interleave (ciGateHolds).
THEOREM RedIsNotBuiltHolds == QueueSpec => []RedIsNotBuilt
<1>1. IInv => RedIsNotBuilt
  BY DEF IInv, GateInv, RedIsNotBuilt, CIGateHolds
<1>. QED BY <1>1, Inductive, PTL

-----------------------------------------------------------------------------
(* The cap: the inductive invariant *)

Uses(b) == AtWork(b) /\ ~live[b].green

\* A slot in use is counted, but between the dispatcher's patch and its note.
SlotInv ==
    /\ \A b \in QueueBuilds \ waits : create[b] \in {"admitted", "write"} => b \in reserved
    /\ \A b \in QueueBuilds :
         /\ cached[b].done => live[b].done
         /\ cached[b].green => live[b].green
         /\ live[b].state = "absent" => ~live[b].done /\ ~live[b].green
         /\ Uses(b) => \/ b \in recent
                       \/ cached[b].state = "active"
                       \/ tick.at = "note" /\ b \in tick.pick

\* The builds that Create has started, or is starting.
Starting == {b \in QueueBuilds \ waits : create[b] \in {"admitted", "write"} \/ Uses(b)}

\* The queued builds at work, and the one the dispatcher is starting.
Dispatching == {b \in waits : Uses(b) \/ (tick.at = "patch" /\ b \in tick.pick)}

\* The room of the tick, less the build it has taken on.
Left ==
    IF tick.at = "pick" THEN tick.room
    ELSE IF tick.at = "idle" THEN 0 ELSE tick.room - 1

CapInv == Cardinality(Starting) <= Cap /\ Cardinality(Dispatching) + Left <= Cap

-----------------------------------------------------------------------------
(* Counting *)

LEMMA Finite ==
    ASSUME QueueTypeOK, NEW S \in SUBSET QueueBuilds
    PROVE  IsFiniteSet(S) /\ Cardinality(S) \in Nat
BY QueueAssumption, FS_Subset, FS_CardinalityType

LEMMA SetsOfBuilds ==
    ASSUME QueueTypeOK PROVE Starting \subseteq QueueBuilds /\ Dispatching \subseteq QueueBuilds
BY DEF Starting, Dispatching, QueueTypeOK

LEMMA LeftIsNat ==
    ASSUME QueueTypeOK, TickInv PROVE Left \in Nat
BY QueueAssumption DEF QueueTypeOK, TickInv, Left

\* What has a reservation, is in admitRecent or is shown at work is within the count.
LEMMA CountedIsWithinCount ==
    ASSUME QueueTypeOK, NEW S \in SUBSET QueueBuilds,
           \A b \in S : \/ b \in reserved \cup recent
                        \/ cached[b].state = "active" /\ ~cached[b].done /\ ~cached[b].green
    PROVE  Cardinality(S) <= Count
<1>. DEFINE busy == {b \in QueueBuilds :
                       \/ cached[b].state = "active" /\ ~cached[b].done /\ ~cached[b].green
                       \/ b \in recent}
            both == busy \cap reserved
<1>1. S \subseteq busy \cup reserved /\ busy \cup reserved \subseteq QueueBuilds
  BY DEF QueueTypeOK
<1>2. IsFiniteSet(busy) /\ Cardinality(busy) \in Nat
  BY Finite
<1>3. IsFiniteSet(reserved) /\ Cardinality(reserved) \in Nat
  BY Finite DEF QueueTypeOK
<1>4. Cardinality(both) \in Nat
  BY Finite
<1>5. Cardinality(busy \cup reserved)
         = Cardinality(busy) + Cardinality(reserved) - Cardinality(both)
  BY <1>2, <1>3, FS_Union
<1>6. Cardinality(S) <= Cardinality(busy \cup reserved)
  BY <1>1, Finite, FS_Subset
<1>7. Cardinality(S) \in Nat /\ Cardinality(busy \cup reserved) \in Nat
  BY <1>1, Finite
<1>8. Count = Cardinality(busy) + Cardinality(reserved)
  BY DEF Count
<1>. QED BY <1>2, <1>3, <1>4, <1>5, <1>6, <1>7, <1>8

LEMMA Grows ==
    ASSUME QueueTypeOK, NEW S \in SUBSET QueueBuilds, NEW T \in SUBSET QueueBuilds,
           NEW b \in QueueBuilds, T \subseteq S \cup {b}
    PROVE  Cardinality(T) <= Cardinality(S) + 1
<1>1. IsFiniteSet(S) /\ Cardinality(S) \in Nat /\ Cardinality(T) \in Nat
  BY Finite
<1>2. /\ IsFiniteSet(S \cup {b})
      /\ Cardinality(S \cup {b}) \in {Cardinality(S), Cardinality(S) + 1}
  <2>1. /\ IsFiniteSet(S \cup {b})
        /\ Cardinality(S \cup {b}) = IF b \in S THEN Cardinality(S) ELSE Cardinality(S) + 1
    BY <1>1, FS_AddElement, Zenon
  <2>. QED BY <2>1
<1>3. Cardinality(S \cup {b}) \in Nat /\ Cardinality(T) <= Cardinality(S \cup {b})
  BY <1>2, FS_Subset, FS_CardinalityType
<1>. QED BY <1>1, <1>2, <1>3

LEMMA Shrinks ==
    ASSUME QueueTypeOK, NEW S \in SUBSET QueueBuilds, NEW T \in SUBSET S
    PROVE  Cardinality(T) <= Cardinality(S)
BY Finite, FS_Subset

-----------------------------------------------------------------------------
(* Slots *)

\* The end of a build, its green mark and its gate put nothing to work.
LEMMA EvolvesUses ==
    ASSUME QueueTypeOK, SeenInv, NEW b \in QueueBuilds, Evolves(b)
    PROVE  /\ UNCHANGED <<cached, create, waits, tick, recent, reserved>>
           /\ \A c \in QueueBuilds : /\ Uses(c)' => Uses(c)
                                     /\ live'[c].state = "absent" =>
                                          /\ live[c].state = "absent"
                                          /\ live'[c].done = live[c].done
                                          /\ live'[c].green = live[c].green
                                     /\ live[c].done => live'[c].done
                                     /\ live[c].green => live'[c].green
<1>1. UNCHANGED <<cached, create, waits, tick, recent, reserved>>
  BY DEF Evolves, Finish, MarkFailed, NoteGreen, CIVerdict, CancelForCI, Cancel, CancelBuild
<1>2. CASE End(b)
  BY <1>1, <1>2, EndFrame DEF Uses, AtWork
<1>3. CASE NoteGreen(b)
  <2>1. live[b].state # "absent"
    BY <1>3 DEF NoteGreen, SeenInv
  <2>2. live' = [live EXCEPT ![b].green = TRUE] /\ \A c \in QueueBuilds : live[c] \in CR
    BY <1>3 DEF NoteGreen, QueueTypeOK
  <2>3. live'[b].state = live[b].state /\ live'[b].done = live[b].done /\ live'[b].green
    BY <2>2 DEF QueueTypeOK, CR
  <2>4. \A c \in QueueBuilds : c # b => live'[c] = live[c]
    BY <2>2 DEF QueueTypeOK
  <2>. QED BY <1>1, <2>1, <2>3, <2>4 DEF Uses, AtWork
<1>4. CASE CIVerdict(b)
  <2>1. PICK v \in {"passed", "failed"} : live' = [live EXCEPT ![b].gate = v]
    BY <1>4 DEF CIVerdict
  <2>2. \A c \in QueueBuilds : live[c] \in CR
    BY DEF QueueTypeOK
  <2>3. \A c \in QueueBuilds : /\ live'[c].state = live[c].state
                                /\ live'[c].done = live[c].done /\ live'[c].green = live[c].green
    BY <2>1, <2>2 DEF QueueTypeOK, CR
  <2>. QED BY <1>1, <2>3 DEF Uses, AtWork
<1>. QED
  BY <1>1, <1>2, <1>3, <1>4
  DEF Evolves, Finish, MarkFailed, CancelForCI, Cancel, CancelBuild

LEMMA PatchUses ==
    ASSUME QueueTypeOK, Patch
    PROVE  \A b \in QueueBuilds : /\ Uses(b)' => Uses(b) \/ b \in tick.pick
                                  /\ live'[b].done = live[b].done /\ live'[b].green = live[b].green
BY DEF Patch, QueueTypeOK, CR, Uses, AtWork

LEMMA WriteUses ==
    ASSUME QueueTypeOK, NEW b \in QueueBuilds, Write(b)
    PROVE  /\ UNCHANGED <<cached, waits, tick>>
           /\ create[b] = "write" /\ create'[b] = "made"
           /\ recent' = IF b \in waits THEN recent ELSE recent \cup {b}
           /\ reserved' = reserved \ {b}
           /\ live'[b].state # "absent" /\ (b \in waits => ~Uses(b)')
           /\ \A c \in QueueBuilds : c # b => create'[c] = create[c] /\ live'[c] = live[c]
BY DEF Write, QueueTypeOK, Absent, Uses, AtWork

\* A Create that is not over has nothing at work.
LEMMA NotMadeNotUsed ==
    ASSUME TurnsInv, NEW b \in QueueBuilds, create[b] # "made" PROVE ~Uses(b)
BY DEF TurnsInv, Uses, AtWork

LEMMA SlotStep ==
    ASSUME QueueTypeOK, TurnsInv, SeenInv, TickInv, SlotInv, [QueueNext]_QueueVars PROVE SlotInv'
<1>. USE DEF SlotInv
<1>1. CASE UNCHANGED QueueVars
  BY <1>1 DEF QueueVars, Uses, AtWork
<1>2. ASSUME NEW b \in QueueBuilds, Forget(b) PROVE SlotInv'
  BY <1>2 DEF Forget, SeenInv, Uses, AtWork
<1>3. ASSUME NEW b \in QueueBuilds, StartJob(b) \/ JobEnds(b) PROVE SlotInv'
  BY <1>3 DEF StartJob, JobEnds, Uses, AtWork
<1>4. ASSUME NEW b \in QueueBuilds, Evolves(b) PROVE SlotInv'
  BY <1>4, EvolvesUses
<1>5. ASSUME NEW b \in QueueBuilds, Admit(b) \/ Check(b) \/ Refuse(b) PROVE SlotInv'
  <2>1. UNCHANGED <<live, cached, recent, tick>> /\ waits \subseteq waits'
    BY <1>5 DEF Admit, Check, Refuse
  <2>2. \A c \in QueueBuilds \ waits' : create'[c] \in {"admitted", "write"} => c \in reserved'
    BY <1>5 DEF Admit, Check, Refuse, QueueTypeOK
  <2>. QED BY <2>1, <2>2 DEF Uses, AtWork
<1>6. ASSUME NEW b \in QueueBuilds, Write(b) PROVE SlotInv'
  <2>1. ~cached[b].done /\ ~cached[b].green
    BY <1>6 DEF Write, TurnsInv
  <2>. QED BY <1>6, <2>1, WriteUses DEF Uses, AtWork
<1>7. CASE Patch
  BY <1>7, PatchUses, PatchFrame DEF Patch
<1>8. CASE Note
  BY <1>8 DEF Note, QueueTypeOK, Uses, AtWork
<1>9. CASE Sync
  BY <1>9 DEF Sync, Uses, AtWork
<1>10. CASE List \/ EndTick \/ \E b \in QueueBuilds : Pick(b)
  <2>1. UNCHANGED <<live, cached, create, waits, recent, reserved>> /\ tick.at # "note"
    BY <1>10 DEF List, EndTick, Pick
  <2>. QED BY <2>1 DEF Uses, AtWork
<1>. QED
  BY <1>1, <1>2, <1>3, <1>4, <1>5, <1>6, <1>7, <1>8, <1>9, <1>10, StepKinds DEF Elsewhere

-----------------------------------------------------------------------------
(* The cap *)

LEMMA SameCounts ==
    ASSUME QueueTypeOK, TickInv, CapInv, Starting' \subseteq Starting,
           Dispatching' \subseteq Dispatching, Left' \in Nat, Left' <= Left
    PROVE  CapInv'
<1>1. /\ Cardinality(Starting') <= Cardinality(Starting)
      /\ Cardinality(Dispatching') <= Cardinality(Dispatching)
  BY SetsOfBuilds, Shrinks
<1>2. /\ Cardinality(Starting) \in Nat /\ Cardinality(Starting') \in Nat
      /\ Cardinality(Dispatching) \in Nat /\ Cardinality(Dispatching') \in Nat
  BY SetsOfBuilds, Finite
<1>3. Left \in Nat /\ Cap \in Nat
  BY LeftIsNat, QueueAssumption
<1>. QED BY <1>1, <1>2, <1>3 DEF CapInv

\* Admit counts what Create started, and reserves only below the cap.
LEMMA AdmitKeepsTheCap ==
    ASSUME QueueTypeOK, TurnsInv, TickInv, SlotInv, CapInv, NEW b \in QueueBuilds, Admit(b)
    PROVE  CapInv'
<1>1. /\ UNCHANGED <<live, tick>> /\ create[b] = "new"
      /\ create' = [create EXCEPT ![b] = "admitted"]
  BY DEF Admit
<1>2. ~Uses(b) /\ \A c \in QueueBuilds : Uses(c)' = Uses(c)
  BY <1>1, NotMadeNotUsed DEF Uses, AtWork
<1>3. UNCHANGED Left
  BY <1>1 DEF Left
<1>4. CASE Count < Cap
  <2>1. UNCHANGED waits
    BY <1>4 DEF Admit
  <2>2. Dispatching' = Dispatching
    BY <1>1, <1>2, <2>1 DEF Dispatching, QueueTypeOK
  <2>3. Starting' \subseteq Starting \cup {b}
    BY <1>1, <1>2, <2>1 DEF Starting, QueueTypeOK
  <2>4. Cardinality(Starting) <= Count
    <3>1. \A c \in Starting : c \in QueueBuilds /\ c \notin tick.pick
      BY DEF Starting, TickInv
    <3>2. \A c \in Starting :
             \/ c \in reserved \cup recent
             \/ cached[c].state = "active" /\ ~cached[c].done /\ ~cached[c].green
      BY <3>1 DEF Starting, SlotInv, Uses, AtWork
    <3>. QED BY <3>2, SetsOfBuilds, CountedIsWithinCount
  <2>5. Cardinality(Starting') <= Cardinality(Starting) + 1
    BY <2>3, SetsOfBuilds, Grows DEF Starting
  <2>6. Cardinality(Starting) \in Nat /\ Cardinality(Starting') \in Nat
    BY SetsOfBuilds, Finite DEF Starting
  <2>7. Cap \in Nat /\ Count \in Nat
    BY CountIsNat, QueueAssumption
  <2>8. Cardinality(Starting') <= Cap
    BY <1>4, <2>4, <2>5, <2>6, <2>7
  <2>. QED BY <1>3, <2>2, <2>8 DEF CapInv
<1>5. CASE ~(Count < Cap)
  <2>1. waits' = waits \cup {b}
    BY <1>5 DEF Admit
  <2>2. b \notin tick.pick
    BY <1>1 DEF TickInv, TurnsInv, SeenInv
  <2>3. Starting' \subseteq Starting
    BY <1>1, <1>2, <2>1 DEF Starting, QueueTypeOK
  <2>4. Dispatching' \subseteq Dispatching
    BY <1>1, <1>2, <2>1, <2>2 DEF Dispatching, QueueTypeOK
  <2>. QED BY <1>3, <2>3, <2>4, SameCounts, LeftIsNat
<1>. QED BY <1>4, <1>5

\* A tick finds room for what the count leaves.
LEMMA ListKeepsTheCap ==
    ASSUME QueueTypeOK, TickInv, SlotInv, CapInv, List PROVE CapInv'
<1>1. UNCHANGED <<live, create, waits>> /\ tick.at = "idle" /\ Count < Cap
  BY DEF List
<1>2. tick'.at = "pick" /\ tick'.room = Cap - Count
  BY DEF List
<1>3. \A c \in QueueBuilds : Uses(c)' = Uses(c)
  BY <1>1 DEF Uses, AtWork
<1>4. Starting' = Starting /\ Dispatching' = Dispatching
  BY <1>1, <1>2, <1>3 DEF Starting, Dispatching, QueueTypeOK
<1>5. Cardinality(Dispatching) <= Count
  <2>1. \A c \in Dispatching : c \in QueueBuilds /\ Uses(c)
    BY <1>1, SetsOfBuilds DEF Dispatching
  <2>2. \A c \in Dispatching :
           \/ c \in reserved \cup recent
           \/ cached[c].state = "active" /\ ~cached[c].done /\ ~cached[c].green
    BY <1>1, <2>1 DEF SlotInv, Uses, AtWork
  <2>. QED BY <2>2, SetsOfBuilds, CountedIsWithinCount
<1>6. Cardinality(Dispatching) \in Nat /\ Count \in Nat /\ Cap \in Nat
  BY SetsOfBuilds, Finite, CountIsNat, QueueAssumption
<1>7. Left' = Cap - Count
  BY <1>2 DEF Left
<1>. QED BY <1>4, <1>5, <1>6, <1>7 DEF CapInv

\* The build that a tick takes on uses up one of its rooms.
LEMMA PickKeepsTheCap ==
    ASSUME QueueTypeOK, TickInv, CapInv, NEW b \in QueueBuilds, Pick(b) PROVE CapInv'
<1>1. UNCHANGED <<live, create, waits>> /\ tick.at = "pick"
  BY DEF Pick
<1>2. \A c \in QueueBuilds : Uses(c)' = Uses(c)
  BY <1>1 DEF Uses, AtWork
<1>3. Starting' = Starting
  BY <1>1, <1>2 DEF Starting, QueueTypeOK
<1>4. CASE tick'.at = "pick"
  <2>1. Left' = Left
    BY <1>1, <1>4, PickFrame DEF Left
  <2>2. Dispatching' = Dispatching
    BY <1>1, <1>2, <1>4 DEF Dispatching, QueueTypeOK
  <2>. QED BY <1>3, <2>1, <2>2 DEF CapInv
<1>5. CASE tick'.at = "patch" /\ tick'.pick = {b}
  <2>1. Left = tick.room /\ Left' = tick.room - 1
    BY <1>1, <1>5, PickFrame DEF Left
  <2>2. Dispatching' \subseteq Dispatching \cup {b} /\ Dispatching' \subseteq QueueBuilds
    BY <1>1, <1>2, <1>5 DEF Dispatching, QueueTypeOK
  <2>3. Cardinality(Dispatching') <= Cardinality(Dispatching) + 1
    BY <2>2, SetsOfBuilds, Grows
  <2>4. Cardinality(Dispatching) \in Nat /\ Cardinality(Dispatching') \in Nat
    BY <2>2, SetsOfBuilds, Finite
  <2>5. tick.room \in Nat /\ Cap \in Nat
    BY QueueAssumption DEF QueueTypeOK
  <2>. QED BY <1>3, <2>1, <2>3, <2>4, <2>5 DEF CapInv
<1>. QED BY <1>4, <1>5, PickFrame

LEMMA CapStep ==
    ASSUME QueueTypeOK, QueueTypeOK', TurnsInv, SeenInv, TickInv, TickInv', SlotInv, CapInv,
           [QueueNext]_QueueVars
    PROVE  CapInv'
<1>0. Left' \in Nat /\ Left \in Nat
  BY QueueAssumption, LeftIsNat DEF QueueTypeOK, TickInv, Left
<1>1. CASE UNCHANGED QueueVars
  BY <1>1 DEF QueueVars, CapInv, Starting, Dispatching, Left, Uses, AtWork
<1>2. ASSUME UNCHANGED <<live, create, waits, tick>> PROVE CapInv'
  BY <1>2 DEF CapInv, Starting, Dispatching, Left, Uses, AtWork
<1>3. ASSUME NEW b \in QueueBuilds, Evolves(b) PROVE CapInv'
  <2>1. Starting' \subseteq Starting /\ Dispatching' \subseteq Dispatching /\ Left' = Left
    BY <1>3, EvolvesUses DEF Starting, Dispatching, Left, QueueTypeOK
  <2>. QED BY <1>0, <2>1, SameCounts
<1>4. ASSUME NEW b \in QueueBuilds, Admit(b) PROVE CapInv'
  BY <1>4, AdmitKeepsTheCap
<1>5. ASSUME NEW b \in QueueBuilds, Check(b) \/ Refuse(b) PROVE CapInv'
  <2>1. UNCHANGED <<live, cached, tick>> /\ waits \subseteq waits' /\ waits' \subseteq waits \cup {b}
    BY <1>5 DEF Check, Refuse
  <2>2. create[b] \in {"admitted", "write"}
    BY <1>5 DEF Check, Refuse
  <2>3. \A c \in QueueBuilds : c # b => create'[c] = create[c]
    BY <1>5 DEF Check, Refuse, QueueTypeOK
  <2>4. ~Uses(b) /\ \A c \in QueueBuilds : Uses(c)' = Uses(c)
    BY <2>1, <2>2, NotMadeNotUsed DEF Uses, AtWork
  <2>5. b \notin tick.pick
    BY <2>2 DEF TickInv, TurnsInv, SeenInv
  <2>6. Starting' \subseteq Starting
    BY <2>1, <2>2, <2>3, <2>4 DEF Starting
  <2>7. Dispatching' \subseteq Dispatching /\ Left' = Left
    BY <2>1, <2>4, <2>5 DEF Dispatching, Left, QueueTypeOK
  <2>. QED BY <1>0, <2>6, <2>7, SameCounts
<1>6. ASSUME NEW b \in QueueBuilds, Write(b) PROVE CapInv'
  <2>1. Starting' \subseteq Starting
    BY <1>6, WriteUses DEF Starting, Uses, AtWork
  <2>2. Dispatching' \subseteq Dispatching /\ Left' = Left
    BY <1>6, WriteUses DEF Dispatching, Left, QueueTypeOK, Uses, AtWork
  <2>. QED BY <1>0, <2>1, <2>2, SameCounts
<1>7. ASSUME NEW b \in QueueBuilds, Pick(b) PROVE CapInv'
  BY <1>7, PickKeepsTheCap
<1>8. CASE List
  BY <1>8, ListKeepsTheCap
<1>9. CASE Patch
  <2>1. Left' = Left
    BY <1>9, PatchFrame DEF Left
  <2>2. Starting' \subseteq Starting
    BY <1>9, PatchFrame, PatchUses DEF Starting
  <2>3. Dispatching' \subseteq Dispatching
    BY <1>9, PatchFrame, PatchUses DEF Dispatching, QueueTypeOK
  <2>. QED BY <1>0, <2>1, <2>2, <2>3, SameCounts
<1>10. CASE Note
  <2>1. UNCHANGED <<live, create, waits>> /\ tick.at = "note" /\ tick'.at = "pick"
    BY <1>10 DEF Note, QueueTypeOK
  <2>2. tick'.room = tick.room - 1
    BY <1>10 DEF Note, QueueTypeOK
  <2>. QED BY <2>1, <2>2 DEF CapInv, Starting, Dispatching, Left, Uses, AtWork
<1>11. CASE EndTick
  <2>1. UNCHANGED <<live, create, waits>> /\ tick.at = "pick" /\ tick'.at = "idle"
    BY <1>11 DEF EndTick, NoTick
  <2>2. Starting' = Starting /\ Dispatching' = Dispatching /\ Left' = 0
    BY <2>1 DEF Starting, Dispatching, Left, Uses, AtWork
  <2>. QED BY <1>0, <2>2, SameCounts
<1>12. CASE Sync \/ \E b \in QueueBuilds : Forget(b) \/ StartJob(b) \/ JobEnds(b)
  BY <1>2, <1>12 DEF Sync, Forget, StartJob, JobEnds
<1>. QED
  BY <1>1, <1>3, <1>4, <1>5, <1>6, <1>7, <1>8, <1>9, <1>10, <1>11, <1>12, StepKinds
  DEF Elsewhere

LEMMA CapInductive == QueueSpec => [](IInv /\ SlotInv /\ CapInv)
<1>1. QueueInit => IInv /\ SlotInv /\ CapInv
  <2>. SUFFICES ASSUME QueueInit PROVE IInv /\ SlotInv /\ CapInv
    OBVIOUS
  <2>1. SlotInv
    BY DEF QueueInit, SlotInv, Uses, AtWork, Absent
  <2>2. Starting = {} /\ Dispatching = {} /\ Left = 0
    BY DEF QueueInit, Starting, Dispatching, Left, NoTick, Uses, AtWork, Absent
  <2>3. CapInv
    BY <2>2, FS_EmptySet, QueueAssumption DEF CapInv
  <2>. QED BY <2>1, <2>3, InitIInv
<1>2. IInv /\ SlotInv /\ CapInv /\ [QueueNext]_QueueVars => (IInv /\ SlotInv /\ CapInv)'
  BY StepIInv, SlotStep, CapStep DEF IInv
<1>. QED BY <1>1, <1>2, PTL DEF QueueSpec

\* The builds that Create started are at most the cap, and so are those the dispatcher
\* started, for any cap and any number of overlapping Creates, as long as the informer lags
\* by less than admitRecent lasts (admitBuild's reservations; dispatchQueued's room).
THEOREM EachDoorKeepsTheCapHolds == QueueSpec => []EachDoorKeepsTheCap
<1>1. ASSUME IInv, CapInv PROVE EachDoorKeepsTheCap
  <2>. DEFINE InUse(door) == {b \in door : AtWork(b) /\ ~live[b].green}
  <2>1. QueueTypeOK /\ TickInv
    BY <1>1 DEF IInv
  <2>2. Left \in Nat /\ Cap \in Nat
    BY <2>1, LeftIsNat, QueueAssumption
  <2>3. InUse(waits) \subseteq Dispatching /\ InUse(QueueBuilds \ waits) \subseteq Starting
    BY DEF Dispatching, Starting, Uses
  <2>4. /\ Cardinality(InUse(waits)) <= Cardinality(Dispatching)
        /\ Cardinality(InUse(QueueBuilds \ waits)) <= Cardinality(Starting)
    BY <2>1, <2>3, SetsOfBuilds, Shrinks
  <2>5. /\ Cardinality(InUse(waits)) \in Nat /\ Cardinality(Dispatching) \in Nat
        /\ Cardinality(InUse(QueueBuilds \ waits)) \in Nat /\ Cardinality(Starting) \in Nat
    BY <2>1, <2>3, SetsOfBuilds, Finite
  <2>6. Cardinality(InUse(waits)) <= Cap /\ Cardinality(InUse(QueueBuilds \ waits)) <= Cap
    BY <1>1, <2>2, <2>4, <2>5 DEF CapInv
  <2>. QED BY <2>6 DEF EachDoorKeepsTheCap
<1>. QED BY <1>1, CapInductive, PTL
=============================================================================
