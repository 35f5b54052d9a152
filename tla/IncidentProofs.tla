---------------------------- MODULE IncidentProofs ----------------------------
(***************************************************************************)
(* Incidents, for any incidents, targets, servers and bounds: its types,    *)
(* that a target has one open incident whoever writes late, and that        *)
(* investigations keep the cap, up to one for each further leader.          *)
(***************************************************************************)
EXTENDS Incidents, FiniteSetTheorems, TLAPS

Investigating == {i \in Ids : incident[i] = "investigating"}
Deciding == {m \in Managers : opening[m] # NoTarget}

\* Only a row that is there has an agent, an approval under way, or a place on the reaper's
\* list.
NamesAreRows ==
    \A i \in Ids :
        (\/ i \in listed
         \/ approval[i] # "idle"
         \/ \E p \in AgentPhases : agent[p][i] # "none") => incident[i] # "none"

\* A server that has decided to open is counted as if it had opened.
RoomIsCounted ==
    Cardinality(Investigating) + Cardinality(Deciding)
        <= MaxConcurrent + Cardinality(Managers) - 1

TypeInv == IncidentTypeOK /\ NamesAreRows

\* What a step may do to the incidents, as far as the theorems go: it leaves them, it
\* inserts one, or it moves one on; and what it makes open, the index allows.
Inserts(i) ==
    \E m \in Managers :
        /\ opening[m] # NoTarget
        /\ incident[i] = "none"
        /\ IndexAllows(i, opening[m])
        /\ incident' = [incident EXCEPT ![i] = "investigating"]
        /\ target' = [target EXCEPT ![i] = opening[m]]
        /\ opening' = [opening EXCEPT ![m] = NoTarget]

Moves(i) ==
    /\ \E s \in States \ {"none", "investigating"} :
         /\ s \in OpenStates => IndexAllows(i, target[i])
         /\ incident' = [incident EXCEPT ![i] = s]
    /\ UNCHANGED <<target, opening>>

Decides ==
    /\ \E m \in Managers, t \in Targets :
         opening[m] = NoTarget /\ opening' = [opening EXCEPT ![m] = t]
    /\ Cardinality(Active) < MaxConcurrent
    /\ UNCHANGED <<incident, target>>

GivesUp ==
    /\ \E m \in Managers : opening' = [opening EXCEPT ![m] = NoTarget]
    /\ UNCHANGED <<incident, target>>

Leaves == UNCHANGED <<incident, target, opening>>

-----------------------------------------------------------------------------
(* Types *)

LEMMA TypeInit == IncidentInit => TypeInv
  BY IncidentAssumption
  DEF IncidentInit, TypeInv, IncidentTypeOK, NamesAreRows, States, OpenStates, ClosedStates,
      AgentPhases, AgentStates, Passes

LEMMA EventsType ==
  ASSUME TypeInv, NEW t \in Targets, Attach(t) \/ \E m \in Managers : DecideToOpen(m, t)
  PROVE  TypeInv'
  BY IncidentAssumption
  DEF TypeInv, IncidentTypeOK, NamesAreRows, rows, clocks, operator, reaper, Attach, DecideToOpen

LEMMA OpeningType ==
  ASSUME TypeInv, NEW m \in Managers, OpenFails(m) \/ \E i \in Ids : OpenIncident(m, i)
  PROVE  TypeInv'
  <1> USE DEF TypeInv, IncidentTypeOK, NamesAreRows, rows, clocks, operator, reaper
  <1>1. CASE OpenFails(m)
    BY <1>1 DEF OpenFails
  <1>2. ASSUME NEW i \in Ids, OpenIncident(m, i)
        PROVE  TypeInv'
    BY <1>2 DEF OpenIncident, SetAgent, States, OpenStates, AgentPhases, AgentStates
  <1> QED BY <1>1, <1>2

LEMMA AgentsType ==
  ASSUME TypeInv, NEW p \in AgentPhases, NEW i \in Ids,
         \/ Report(p, i) \/ StoreReport(p, i) \/ ReportFails(p, i) \/ AgentEnds(p, i)
         \/ AgentExpires(i)
  PROVE  TypeInv'
  <1> USE IncidentAssumption
      DEF TypeInv, IncidentTypeOK, NamesAreRows, rows, clocks, operator, reaper,
          AgentPhases, AgentStates, SetAgent
  <1>1. CASE Report(p, i)
    BY <1>1 DEF Report
  <1>2. CASE StoreReport(p, i)
    BY <1>2 DEF StoreReport, SetState, States, OpenStates, ClosedStates
  <1>3. CASE ReportFails(p, i)
    BY <1>3 DEF ReportFails
  <1>4. CASE AgentEnds(p, i)
    BY <1>4 DEF AgentEnds
  <1>5. CASE AgentExpires(i)
    BY <1>5 DEF AgentExpires
  <1> QED BY <1>1, <1>2, <1>3, <1>4, <1>5

LEMMA OperatorType ==
  ASSUME TypeInv, NEW i \in Ids,
         \/ Approve(i) \/ SpawnImplement(i) \/ SpawnFails(i) \/ Revert(i) \/ RecordJob(i)
         \/ ApprovalDies(i) \/ Close(i)
  PROVE  TypeInv'
  <1> USE IncidentAssumption
      DEF TypeInv, IncidentTypeOK, NamesAreRows, rows, clocks, operator, reaper,
          AgentPhases, AgentStates, SetState, States, OpenStates, ClosedStates
  <1>1. CASE Approve(i)
    BY <1>1 DEF Approve
  <1>2. CASE SpawnImplement(i)
    BY <1>2 DEF SpawnImplement
  <1>3. CASE SpawnFails(i) \/ ApprovalDies(i)
    BY <1>3 DEF SpawnFails, ApprovalDies
  <1>4. CASE Revert(i)
    BY <1>4 DEF Revert
  <1>5. CASE RecordJob(i)
    BY <1>5 DEF RecordJob
  <1>6. CASE Close(i)
    BY <1>6 DEF Close
  <1> QED BY <1>1, <1>2, <1>3, <1>4, <1>5, <1>6

LEMMA ReaperType ==
  ASSUME TypeInv,
         ReaperLists \/ IncidentTick \/ \E i \in Ids : Reap(i) \/ ReapSkips(i)
  PROVE  TypeInv'
  <1> USE IncidentAssumption
      DEF TypeInv, IncidentTypeOK, NamesAreRows, rows, clocks, operator, reaper,
          AgentPhases, AgentStates
  <1>1. CASE ReaperLists
    BY <1>1 DEF ReaperLists, Stuck, Waiting, Passes
  <1>2. ASSUME NEW i \in Ids, Reap(i)
        PROVE  TypeInv'
    BY <1>2 DEF Reap, SetState, States, OpenStates, ClosedStates
  <1>3. ASSUME NEW i \in Ids, ReapSkips(i)
        PROVE  TypeInv'
    BY <1>3 DEF ReapSkips
  <1>4. CASE IncidentTick
    BY <1>4 DEF IncidentTick, IsOpen
  <1> QED BY <1>1, <1>2, <1>3, <1>4

LEMMA TypeStep == TypeInv /\ [IncidentNext]_IncidentVars => TypeInv'
  <1> SUFFICES ASSUME TypeInv, [IncidentNext]_IncidentVars PROVE TypeInv'
    OBVIOUS
  <1>1. CASE UNCHANGED IncidentVars
    BY <1>1
    DEF IncidentVars, TypeInv, IncidentTypeOK, NamesAreRows, rows, clocks, operator, reaper
  <1>2. CASE IncidentNext
    <2>1. ASSUME NEW t \in Targets, Attach(t) \/ \E m \in Managers : DecideToOpen(m, t)
          PROVE  TypeInv'
      BY <2>1, EventsType
    <2>2. ASSUME NEW m \in Managers, OpenFails(m) \/ \E i \in Ids : OpenIncident(m, i)
          PROVE  TypeInv'
      BY <2>2, OpeningType
    <2>3. ASSUME NEW p \in AgentPhases, NEW i \in Ids,
                 Report(p, i) \/ StoreReport(p, i) \/ ReportFails(p, i) \/ AgentEnds(p, i)
          PROVE  TypeInv'
      BY <2>3, AgentsType
    <2>4. ASSUME NEW i \in Ids,
                 \/ Approve(i) \/ SpawnImplement(i) \/ SpawnFails(i) \/ Revert(i)
                 \/ RecordJob(i) \/ ApprovalDies(i) \/ Close(i)
          PROVE  TypeInv'
      BY <2>4, OperatorType
    <2>5. ASSUME NEW i \in Ids, AgentExpires(i)
          PROVE  TypeInv'
      BY <2>5, AgentsType DEF AgentPhases
    <2>6. ASSUME ReaperLists \/ IncidentTick \/ \E i \in Ids : Reap(i) \/ ReapSkips(i)
          PROVE  TypeInv'
      BY <2>6, ReaperType
    <2> QED BY <1>2, <2>1, <2>2, <2>3, <2>4, <2>5, <2>6 DEF IncidentNext
  <1> QED BY <1>1, <1>2

\* Every row, agent, clock and list of Incidents stays in its type, and a row that was
\* inserted has a target.
THEOREM IncidentTypeCorrect == IncidentSpec => []IncidentTypeOK
  <1>1. IncidentSpec => []TypeInv
    BY TypeInit, TypeStep, PTL DEF IncidentSpec
  <1>2. TypeInv => IncidentTypeOK
    BY DEF TypeInv
  <1> QED BY <1>1, <1>2, PTL

-----------------------------------------------------------------------------
(* What a step does to the incidents *)

LEMMA StepsAre ==
  ASSUME TypeInv, [IncidentNext]_IncidentVars
  PROVE  \/ Leaves \/ Decides \/ GivesUp
         \/ \E i \in Ids : Inserts(i) \/ Moves(i)
  <1> USE DEF rows, clocks, operator, reaper
  <1>1. CASE UNCHANGED IncidentVars
    BY <1>1 DEF IncidentVars, Leaves
  <1>2. ASSUME NEW t \in Targets, Attach(t) \/ \E m \in Managers : DecideToOpen(m, t)
        PROVE  Leaves \/ Decides
    BY <1>2 DEF Attach, DecideToOpen, Leaves, Decides
  <1>3. ASSUME NEW m \in Managers, OpenFails(m)
        PROVE  GivesUp
    BY <1>3 DEF OpenFails, GivesUp
  <1>4. ASSUME NEW m \in Managers, NEW i \in Ids, OpenIncident(m, i)
        PROVE  Inserts(i)
    BY <1>4 DEF OpenIncident, Inserts
  <1>5. ASSUME NEW p \in AgentPhases, NEW i \in Ids,
               Report(p, i) \/ ReportFails(p, i) \/ AgentEnds(p, i)
        PROVE  Leaves
    BY <1>5 DEF Report, ReportFails, AgentEnds, Leaves
  <1>6. ASSUME NEW p \in AgentPhases, NEW i \in Ids, StoreReport(p, i)
        PROVE  Moves(i)
    BY <1>6 DEF StoreReport, SetState, Moves, States, OpenStates, ClosedStates
  <1>7. ASSUME NEW i \in Ids, Approve(i) \/ Revert(i) \/ Close(i) \/ Reap(i)
        PROVE  Moves(i)
    BY <1>7
    DEF Approve, Revert, Close, Reap, SetState, Moves, States, OpenStates, ClosedStates
  <1>8. ASSUME NEW i \in Ids,
               \/ SpawnImplement(i) \/ SpawnFails(i) \/ RecordJob(i) \/ ApprovalDies(i)
               \/ AgentExpires(i) \/ ReapSkips(i)
        PROVE  Leaves
    BY <1>8
    DEF SpawnImplement, SpawnFails, RecordJob, ApprovalDies, AgentExpires, ReapSkips, Leaves
  <1>9. ReaperLists \/ IncidentTick => Leaves
    BY DEF ReaperLists, IncidentTick, Leaves
  <1> QED BY <1>1, <1>2, <1>3, <1>4, <1>5, <1>6, <1>7, <1>8, <1>9 DEF IncidentNext

-----------------------------------------------------------------------------
(* One open incident per target *)

LEMMA OpenStep ==
  ASSUME TypeInv, OneOpenPerTarget, [IncidentNext]_IncidentVars
  PROVE  OneOpenPerTarget'
  <1> USE DEF OneOpenPerTarget, IsOpen, IndexAllows
  <1>1. CASE Leaves \/ Decides \/ GivesUp
    BY <1>1 DEF Leaves, Decides, GivesUp
  <1>2. ASSUME NEW i \in Ids, Inserts(i)
        PROVE  OneOpenPerTarget'
    BY <1>2 DEF Inserts, TypeInv, IncidentTypeOK
  <1>3. ASSUME NEW i \in Ids, Moves(i)
        PROVE  OneOpenPerTarget'
    BY <1>3 DEF Moves, TypeInv, IncidentTypeOK
  <1> QED BY <1>1, <1>2, <1>3, StepsAre

\* However late a report, an approval, a revert or the reaper writes, and however many
\* servers handle events, no target has two open incidents.
THEOREM OneOpenPerTargetHolds == IncidentSpec => []OneOpenPerTarget
  <1>1. IncidentInit => TypeInv /\ OneOpenPerTarget
    BY TypeInit DEF IncidentInit, OneOpenPerTarget, IsOpen, OpenStates
  <1>2. TypeInv /\ OneOpenPerTarget /\ [IncidentNext]_IncidentVars
          => TypeInv' /\ OneOpenPerTarget'
    BY TypeStep, OpenStep
  <1> QED BY <1>1, <1>2, PTL DEF IncidentSpec

-----------------------------------------------------------------------------
(* The cap *)

LEMMA Counts ==
  /\ IsFiniteSet(Investigating) /\ Cardinality(Investigating) \in Nat
  /\ IsFiniteSet(Deciding) /\ Cardinality(Deciding) \in Nat
  /\ Cardinality(Managers) \in Nat \ {0}
  /\ IsFiniteSet(Active) /\ Cardinality(Active) \in Nat
  /\ Cardinality(Investigating) <= Cardinality(Active)
  <1> USE IncidentAssumption
  <1>1. Investigating \subseteq Ids /\ Active \subseteq Ids /\ Deciding \subseteq Managers
        /\ Investigating \subseteq Active
    BY DEF Investigating, Deciding, Active
  <1>2. IsFiniteSet(Investigating) /\ IsFiniteSet(Active) /\ IsFiniteSet(Deciding)
    BY <1>1, FS_Subset
  <1>3. Cardinality(Investigating) <= Cardinality(Active)
    BY <1>1, <1>2, FS_Subset
  <1>4. Cardinality(Managers) \in Nat /\ Cardinality(Managers) # 0
    BY FS_CardinalityType, FS_EmptySet
  <1> QED BY <1>2, <1>3, <1>4, FS_CardinalityType

LEMMA RoomStep ==
  ASSUME TypeInv, TypeInv', RoomIsCounted, [IncidentNext]_IncidentVars
  PROVE  RoomIsCounted'
  <1> USE DEF RoomIsCounted
  <1>1. CASE Leaves
    BY <1>1 DEF Leaves, Investigating, Deciding
  <1>2. CASE Decides
    <2>1. PICK m \in Managers, t \in Targets :
            opening[m] = NoTarget /\ opening' = [opening EXCEPT ![m] = t]
      BY <1>2 DEF Decides
    <2>2. Investigating' = Investigating
      BY <1>2 DEF Decides, Investigating
    <2>3. Deciding' \subseteq Managers
      BY DEF Deciding
    <2>4. Cardinality(Deciding') <= Cardinality(Managers)
      BY <2>3, IncidentAssumption, FS_Subset
    <2>5. Cardinality(Deciding') \in Nat
      BY <2>3, IncidentAssumption, FS_Subset, FS_CardinalityType
    <2>6. Cardinality(Investigating) < MaxConcurrent
      BY <1>2, Counts, IncidentAssumption DEF Decides
    <2> QED BY <2>2, <2>4, <2>5, <2>6, Counts, IncidentAssumption
  <1>3. CASE GivesUp
    <2>1. Investigating' = Investigating /\ Deciding' \subseteq Deciding
      BY <1>3 DEF GivesUp, Investigating, Deciding, TypeInv, IncidentTypeOK
    <2>2. Cardinality(Deciding') <= Cardinality(Deciding) /\ Cardinality(Deciding') \in Nat
      BY <2>1, Counts, FS_Subset, FS_CardinalityType
    <2> QED BY <2>1, <2>2, Counts, IncidentAssumption
  <1>4. ASSUME NEW i \in Ids, Inserts(i)
        PROVE  RoomIsCounted'
    <2>1. PICK m \in Managers :
            /\ opening[m] # NoTarget /\ opening' = [opening EXCEPT ![m] = NoTarget]
            /\ incident[i] = "none" /\ incident' = [incident EXCEPT ![i] = "investigating"]
      BY <1>4 DEF Inserts
    <2>2. Investigating' = Investigating \union {i} /\ i \notin Investigating
      BY <2>1 DEF Investigating, TypeInv, IncidentTypeOK
    <2>3. Deciding' = Deciding \ {m} /\ m \in Deciding
      BY <2>1 DEF Deciding, TypeInv, IncidentTypeOK
    <2>4. Cardinality(Investigating') = Cardinality(Investigating) + 1
      BY <2>2, Counts, FS_AddElement
    <2>5. Cardinality(Deciding') = Cardinality(Deciding) - 1
      BY <2>3, Counts, FS_RemoveElement
    <2> QED BY <2>4, <2>5, Counts, IncidentAssumption
  <1>5. ASSUME NEW i \in Ids, Moves(i)
        PROVE  RoomIsCounted'
    <2>1. Investigating' \subseteq Investigating /\ Deciding' = Deciding
      BY <1>5 DEF Moves, Investigating, Deciding, TypeInv, IncidentTypeOK
    <2>2. Cardinality(Investigating') <= Cardinality(Investigating)
          /\ Cardinality(Investigating') \in Nat
      BY <2>1, Counts, FS_Subset, FS_CardinalityType
    <2> QED BY <2>1, <2>2, Counts, IncidentAssumption
  <1> QED BY <1>1, <1>2, <1>3, <1>4, <1>5, StepsAre

\* A storm of events opens at most MaxConcurrent investigations, and one more for each
\* further server that takes itself for the leader.
THEOREM InvestigationsKeepTheCapHolds == IncidentSpec => []InvestigationsKeepTheCap
  <1>1. IncidentInit => TypeInv /\ RoomIsCounted
    <2> SUFFICES ASSUME IncidentInit PROVE RoomIsCounted
      BY TypeInit
    <2>1. Investigating = {} /\ Deciding = {}
      BY DEF IncidentInit, Investigating, Deciding
    <2> QED BY <2>1, Counts, FS_EmptySet, IncidentAssumption DEF RoomIsCounted
  <1>2. TypeInv /\ RoomIsCounted /\ [IncidentNext]_IncidentVars => TypeInv' /\ RoomIsCounted'
    BY TypeStep, RoomStep
  <1>3. RoomIsCounted => InvestigationsKeepTheCap
    BY Counts, IncidentAssumption DEF RoomIsCounted, InvestigationsKeepTheCap, Investigating
  <1> QED BY <1>1, <1>2, <1>3, PTL DEF IncidentSpec
===============================================================================
