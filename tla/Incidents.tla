------------------------------- MODULE Incidents -------------------------------
(***************************************************************************)
(* Incidents (internal/incidents, the /api/incidents handlers, the Incident *)
(* table): an event opens an incident and an agent Job investigates it, the *)
(* operator approves, a second Job opens a PR, and a reaper closes what has *)
(* no agent left.  Every writer sets the state by id, whatever it is by     *)
(* then; the table's partial unique index is all that stands behind them.   *)
(***************************************************************************)
EXTENDS Naturals, FiniteSets

CONSTANTS
    Ids,       \* the incidents there may ever be
    Targets,   \* what events are about
    NoTarget,  \* no target: an unused id, an idle event handler
    Managers,  \* servers that handle events: the leader, and for a moment the one before
    MaxConcurrent,      \* agents at work before events are dropped
    InvestigateTimeout, \* reaper.go, in ticks
    IdleTTL,            \* idleOpenTTL, in ticks
    MaxApprovals        \* bound on the operator's approvals

ASSUME IncidentAssumption ==
    /\ IsFiniteSet(Ids) /\ NoTarget \notin Targets
    /\ IsFiniteSet(Managers) /\ Managers # {}
    /\ MaxConcurrent \in Nat \ {0}
    /\ InvestigateTimeout \in Nat /\ IdleTTL \in Nat /\ MaxApprovals \in Nat

VARIABLES
    incident, \* the state of each row; "none" before it is inserted
    target,   \* its targetKey
    implJob,  \* implementJob is recorded
    agent,    \* [phase -> [id -> the agent's Job]]
    opened, quiet, \* ticks since createdAt and updatedAt, up to the reaper's limits
    opening,  \* per manager: the target handle has decided to open, under slotMu
    approval, \* the operator's "go" in SpawnImplementFor
    approvals, \* how many there were
    pass, listed \* the reaper: what it is at, and the rows it listed and has not done

rows == <<incident, target, implJob>>
clocks == <<opened, quiet>>
reaper == <<pass, listed>>
operator == <<approval, approvals>>
IncidentVars == <<rows, agent, clocks, opening, operator, reaper>>

OpenStates == {"investigating", "awaiting_feedback", "implementing", "pr_open"}
ClosedStates == {"resolved", "timed_out"} \* resolved stands for rejected as well
States == OpenStates \union ClosedStates \union {"none"}
AgentPhases == {"investigate", "implement"}
AgentStates == {"none", "running", "posting", "ended"}
Passes == {"investigating", "implementing", "waiting"}

IsOpen(i) == incident[i] \in OpenStates
Active == {i \in Ids : incident[i] \in {"investigating", "implementing"}}

\* Mutant: the index leaves out the states that wait for a human.
IndexSkipsWaiting(i, t) ==
    \A j \in Ids \ {i} : target[j] = t => incident[j] \notin {"investigating", "implementing"}

\* Incident_open_target_idx: may row i of target t be open?
IndexAllows(i, t) == \A j \in Ids \ {i} : target[j] = t => ~IsOpen(j)

IncidentTypeOK ==
    /\ incident \in [Ids -> States]
    /\ target \in [Ids -> Targets \union {NoTarget}]
    /\ implJob \in [Ids -> BOOLEAN]
    /\ agent \in [AgentPhases -> [Ids -> AgentStates]]
    /\ opened \in [Ids -> 0 .. InvestigateTimeout]
    /\ quiet \in [Ids -> 0 .. IdleTTL]
    /\ opening \in [Managers -> Targets \union {NoTarget}]
    /\ approval \in [Ids -> {"idle", "spawn", "record", "revert"}]
    /\ approvals \in 0 .. MaxApprovals
    /\ pass \in Passes /\ listed \in SUBSET Ids
    /\ \A i \in Ids : incident[i] # "none" => target[i] # NoTarget

IncidentInit ==
    /\ incident = [i \in Ids |-> "none"]
    /\ target = [i \in Ids |-> NoTarget]
    /\ implJob = [i \in Ids |-> FALSE]
    /\ agent = [p \in AgentPhases |-> [i \in Ids |-> "none"]]
    /\ opened = [i \in Ids |-> 0] /\ quiet = [i \in Ids |-> 0]
    /\ opening = [m \in Managers |-> NoTarget]
    /\ approval = [i \in Ids |-> "idle"]
    /\ approvals = 0
    /\ pass = "waiting" /\ listed = {}

\* The state is set, and updatedAt with it, unless the index refuses; the rest of the
\* row is as it was.
SetState(i, s) ==
    /\ s \in OpenStates => IndexAllows(i, target[i])
    /\ incident' = [incident EXCEPT ![i] = s]
    /\ quiet' = [quiet EXCEPT ![i] = 0]
    /\ UNCHANGED <<target, opened>>

SetAgent(p, i, s) == agent' = [agent EXCEPT ![p][i] = s]

-----------------------------------------------------------------------------
(* Events *)

\* handle, decideAttach: the recurrence is appended, and counts as activity.
Attach(t) ==
    /\ \E i \in Ids :
         /\ IsOpen(i) /\ target[i] = t
         /\ quiet' = [quiet EXCEPT ![i] = 0]
    /\ UNCHANGED <<rows, agent, opened, opening, operator, reaper>>

\* Mutant: the cap is off by one.
DecideToOpenOneMore(m, t) ==
    /\ opening[m] = NoTarget
    /\ Cardinality(Active) <= MaxConcurrent
    /\ opening' = [opening EXCEPT ![m] = t]
    /\ UNCHANGED <<rows, agent, clocks, operator, reaper>>

\* handle, decideSpawn: there is room.  A lookup that fails counts as one that found
\* nothing, so the target may have an open incident.  An event that the cooldown or the cap
\* drops is as good as none.
DecideToOpen(m, t) ==
    /\ opening[m] = NoTarget
    /\ Cardinality(Active) < MaxConcurrent
    /\ opening' = [opening EXCEPT ![m] = t]
    /\ UNCHANGED <<rows, agent, clocks, operator, reaper>>

\* openAndSpawn.  The row stays when no Job can be created.
OpenIncident(m, i) ==
    /\ opening[m] # NoTarget
    /\ incident[i] = "none"
    /\ opening' = [opening EXCEPT ![m] = NoTarget]
    /\ IndexAllows(i, opening[m])
    /\ incident' = [incident EXCEPT ![i] = "investigating"]
    /\ target' = [target EXCEPT ![i] = opening[m]]
    /\ \E s \in {"running", "none"} : SetAgent("investigate", i, s)
    /\ UNCHANGED <<implJob, clocks, operator, reaper>>

\* The index refuses, the insert fails, or the server goes down.
OpenFails(m) ==
    /\ opening[m] # NoTarget
    /\ opening' = [opening EXCEPT ![m] = NoTarget]
    /\ UNCHANGED <<rows, agent, clocks, operator, reaper>>

-----------------------------------------------------------------------------
(* The agents' callbacks, and the end of their Jobs *)

Expected == [investigate |-> "investigating", implement |-> "implementing"]

\* loadIncidentForAgent and the state check.
Report(p, i) ==
    /\ agent[p][i] = "running"
    /\ incident[i] = Expected[p]
    /\ SetAgent(p, i, "posting")
    /\ UNCHANGED <<rows, clocks, opening, operator, reaper>>

\* Findings and PR store what they were sent, by id.  Without a PR there is a note, which
\* resolves the incident.
StoreReport(p, i) ==
    /\ agent[p][i] = "posting"
    /\ SetAgent(p, i, "running")
    /\ \E s \in IF p = "investigate" THEN {"awaiting_feedback"} ELSE {"pr_open", "resolved"} :
         SetState(i, s)
    /\ UNCHANGED <<implJob, opening, operator, reaper>>

ReportFails(p, i) ==
    /\ agent[p][i] = "posting"
    /\ SetAgent(p, i, "running")
    /\ UNCHANGED <<rows, clocks, opening, operator, reaper>>

\* backoffLimit 0 and activeDeadlineSeconds: a Job runs once and ends.
AgentEnds(p, i) ==
    /\ agent[p][i] = "running"
    /\ SetAgent(p, i, "ended")
    /\ UNCHANGED <<rows, clocks, opening, operator, reaper>>

\* ttlSecondsAfterFinished
AgentExpires(i) ==
    /\ agent["implement"][i] = "ended"
    /\ SetAgent("implement", i, "none")
    /\ UNCHANGED <<rows, clocks, opening, operator, reaper>>

-----------------------------------------------------------------------------
(* The operator *)

\* Feedback with "go": SpawnImplementFor does not ask for the incident's state.
Approve(i) ==
    /\ \A j \in Ids : approval[j] = "idle"
    /\ incident[i] # "none"
    /\ SetState(i, "implementing")
    /\ approval' = [approval EXCEPT ![i] = "spawn"]
    /\ approvals < MaxApprovals /\ approvals' = approvals + 1
    /\ UNCHANGED <<implJob, agent, opening, reaper>>

\* The Job has the incident's name: one that exists already is taken for this one.
SpawnImplement(i) ==
    /\ approval[i] = "spawn"
    /\ approval' = [approval EXCEPT ![i] = "record"]
    /\ agent' = [agent EXCEPT !["implement"][i] = IF @ = "none" THEN "running" ELSE @]
    /\ UNCHANGED <<rows, clocks, opening, approvals, reaper>>

SpawnFails(i) ==
    /\ approval[i] = "spawn"
    /\ approval' = [approval EXCEPT ![i] = "revert"]
    /\ UNCHANGED <<rows, agent, clocks, opening, approvals, reaper>>

Revert(i) ==
    /\ approval[i] = "revert"
    /\ approval' = [approval EXCEPT ![i] = "idle"]
    /\ SetState(i, "awaiting_feedback")
    /\ UNCHANGED <<implJob, agent, opening, approvals, reaper>>

RecordJob(i) ==
    /\ approval[i] = "record"
    /\ approval' = [approval EXCEPT ![i] = "idle"]
    /\ implJob' = [implJob EXCEPT ![i] = TRUE]
    /\ quiet' = [quiet EXCEPT ![i] = 0]
    /\ UNCHANGED <<incident, target, agent, opened, opening, approvals, reaper>>

\* The caller hangs up or ten seconds pass, and with them the context of every call that
\* is left, the revert included; or the server goes down.
ApprovalDies(i) ==
    /\ approval[i] # "idle"
    /\ approval' = [approval EXCEPT ![i] = "idle"]
    /\ UNCHANGED <<rows, agent, clocks, opening, approvals, reaper>>

\* Resolve, and Feedback with "reject".
Close(i) ==
    /\ incident[i] # "none"
    /\ SetState(i, "resolved")
    /\ UNCHANGED <<implJob, agent, opening, operator, reaper>>

-----------------------------------------------------------------------------
(* The reaper *)

\* Mutant: the two hours run from the last activity.
StuckSinceUpdate(i) == incident[i] = "investigating" /\ quiet[i] = IdleTTL

\* reapStuck: the two hours run from createdAt, so that recurrences do not prolong them.
Stuck(i) == incident[i] = "investigating" /\ opened[i] = InvestigateTimeout

Waiting(i) == incident[i] \in {"awaiting_feedback", "pr_open"} /\ quiet[i] = IdleTTL

\* One list after the other: reapStuck, reapStuckImplementing, reapIdleOpen.
ReaperLists ==
    /\ listed = {}
    /\ \/ /\ pass = "waiting" /\ pass' = "investigating"
          /\ listed' = {i \in Ids : Stuck(i)}
       \/ /\ pass = "investigating" /\ pass' = "implementing"
          /\ listed' = {i \in Ids : incident[i] = "implementing" /\ implJob[i]}
       \/ /\ pass = "implementing" /\ pass' = "waiting"
          /\ listed' = {i \in Ids : Waiting(i)}
    /\ UNCHANGED <<rows, agent, clocks, opening, operator>>

\* A finished implement Job, or none; the grace after a completion is left out.
AgentIsGone(i) == agent["implement"][i] \in {"none", "ended"}

\* The trail entry and the new state; the row may have moved on since it was listed.
Reap(i) ==
    /\ i \in listed
    /\ pass = "implementing" => AgentIsGone(i)
    /\ listed' = listed \ {i}
    /\ SetState(i, "timed_out")
    /\ UNCHANGED <<implJob, agent, opening, operator, pass>>

\* The agent is at work after all, or the write of the state fails, perhaps after that of
\* the entry.
ReapSkips(i) ==
    /\ i \in listed
    /\ listed' = listed \ {i}
    /\ quiet' \in {quiet, [quiet EXCEPT ![i] = 0]}
    /\ UNCHANGED <<rows, agent, opened, opening, operator, pass>>

\* Time, as far as the reaper asks for it.
IncidentTick ==
    LET Runs(i) == incident[i] = "investigating" /\ opened[i] < InvestigateTimeout
        Rests(i) == IsOpen(i) /\ incident[i] # "implementing" /\ quiet[i] < IdleTTL
    IN /\ \E i \in Ids : Runs(i) \/ Rests(i)
       /\ opened' = [i \in Ids |-> IF Runs(i) THEN opened[i] + 1 ELSE opened[i]]
       /\ quiet' = [i \in Ids |-> IF Rests(i) THEN quiet[i] + 1 ELSE quiet[i]]
       /\ UNCHANGED <<rows, agent, opening, operator, reaper>>

IncidentNext ==
    \/ \E t \in Targets : Attach(t) \/ \E m \in Managers : DecideToOpen(m, t)
    \/ \E m \in Managers : OpenFails(m) \/ \E i \in Ids : OpenIncident(m, i)
    \/ \E p \in AgentPhases, i \in Ids :
         Report(p, i) \/ StoreReport(p, i) \/ ReportFails(p, i) \/ AgentEnds(p, i)
    \/ \E i \in Ids :
         \/ Approve(i) \/ SpawnImplement(i) \/ SpawnFails(i) \/ Revert(i) \/ RecordJob(i)
         \/ ApprovalDies(i) \/ Close(i) \/ AgentExpires(i) \/ Reap(i) \/ ReapSkips(i)
    \/ ReaperLists
    \/ IncidentTick

IncidentSpec == IncidentInit /\ [][IncidentNext]_IncidentVars

-----------------------------------------------------------------------------
(* Properties *)

\* Whoever writes late, a target has at most one open incident, and so one agent's branch
\* and one thread (0004_incidents.sql: "at-most-one-open-incident-per-target").
OneOpenPerTarget ==
    \A i, j \in Ids : IsOpen(i) /\ IsOpen(j) /\ target[i] = target[j] => i = j

\* A storm of events opens no more investigations than MaxConcurrent, one more for each
\* further server that still takes itself for the leader (handle, slotMu); an approval is
\* not counted, and takes room.
InvestigationsKeepTheCap ==
    Cardinality({i \in Ids : incident[i] = "investigating"} )
        <= MaxConcurrent + Cardinality(Managers) - 1

\* An investigation ends although its agent dies and its problem recurs for ever, and so
\* does an implementation whose Job was recorded (reapStuck, reapStuckImplementing).
AgentPhasesEnd ==
    \A i \in Ids :
      /\ incident[i] = "investigating" ~> incident[i] # "investigating"
      /\ incident[i] = "implementing" /\ implJob[i] ~> incident[i] # "implementing"

\* Every implementation ends: "otherwise hold a MaxConcurrent slot forever" (reaper.go).
\* Violated.
ImplementationsEnd ==
    \A i \in Ids : incident[i] = "implementing" ~> incident[i] # "implementing"

\* Only the operator opens a closed incident again: a late report "must not re-open a
\* closed incident" (Findings).  Violated.
ReportsDoNotReopen ==
    [][\A i \in Ids : incident[i] \in ClosedStates =>
         incident'[i] \in ClosedStates \union {"implementing"} \/ approval[i] = "revert"]_incident

\* The reaper's ticker goes on and a database that is tried for ever answers once, Jobs
\* end, and so does what was begun.
IncidentFairness ==
    /\ WF_IncidentVars(ReaperLists) /\ WF_IncidentVars(IncidentTick)
    /\ \A i \in Ids :
         /\ SF_IncidentVars(Reap(i)) /\ WF_IncidentVars(ReapSkips(i))
         /\ WF_IncidentVars(ApprovalDies(i))
         /\ \A p \in AgentPhases :
              SF_IncidentVars(AgentEnds(p, i)) /\ WF_IncidentVars(StoreReport(p, i) \/ ReportFails(p, i))
    /\ \A m \in Managers : WF_IncidentVars(OpenFails(m))

IncidentFairSpec == IncidentSpec /\ IncidentFairness
=============================================================================
