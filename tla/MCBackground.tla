----------------------------- MODULE MCBackground -----------------------------
(***************************************************************************)
(* Small instances of three background loops, checked side by side: in each *)
(* behaviour one of them, "part", is at work and the others do not start.  *)
(***************************************************************************)
EXTENDS ReleaseRun, Incidents, Scaledown

CONSTANTS r1, l1, i1, t1, s1

VARIABLE part

OneRunner == {r1}
Parts == {"release", "incidents", "scale"}

SumVars == <<part, vars, IncidentVars, ScaleVars>>

SumInit ==
    /\ part \in Parts /\ Init /\ IncidentInit /\ ScaleInit
    /\ part # "scale" => envKind.production /\ envKind.autoscaled /\ allowed

SumNext ==
    /\ UNCHANGED part
    /\ \/ part = "release" /\ Next /\ UNCHANGED <<IncidentVars, ScaleVars>>
       \/ part = "incidents" /\ IncidentNext /\ UNCHANGED <<vars, ScaleVars>>
       \/ part = "scale" /\ ScaleNext /\ UNCHANGED <<vars, IncidentVars>>

\* The fairness of the components.  Only one of them is at work in a behaviour, so one
\* condition may speak for an action of each.
Release(A) == part = "release" /\ A /\ UNCHANGED <<part, IncidentVars, ScaleVars>>
Agents(A) == part = "incidents" /\ A /\ UNCHANGED <<part, vars, ScaleVars>>
Scales(A) == part = "scale" /\ A /\ UNCHANGED <<part, vars, IncidentVars>>

W1 == Release(\E r \in Runners : Proceed(r)) \/ Agents(ReaperLists) \/ Scales(WatcherWakes(l1))
W2 == Release(JobEnds) \/ Agents(IncidentTick) \/ Scales(SetAutoSleep(l1))
W3 == Release(Sync) \/ Agents(ReapSkips(i1))
       \/ Scales(SleepReads(l1) \/ SleepPatches(l1) \/ SleepPersists(l1) \/ SleepFails(l1))
W4 == Agents(ApprovalDies(i1)) \/ Scales(Serve)
W5 == Agents(OpenFails(s1)) \/ Scales(HoldRequest)
W6 == Agents(StoreReport("investigate", i1) \/ ReportFails("investigate", i1)) \/ Scales(Retry)
W7 == Agents(StoreReport("implement", i1) \/ ReportFails("implement", i1)) \/ Scales(Render)
W8 == Scales(PodsReady)
S1 == Agents(Reap(i1)) \/ Scales(WakePersists(l1))
S2 == Agents(AgentEnds("investigate", i1)) \/ Scales(WakePatches(l1))
S3 == Agents(AgentEnds("implement", i1)) \/ Scales(WakePersists(Activator))
S4 == Scales(WakePatches(Activator))

SumFairness ==
    /\ WF_SumVars(W1) /\ WF_SumVars(W2) /\ WF_SumVars(W3) /\ WF_SumVars(W4)
    /\ WF_SumVars(W5) /\ WF_SumVars(W6) /\ WF_SumVars(W7) /\ WF_SumVars(W8)
    /\ SF_SumVars(S1) /\ SF_SumVars(S2) /\ SF_SumVars(S3) /\ SF_SumVars(S4)

SumFairSpec == SumInit /\ [][SumNext]_SumVars /\ SumFairness
=============================================================================
