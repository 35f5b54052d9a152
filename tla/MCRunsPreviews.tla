---------------------------- MODULE MCRunsPreviews ----------------------------
(***************************************************************************)
(* Small instances of a one-off run and of previews, checked side by side:  *)
(* in each behaviour one of them, "part", is at work.                       *)
(***************************************************************************)
EXTENDS OneOffRun, Preview

VARIABLE part

SumVars == <<part, RunVars, PreviewVars>>

SumInit == part \in {"run", "preview"} /\ RunInit /\ PreviewInit

Executes(A) == part = "run" /\ A /\ UNCHANGED <<part, PreviewVars>>
Previews(A) == part = "preview" /\ A /\ UNCHANGED <<part, RunVars>>

SumNext == Executes(RunNext) \/ Previews(PreviewNext)

\* The fairness of both.  Only one of them is at work in a behaviour, so one condition may
\* speak for an action of each.
W1 == Executes(Observe) \/ Previews(\E r \in Repos : Deliver(r, 1))
W2 == Executes(CancelPatches \/ CancelDeletesJob) \/ Previews(\E r \in Repos : Worker(r))
W3 == Executes(OperatorApplies) \/ Previews(\E r \in Repos : Building(r))
W4 == Executes(RunJobEnds) \/ Previews(\E r \in Repos : Expire(r))
W5 == Executes(SyncRun) \/ Previews(\E r \in Repos : FinalizeEnv(r))
W6 == Executes(SyncJob) \/ Previews(FinalizeClone)
W7 == Previews(Sweeping)
S1 == Executes(MarkFromJob \/ MarkRunning \/ FailIfJobLost \/ NothingToMark)
S2 == Executes(RunTick)

SumFairSpec ==
    /\ SumInit /\ [][SumNext]_SumVars
    /\ WF_SumVars(W1) /\ WF_SumVars(W2) /\ WF_SumVars(W3) /\ WF_SumVars(W4)
    /\ WF_SumVars(W5) /\ WF_SumVars(W6) /\ WF_SumVars(W7)
    /\ SF_SumVars(S1) /\ SF_SumVars(S2)
===============================================================================
