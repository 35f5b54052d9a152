----------------------------- MODULE ReleaseHook -----------------------------
(***************************************************************************)
(* What the runner of a release hook promises its callers, however many    *)
(* there are: the hook is tried in attempts, one at a time, each of which  *)
(* ends once and for all, and what a caller is told of an attempt is how   *)
(* that attempt ended.  A caller that is told neither of a success nor of  *)
(* a failure knows nothing.  ReleaseRun implements it with Jobs that share *)
(* one name, gets and deletes by that name, and an informer that lags.     *)
(***************************************************************************)

CONSTANTS
    Callers,
    Attempts,
    NoAttempt   \* what an answer that speaks of none is about

VARIABLES
    fate,       \* [Attempts -> Fates]
    answer      \* [Callers -> [outcome, job]] to the last question

hook == <<fate, answer>>

Unanswered == [outcome |-> "none", job |-> NoAttempt]

HookInit ==
    /\ fate = [j \in Attempts |-> "unborn"]
    /\ answer = [c \in Callers |-> Unanswered]

\* No two attempts are at work at the same time.
Begin(j) ==
    /\ fate[j] = "unborn"
    /\ \A i \in Attempts : fate[i] # "working"
    /\ fate' = [fate EXCEPT ![j] = "working"]
    /\ UNCHANGED answer

End(j) ==
    /\ fate[j] = "working"
    /\ \E f \in {"complete", "failed", "killed"} : fate' = [fate EXCEPT ![j] = f]
    /\ UNCHANGED answer

Ask(c) ==
    /\ answer' = [answer EXCEPT ![c] = Unanswered]
    /\ UNCHANGED fate

Says(c, outcome, j) ==
    /\ answer[c].outcome = "none"
    /\ answer' = [answer EXCEPT ![c] = [outcome |-> outcome, job |-> j]]
    /\ UNCHANGED fate

Answer(c) ==
    \/ \E j \in Attempts : fate[j] = "complete" /\ Says(c, "succeeded", j)
    \/ \E j \in Attempts : fate[j] = "failed" /\ Says(c, "failed", j)
    \/ \E o \in {"skipped", "timedOut", "error"} : Says(c, o, NoAttempt)

HookNext ==
    \/ \E j \in Attempts : Begin(j) \/ End(j)
    \/ \E c \in Callers : Ask(c) \/ Answer(c)

HookSpec == HookInit /\ [][HookNext]_hook
=============================================================================
