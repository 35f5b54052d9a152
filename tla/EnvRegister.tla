----------------------------- MODULE EnvRegister -----------------------------
(***************************************************************************)
(* What the promotion path promises for the image of an environment        *)
(* ("last trigger wins"): an environment is a register that holds the      *)
(* build it runs and the instant that build stands for.  A promotion may   *)
(* write it only with a build triggered no earlier than that instant; a    *)
(* user's rollback may write any build that already existed, and stands    *)
(* for the instant it was asked for.  Promotion implements this register   *)
(* with a Get, a guard, and an Update that carries a resourceVersion.      *)
(***************************************************************************)
EXTENDS Naturals

CONSTANTS
    Builds,     \* builds of one service
    Envs,       \* environments the service's image is deployed to
    NoBuild,    \* the image of an environment no build has reached yet
    Trigger,    \* [Builds -> Nat \ {0}]: when each build was triggered
    Horizon     \* the last instant considered

VARIABLES
    image,      \* [Envs -> Builds \cup {NoBuild}]
    promotedAt  \* [Envs -> 0..Horizon], 0 for "never"

register == <<image, promotedAt>>

RegisterInit ==
    /\ image = [e \in Envs |-> NoBuild]
    /\ promotedAt = [e \in Envs |-> 0]

Write(e, b, t) ==
    /\ image' = [image EXCEPT ![e] = b]
    /\ promotedAt' = [promotedAt EXCEPT ![e] = t]

\* A build reaches an environment on its own: never past a newer trigger.
PromoteTo(e, b) ==
    /\ promotedAt[e] <= Trigger[b]
    /\ Write(e, b, Trigger[b])

\* A user points the environment at a build, at an instant after its trigger.
RollbackTo(e, b, t) ==
    /\ Trigger[b] < t
    /\ Write(e, b, t)

RegisterNext ==
    \E e \in Envs, b \in Builds :
        \/ PromoteTo(e, b)
        \/ \E t \in 1..Horizon : RollbackTo(e, b, t)

RegisterSpec == RegisterInit /\ [][RegisterNext]_register
=============================================================================
