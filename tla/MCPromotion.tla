----------------------------- MODULE MCPromotion -----------------------------
(* Small instances of Promotion. *)
EXTENDS Promotion, TLC

CONSTANTS b1, b2, p1, p2

OldThenNew == b1 :> 1 @@ b2 :> 2
Triggers13 == b1 :> 1 @@ b2 :> 3
JustOne == b1 :> 1

OnePoller == {<<p1, b1>>, <<p1, b2>>}
TwoPollers == {<<p1, b1>>, <<p2, b1>>, <<p1, b2>>}
OneBuildTwoPollers == {<<p1, b1>>, <<p2, b1>>}
OneBuildOnePoller == {<<p1, b1>>}
=============================================================================
