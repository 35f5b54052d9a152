--------------------------- MODULE MCPromotionGate ---------------------------
(* Small instances of PromotionGate: one push to a repository of two services, *)
(* and a later build of the second one, a user's retry of the commit.          *)
EXTENDS PromotionGate

CONSTANTS a1, b1, b2

ServiceOf == [b \in Builds |-> IF b = a1 THEN "a" ELSE "b"]
OneCommit == [b \in Builds |-> "c1"]
OneBranch == [b \in Builds |-> "main"]
Order == [b \in Builds |-> IF b = b2 THEN 2 ELSE 1]
=============================================================================
