----------------------------- MODULE MCBuildQueue -----------------------------
(* Small instances of BuildQueue: builds of a service "a", in the order of their numbers, *)
(* and one of a service "b".                                                              *)
EXTENDS BuildQueue, TLC

CONSTANTS a1, a2, b1

ServiceOf == [b \in QueueBuilds |-> IF b = b1 THEN "b" ELSE "a"]
Order == [b \in QueueBuilds |-> IF b = a2 THEN 2 ELSE 1]
=============================================================================
