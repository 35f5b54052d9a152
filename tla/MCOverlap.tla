------------------------------ MODULE MCOverlap ------------------------------
(***************************************************************************)
(* Small instances of Promotion and of BuildQueue, checked side by side: in *)
(* each behaviour one of them, "part", is at work.  Here everything that   *)
(* writes may overlap: promotions and rollbacks of two builds, or Creates  *)
(* and ticks over three builds of one service, the second gated by its CI, *)
(* with two slots, failing reads and a cancel of the first.                *)
(***************************************************************************)
EXTENDS MCPromotion, BuildQueue

CONSTANTS a1, a2, a3

VARIABLE part

OneService == [a \in QueueBuilds |-> "a"]
InTurn == [a \in QueueBuilds |-> IF a = a1 THEN 1 ELSE IF a = a2 THEN 2 ELSE 3]

Parts == {"promotion", "queue"}

SumVars == <<part, vars, QueueVars>>

SumInit == part \in Parts /\ Init /\ QueueInit

SumNext ==
    /\ UNCHANGED part
    /\ \/ part = "promotion" /\ Next /\ UNCHANGED QueueVars
       \/ part = "queue" /\ QueueNext /\ UNCHANGED vars

SumSpec == SumInit /\ [][SumNext]_SumVars
==============================================================================
