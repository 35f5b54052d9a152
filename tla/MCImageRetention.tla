-------------------------- MODULE MCImageRetention --------------------------
(* A small instance of ImageRetention: two byte-identical builds, and a third. *)
EXTENDS ImageRetention

CONSTANTS v1, v2, v3

OneAndTwoShare == [b \in Images |-> IF b = v3 THEN "d2" ELSE "d1"]
OneThenTwo == [b \in Images |-> IF b = v1 THEN 1 ELSE IF b = v2 THEN 2 ELSE 0]
=============================================================================
