------------------------------- MODULE MCOutbox -------------------------------
(* A small instance of Outbox: two rows, a worker on each of two replicas. *)
EXTENDS Outbox

CONSTANTS m1, m2, w1, w2, p1, p2

WorkerHome == [w \in {w1, w2} |-> IF w = w1 THEN p1 ELSE p2]
=============================================================================
