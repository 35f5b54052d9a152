----------------------------- MODULE AtLeastOnce -----------------------------
(***************************************************************************)
(* What the notification outbox promises for one channel                    *)
(* (db/notification_outbox.go, the comment at its head): an accepted event  *)
(* is sent until the receiver has it, dropped if the channel was switched   *)
(* off meanwhile, or buried after its last attempt; and once it is settled  *)
(* it is never sent again.                                                  *)
(***************************************************************************)
EXTENDS Naturals

CONSTANT Messages

VARIABLES
    fate,      \* [Messages -> where the event stands]
    received,  \* [Messages -> how often the receiver got it]
    unwanted   \* [Messages -> the channel was off at some time since the event was accepted]

ALVars == <<fate, received, unwanted>>

ALInit ==
    /\ fate = [m \in Messages |-> "new"]
    /\ received = [m \in Messages |-> 0]
    /\ unwanted = [m \in Messages |-> FALSE]

Accept(m, off) ==
    /\ fate[m] = "new"
    /\ fate' = [fate EXCEPT ![m] = "pending"]
    /\ unwanted' = [unwanted EXCEPT ![m] = off]
    /\ UNCHANGED received

Receive(m) ==
    /\ fate[m] = "pending"
    /\ received' = [received EXCEPT ![m] = @ + 1]
    /\ UNCHANGED <<fate, unwanted>>

Settle(m) ==
    /\ fate[m] = "pending"
    /\ received[m] > 0 \/ unwanted[m]
    /\ fate' = [fate EXCEPT ![m] = "settled"]
    /\ UNCHANGED <<received, unwanted>>

Bury(m) ==
    /\ fate[m] = "pending"
    /\ fate' = [fate EXCEPT ![m] = "dead"]
    /\ UNCHANGED <<received, unwanted>>

SwitchOff ==
    /\ unwanted' = [m \in Messages |-> unwanted[m] \/ fate[m] = "pending"]
    /\ UNCHANGED <<fate, received>>

ALNext ==
    \/ \E m \in Messages :
        (\E off \in BOOLEAN : Accept(m, off)) \/ Receive(m) \/ Settle(m) \/ Bury(m)
    \/ SwitchOff

ALSpec == ALInit /\ [][ALNext]_ALVars
=============================================================================
