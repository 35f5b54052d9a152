---------------------------- MODULE MCThreeSafety ----------------------------
(***************************************************************************)
(* Small instances of the promotion gates, of incidents and of the image   *)
(* retention, checked side by side: in each behaviour one of them, "part", *)
(* is at work.                                                             *)
(***************************************************************************)
EXTENDS MCPromotionGate, Incidents, MCImageRetention

CONSTANTS i1, i2, t1, t2, s1

VARIABLE part

Parts == {"gate", "incidents", "images"}

SumVars == <<part, vars, IncidentVars, ImageVars>>

\* The images of a part that sleeps need only one beginning.
SumInit ==
    /\ part \in Parts /\ Init /\ IncidentInit /\ ImageInit
    /\ part # "images" => \A c \in Consumers : image[c] = v2

SumNext ==
    /\ UNCHANGED part
    /\ \/ part = "gate" /\ Next /\ UNCHANGED <<IncidentVars, ImageVars>>
       \/ part = "incidents" /\ IncidentNext /\ UNCHANGED <<vars, ImageVars>>
       \/ part = "images" /\ ImageNext /\ UNCHANGED <<vars, IncidentVars>>

SumSpec == SumInit /\ [][SumNext]_SumVars
==============================================================================
