------------------------------- MODULE MCIntake -------------------------------
(* Two feeds; the second event is carried by both.                         *)
EXTENDS Intake

CONSTANTS smart, kol

Carried == [f \in Feeds |-> IF f = smart THEN {1, 2} ELSE {2, 3} \cap Events]
=============================================================================
