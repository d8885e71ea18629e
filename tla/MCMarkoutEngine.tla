--------------------------- MODULE MCMarkoutEngine ---------------------------
(* Instances of the markout engine for TLC.  One resolution is two ticks,  *)
(* so that base times fall on and off the candle grid.                     *)
EXTENDS MarkoutCensus

CONSTANTS e1, e2, t1, t2

SameToken == [e \in Events |-> t1]

OwnToken == [e \in Events |-> IF e = e1 THEN t1 ELSE t2]
=============================================================================
