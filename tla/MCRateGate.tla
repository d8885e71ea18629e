------------------------------ MODULE MCRateGate ------------------------------
(* Two pollers and the markout worker; a tick is a second.  The intervals  *)
(* of the pollers are those of configs/observe.yaml, the worker's is       *)
(* scaled down.                                                            *)
EXTENDS RateGate

CONSTANTS smart, kol, kline

Weights == [c \in Callers |-> IF c \in Samplers THEN 2 ELSE 1]

Intervals == [c \in Callers |-> IF c \in Samplers THEN 4 ELSE IF c = kol THEN 2 ELSE 1]
=============================================================================
