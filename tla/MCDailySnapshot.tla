--------------------------- MODULE MCDailySnapshot ---------------------------
(* Names for the gates and for the files of the agent.                     *)
EXTENDS DailySnapshot, TLC

CONSTANTS cells, coverage, main, store

Files == Permutations(Code)
=============================================================================
