----------------------------- MODULE MCMigrations -----------------------------
(* The nine migrations of the program, and databases of any age.           *)
EXTENDS Migrations

CONSTANTS collect, analyze

(* Databases with a version row, or without one: new, or of the era that   *)
(* kept none.                                                              *)
AnyDatabase == [schema : 0 .. Last, dated : {TRUE}] \cup [schema : 0 .. 8, dated : {FALSE}]

DatedDatabase == [schema : 1 .. Last, dated : {TRUE}]

OldDatabase == [schema : 1 .. 8, dated : BOOLEAN]

(* 007 sets status, 009 fills in entry_observed_at.                        *)
ColumnsUsed == [v \in DataOnly |-> IF v = 7 THEN {6} ELSE {3, 4}]
=============================================================================
