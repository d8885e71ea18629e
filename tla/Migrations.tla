------------------------------ MODULE Migrations ------------------------------
(***************************************************************************)
(* internal/storage/sqlite.go: Open brings a database up to the schema of  *)
(* the program.  The collector and every analyze command call it, each in  *)
(* a process of its own and on the same file.                              *)
(*                                                                         *)
(* A migration that creates a table or adds a column fails where it is; one*)
(* that only fills in data may run again.  The third rebuilds the markouts *)
(* table (create, copy, drop, rename): it succeeds on a database that has  *)
(* it, as long as no event has rows of both kinds, and takes back what     *)
(* later ones did to the table.  A database without a version row, new or  *)
(* from before versions were kept, is dated by what its schema shows.  A   *)
(* transaction is one step: SQLite has one writer at a time.               *)
(***************************************************************************)
EXTENDS Integers, Sequences

CONSTANTS
  Openers,       \* processes that call Open
  Last,          \* version of the newest migration in the program
  TablePrints,   \* versions inferLegacyVersion tells by a table
  ColumnPrints,  \* versions it tells by a column
  DataOnly,      \* versions that change no schema
  Uses,          \* the columns such a version needs, by their versions
  Creates,       \* versions that create a table
  Rebuild,       \* the version that rebuilds markouts
  Undone,        \* versions whose effect is on columns it does not copy
  Databases,     \* databases that may be found: [schema |-> n, dated |-> b]
  Faults,        \* which of "stop", "query" may happen
  MaxFaults      \* bound on them

Versions == 1 .. Last

ASSUME MigrationConstantsOK ==
  /\ Last \in Nat /\ MaxFaults \in Nat
  /\ TablePrints \subseteq Versions /\ ColumnPrints \subseteq Versions
  /\ DataOnly \subseteq Versions /\ Uses \in [DataOnly -> SUBSET Versions]
  /\ Creates \subseteq Versions /\ TablePrints \subseteq Creates
  /\ Rebuild \in Versions \ (Creates \cup DataOnly)
  /\ Undone \subseteq Rebuild + 1 .. Last
  /\ Databases \subseteq [schema : 0 .. Last, dated : BOOLEAN]

VARIABLES
  applied,     \* migrations whose columns or data the database has
  tables,      \* migrations whose tables it has: nothing drops those
  paired,      \* an event has markout rows of both kinds
  versions,    \* the rows of schema_version
  pc,          \* opener -> where it is in Open
  cur,         \* opener -> migrate's cur: inferred or read, then the loop's version
  seen,        \* opener -> tables it has seen
  asked,       \* opener -> fingerprints it has still to look for
  faultsLeft,  \* faults still to come
  found,       \* history: the schema the database had at the beginning
  met, misread,  \* history: an Open met another one; a query of one failed
  undone       \* history: the rebuild has taken something back

database == <<applied, tables, paired, versions>>
opener == <<pc, cur, seen, asked>>
history == <<found, met, misread, undone>>
migVars == <<database, opener, faultsLeft, history>>

disturbed == met \/ misread

Init ==
  /\ \E db \in Databases :
       /\ applied = 1 .. db.schema /\ tables = Creates \cap 1 .. db.schema
       /\ paired \in BOOLEAN /\ (paired => Rebuild <= db.schema)
       /\ found = db.schema
       /\ versions = IF db.dated THEN <<db.schema>> ELSE << >>
  /\ pc = [p \in Openers |-> "closed"] /\ cur = [p \in Openers |-> 0]
  /\ seen = [p \in Openers |-> {}] /\ asked = [p \in Openers |-> {}]
  /\ faultsLeft = MaxFaults
  /\ met = FALSE /\ misread = FALSE /\ undone = FALSE

Goto(p, where) == pc' = [pc EXCEPT ![p] = where]

(* Open returns, or its process is gone: nothing is left of its variables. *)
Return(p, where) ==
  /\ Goto(p, where)
  /\ cur' = [cur EXCEPT ![p] = 0]
  /\ seen' = [seen EXCEPT ![p] = {}] /\ asked' = [asked EXCEPT ![p] = {}]

Inside(p) == pc[p] \in {"tables", "prints", "apply"}

Fault(kind) == kind \in Faults /\ faultsLeft > 0 /\ faultsLeft' = faultsLeft - 1

-----------------------------------------------------------------------------
(* The version row: the first one, if there is one.                        *)
ReadVersion(p) ==
  /\ pc[p] = "closed"
  /\ IF versions = << >>
     THEN Goto(p, "tables") /\ UNCHANGED cur
     ELSE Goto(p, "apply") /\ cur' = [cur EXCEPT ![p] = versions[1]]
  /\ met' = (met \/ \E q \in Openers \ {p} : Inside(q))
  /\ UNCHANGED <<database, seen, asked, faultsLeft, found, misread, undone>>

(* The names of the tables.  Without trade_events the database is new and  *)
(* nothing else is asked.                                                  *)
NamesRead(p, names) ==
  /\ pc[p] = "tables"
  /\ Goto(p, "prints")
  /\ seen' = [seen EXCEPT ![p] = names]
  /\ asked' = [asked EXCEPT ![p] = IF 1 \in names THEN TablePrints \cup ColumnPrints ELSE {}]
  /\ cur' = [cur EXCEPT ![p] = 0]
  /\ UNCHANGED <<database, found, met, undone>>

ReadTables(p) == NamesRead(p, TablePrints \cap tables) /\ UNCHANGED <<faultsLeft, misread>>

(* The query fails, at once or half way: some of the names are read.       *)
TablesFail(p) ==
  /\ Fault("query") /\ misread' = TRUE
  /\ \E names \in SUBSET (TablePrints \cap tables) : NamesRead(p, names)

(* Mutated form: a database that is not new is taken for the newest.       *)
DatedNewest(p, v, there) == IF there THEN Last ELSE cur[p]

(* The fingerprints in the order of their versions: a later one overrides. *)
Dated(p, v, there) == IF there THEN v ELSE cur[p]

NextPrint(p, v) ==
  /\ pc[p] = "prints"
  /\ v \in asked[p] /\ \A u \in asked[p] : v <= u
  /\ asked' = [asked EXCEPT ![p] = @ \ {v}]
  /\ UNCHANGED <<database, pc, seen, found, met, undone>>

HasTable(p) ==
  /\ \E v \in TablePrints :
       NextPrint(p, v) /\ cur' = [cur EXCEPT ![p] = Dated(p, v, v \in seen[p])]
  /\ UNCHANGED <<faultsLeft, misread>>

(* A query for each column.                                                *)
HasColumn(p) ==
  /\ \E v \in ColumnPrints :
       NextPrint(p, v) /\ cur' = [cur EXCEPT ![p] = Dated(p, v, v \in applied)]
  /\ UNCHANGED <<faultsLeft, misread>>

(* An error counts as a column that is not there.                          *)
ColumnFails(p) ==
  /\ Fault("query") /\ misread' = TRUE
  /\ \E v \in ColumnPrints : NextPrint(p, v) /\ UNCHANGED cur

SeedVersion(p) ==
  /\ pc[p] = "prints" /\ asked[p] = {}
  /\ Goto(p, "apply")
  /\ versions' = Append(versions, cur[p])
  /\ seen' = [seen EXCEPT ![p] = {}]
  /\ UNCHANGED <<applied, tables, paired, cur, asked, faultsLeft, history>>

(* Mutated form: the loop runs one file too far.                           *)
PendingOneMore(p) == cur[p] <= Last

Pending(p) == cur[p] < Last

(* Mutated form: the version is written when the last migration has run.   *)
BumpedAtEnd(v) == IF v = Last THEN [i \in DOMAIN versions |-> v] ELSE versions

(* UPDATE schema_version SET version = ?, whatever rows there are.         *)
Bumped(v) == [i \in DOMAIN versions |-> v]

(* Whether the statements of v succeed: "table already exists", "duplicate *)
(* column" and "no such column" are errors, and so is a copy of two rows of*)
(* an event as leader rows of one horizon.                                 *)
Succeeds(v) ==
  IF v = Rebuild THEN v \in applied => ~paired
  ELSE IF v \in DataOnly THEN Uses[v] \subseteq applied
  ELSE v \notin applied \cup tables

TakenBack(v) == IF v = Rebuild THEN Undone \cap applied ELSE {}

(* The next migration and its version, in one transaction.                 *)
Apply(p) ==
  /\ pc[p] = "apply" /\ Pending(p) /\ Succeeds(cur[p] + 1)
  /\ applied' = (applied \ TakenBack(cur[p] + 1)) \cup {cur[p] + 1}
  /\ tables' = tables \cup (Creates \cap {cur[p] + 1})
  /\ undone' = (undone \/ TakenBack(cur[p] + 1) # {})
  /\ versions' = Bumped(cur[p] + 1)
  /\ cur' = [cur EXCEPT ![p] = @ + 1]
  /\ UNCHANGED <<paired, pc, seen, asked, faultsLeft, found, met, misread>>

(* Rolled back, Open fails.                                                *)
ApplyFails(p) ==
  /\ pc[p] = "apply" /\ Pending(p) /\ ~Succeeds(cur[p] + 1)
  /\ Return(p, "failed")
  /\ UNCHANGED <<database, faultsLeft, history>>

Opened(p) ==
  /\ pc[p] = "apply" /\ ~Pending(p)
  /\ Return(p, "open")
  /\ UNCHANGED <<database, faultsLeft, history>>

(* The collector writes leader and follower rows of an event.              *)
CreateMarkouts(p) ==
  /\ pc[p] = "open" /\ paired' = TRUE
  /\ UNCHANGED <<applied, tables, versions, opener, faultsLeft, history>>

(* The process crashes or a statement fails: nothing of it is committed.   *)
Stop(p) ==
  /\ pc[p] \notin {"closed", "failed"} /\ Fault("stop")
  /\ Return(p, "failed")
  /\ UNCHANGED <<database, history>>

(* The next process opens the database.                                    *)
Again(p) ==
  /\ pc[p] = "failed" /\ Return(p, "closed")
  /\ UNCHANGED <<database, faultsLeft, history>>

(* A command is done.                                                      *)
Close(p) ==
  /\ pc[p] = "open" /\ Return(p, "closed")
  /\ UNCHANGED <<database, faultsLeft, history>>

OpenStep(p) ==
  \/ ReadVersion(p) \/ ReadTables(p) \/ HasTable(p) \/ HasColumn(p) \/ SeedVersion(p)
  \/ Apply(p) \/ ApplyFails(p) \/ Opened(p) \/ Again(p)

Next ==
  \E p \in Openers :
    OpenStep(p) \/ TablesFail(p) \/ ColumnFails(p) \/ CreateMarkouts(p) \/ Stop(p) \/ Close(p)

Spec == Init /\ [][Next]_migVars

(* A process that has begun goes on; whoever wants the database tries again*)
(* after a failure.                                                        *)
FairSpec == Spec /\ \A p \in Openers : WF_migVars(OpenStep(p))

-----------------------------------------------------------------------------
MigTypeOK ==
  /\ applied \subseteq Versions /\ tables \subseteq Creates /\ paired \in BOOLEAN
  /\ versions \in Seq(0 .. Last)
  /\ pc \in [Openers -> {"closed", "tables", "prints", "apply", "open", "failed"}]
  /\ cur \in [Openers -> 0 .. Last]
  /\ seen \in [Openers -> SUBSET Versions]
  /\ asked \in [Openers -> SUBSET Versions]
  /\ faultsLeft \in 0 .. MaxFaults /\ found \in 0 .. Last
  /\ met \in BOOLEAN /\ misread \in BOOLEAN /\ undone \in BOOLEAN

(* An Open that succeeds leaves a database with every migration, backfills *)
(* that leave no trace in the schema included, whoever else opened it at   *)
(* the same time and whatever failed before, unless the rebuild of markouts*)
(* was repeated over later migrations (sqlite.go:91-140).                  *)
OpenedIsUpToDate ==
  \A p \in Openers : pc[p] = "open" => undone \/ (applied = Versions /\ tables = Creates)

(* Until then the version is never ahead of the schema, so nothing is ever *)
(* skipped, also with several version rows or none (sqlite.go:97-103,      *)
(* 143-185).                                                               *)
VersionNeverAhead ==
  \A i \in DOMAIN versions : undone \/ 1 .. versions[i] \subseteq applied

(* The rebuild is repeated over later migrations only where Opens met in a *)
(* database that was older than it, or one dated the database by a query   *)
(* that failed: a database that has it is safe from slower Opens, and one  *)
(* opened by one process at a time from crashes (sqlite.go:92-139,         *)
(* 003_measurement.sql:17-48).                                             *)
RebuildTakesNothingBack == undone => misread \/ (met /\ found < Rebuild)

VersionCoversSchema ==
  \A i \in DOMAIN versions : \A v \in applied \ DataOnly : v <= versions[i]

(* As long as no Open meets another the version is never behind a change of*)
(* the schema, whatever crashes: no migration is run on a database that has*)
(* it and dies on a duplicate column (sqlite.go:120-123).                  *)
VersionKeepsUp == ~disturbed => VersionCoversSchema

(* A database is opened in the end, in spite of crashes, unless Opens met  *)
(* (sqlite.go:74-141).                                                     *)
OpensEventually == \A p \in Openers : pc[p] = "closed" ~> pc[p] = "open" \/ disturbed

-----------------------------------------------------------------------------
(* Claims of comments the code does not keep: MCMigrateRace refutes        *)
(* VersionCoversSchema, MCMigrateClaims the others.                        *)

(* sqlite.go:80: a migration "runs exactly once per database": an Open that*)
(* succeeds has a database with every one.                                 *)
OpenedHasEverything == \A p \in Openers : pc[p] = "open" => applied = Versions

(* sqlite.go:146: a legacy database is never pinned past v6, "and 007/008  *)
(* still run".                                                             *)
LegacyRunsBackfills ==
  [][ versions = << >> /\ versions' # << >> => versions'[1] <= 6 ]_migVars
=============================================================================
