---------------------------- MODULE MigrationProof ----------------------------
(***************************************************************************)
(* What Open can rely on, for any number of processes, any migrations and  *)
(* fingerprints, any failures.                                             *)
(*                                                                         *)
(* As long as the rebuild of markouts has taken nothing back, what is      *)
(* applied is a beginning of the list, so whoever has found a fingerprint  *)
(* or a version may take everything before it for granted, even if another *)
(* process has gone on since.  And it takes something back only where Opens*)
(* met in a database older than it, or a query failed.                     *)
(***************************************************************************)
EXTENDS Migrations, TLAPS

-----------------------------------------------------------------------------
(* Types.                                                                  *)

LEMMA InitTypes == Init => MigTypeOK
<1> SUFFICES ASSUME Init PROVE MigTypeOK
  OBVIOUS
<1>1. PICK db \in Databases :
        /\ applied = 1 .. db.schema /\ tables = Creates \cap 1 .. db.schema
        /\ paired \in BOOLEAN /\ found = db.schema
        /\ versions = IF db.dated THEN <<db.schema>> ELSE << >>
  BY DEF Init
<1>2. db.schema \in 0 .. Last /\ db.dated \in BOOLEAN /\ Last \in Nat /\ MaxFaults \in Nat
  BY MigrationConstantsOK
<1>3. versions \in Seq(0 .. Last)
  <2>1. CASE db.dated
    <3>1. versions = <<db.schema>>
      BY <1>1, <2>1
    <3> QED BY <3>1, <1>2
  <2>2. CASE ~db.dated
    <3>1. versions = << >>
      BY <1>1, <2>2
    <3> QED BY <3>1
  <2> QED BY <2>1, <2>2
<1>4. applied \subseteq Versions /\ tables \subseteq Creates /\ found \in 0 .. Last
  BY <1>1, <1>2 DEF Versions
<1>5. /\ pc \in [Openers -> {"closed"}] /\ cur \in [Openers -> {0}]
      /\ seen \in [Openers -> {{}}] /\ asked \in [Openers -> {{}}] /\ faultsLeft = MaxFaults
      /\ met = FALSE /\ misread = FALSE /\ undone = FALSE
  BY DEF Init
<1>6. /\ pc \in [Openers -> {"closed", "tables", "prints", "apply", "open", "failed"}]
      /\ cur \in [Openers -> 0 .. Last] /\ faultsLeft \in 0 .. MaxFaults
  BY <1>2, <1>5
<1>7. seen \in [Openers -> SUBSET Versions] /\ asked \in [Openers -> SUBSET Versions]
  BY <1>5
<1> QED BY <1>1, <1>3, <1>4, <1>5, <1>6, <1>7 DEF MigTypeOK

LEMMA StepTypes == MigTypeOK /\ [Next]_migVars => MigTypeOK'
<1> SUFFICES ASSUME MigTypeOK, [Next]_migVars PROVE MigTypeOK'
  OBVIOUS
<1> USE MigrationConstantsOK DEF database, opener, history
<1>1. ASSUME NEW p \in Openers, ReadVersion(p) PROVE MigTypeOK'
  <2>1. versions # << >> => versions[1] \in 0 .. Last
    BY DEF MigTypeOK
  <2>2. cur' \in [Openers -> 0 .. Last] /\ met' \in BOOLEAN
    BY <1>1, <2>1 DEF ReadVersion, MigTypeOK
  <2> QED BY <1>1, <2>2 DEF ReadVersion, Goto, MigTypeOK
<1>2. ASSUME NEW p \in Openers, ReadTables(p) \/ TablesFail(p) PROVE MigTypeOK'
  <2>1. PICK names \in SUBSET TablePrints : NamesRead(p, names)
    BY <1>2 DEF ReadTables, TablesFail
  <2>2. faultsLeft' \in 0 .. MaxFaults /\ misread' \in BOOLEAN
    <3>1. CASE ReadTables(p)
      BY <3>1 DEF ReadTables, MigTypeOK
    <3>2. CASE TablesFail(p)
      BY <3>2 DEF TablesFail, Fault, MigTypeOK
    <3> QED BY <1>2, <3>1, <3>2
  <2> QED BY <2>1, <2>2 DEF NamesRead, Goto, MigTypeOK
<1>3. ASSUME NEW p \in Openers, HasTable(p) \/ HasColumn(p) \/ ColumnFails(p) PROVE MigTypeOK'
  <2>1. PICK v \in Versions :
          NextPrint(p, v) /\ (cur' = cur \/ \E t \in BOOLEAN : cur' = [cur EXCEPT ![p] = Dated(p, v, t)])
    <3>1. TablePrints \cup ColumnPrints \subseteq Versions
      OBVIOUS
    <3>2. \A v : (v \in seen[p]) \in BOOLEAN /\ (v \in applied) \in BOOLEAN
      OBVIOUS
    <3> QED BY <1>3, <3>1, <3>2 DEF HasTable, HasColumn, ColumnFails
  <2>2. cur' \in [Openers -> 0 .. Last]
    BY <2>1 DEF Dated, Versions, MigTypeOK
  <2>3. faultsLeft' \in 0 .. MaxFaults /\ misread' \in BOOLEAN
    <3>1. CASE HasTable(p) \/ HasColumn(p)
      BY <3>1 DEF HasTable, HasColumn, MigTypeOK
    <3>2. CASE ColumnFails(p)
      BY <3>2 DEF ColumnFails, Fault, MigTypeOK
    <3> QED BY <1>3, <3>1, <3>2
  <2> QED BY <2>1, <2>2, <2>3 DEF NextPrint, MigTypeOK
<1>4. ASSUME NEW p \in Openers, SeedVersion(p) PROVE MigTypeOK'
  BY <1>4 DEF SeedVersion, Goto, MigTypeOK
<1>5. ASSUME NEW p \in Openers, Apply(p) PROVE MigTypeOK'
  <2>1. cur[p] + 1 \in Versions /\ cur[p] + 1 \in 0 .. Last
    BY <1>5 DEF Apply, Pending, Versions, MigTypeOK
  <2>2. applied' \subseteq Versions /\ tables' \subseteq Creates /\ undone' \in BOOLEAN
    BY <1>5, <2>1 DEF Apply, MigTypeOK
  <2>3. versions' \in Seq(0 .. Last) /\ cur' \in [Openers -> 0 .. Last]
    BY <1>5, <2>1 DEF Apply, Bumped, MigTypeOK
  <2> QED BY <1>5, <2>2, <2>3 DEF Apply, MigTypeOK
<1>6. ASSUME NEW p \in Openers, ApplyFails(p) \/ Opened(p) \/ Again(p) \/ Close(p) \/ Stop(p)
      PROVE  MigTypeOK'
  <2>1. \E where \in {"closed", "open", "failed"} : Return(p, where)
    BY <1>6 DEF ApplyFails, Opened, Again, Close, Stop
  <2>2. faultsLeft' \in 0 .. MaxFaults
    BY <1>6 DEF ApplyFails, Opened, Again, Close, Stop, Fault, MigTypeOK
  <2> QED BY <1>6, <2>1, <2>2 DEF Return, Goto, ApplyFails, Opened, Again, Close, Stop, MigTypeOK
<1>7. ASSUME NEW p \in Openers, CreateMarkouts(p) PROVE MigTypeOK'
  BY <1>7 DEF CreateMarkouts, MigTypeOK
<1>8. CASE UNCHANGED migVars
  BY <1>8 DEF migVars, MigTypeOK
<1> QED BY <1>1, <1>2, <1>3, <1>4, <1>5, <1>6, <1>7, <1>8 DEF Next, OpenStep

(* Open and the database keep their types.                                 *)
THEOREM MigrationIsTyped == Spec => []MigTypeOK
BY InitTypes, StepTypes, PTL DEF Spec

-----------------------------------------------------------------------------
(* What holds as long as the rebuild has taken nothing back.               *)

(* No migration is applied before those that precede it.                   *)
AppliedInOrder == \A v \in applied : 1 .. v \subseteq applied

TablesFollow == tables = applied \cap Creates

(* A table that was seen is of a migration that is applied.                *)
SeenIsApplied == \A p \in Openers : seen[p] \subseteq applied

VersionsApplied == \A i \in DOMAIN versions : 1 .. versions[i] \subseteq applied

(* What a process has inferred, read or run is applied, with all before it.*)
CurIsApplied == \A p \in Openers : 1 .. cur[p] \subseteq applied

OpenIsWhole == \A p \in Openers : pc[p] = "open" => 1 .. Last \subseteq applied

Sound ==
  AppliedInOrder /\ TablesFollow /\ SeenIsApplied /\ VersionsApplied /\ CurIsApplied /\ OpenIsWhole

MigInv == MigTypeOK /\ (undone \/ Sound)

(* What a database is found with.                                          *)
LEMMA FoundDatabase ==
  ASSUME Init
  PROVE  /\ found \in 0 .. Last /\ applied = 1 .. found /\ tables = Creates \cap 1 .. found
         /\ \A i \in DOMAIN versions : versions[i] = found
         /\ \A p \in Openers : pc[p] = "closed" /\ cur[p] = 0 /\ seen[p] = {}
         /\ ~met /\ ~misread /\ ~undone
<1>1. PICK db \in Databases :
        /\ applied = 1 .. db.schema /\ tables = Creates \cap 1 .. db.schema
        /\ found = db.schema
        /\ versions = IF db.dated THEN <<db.schema>> ELSE << >>
  BY DEF Init
<1>2. \A i \in DOMAIN versions : versions[i] = db.schema
  BY <1>1
<1>3. db.schema \in 0 .. Last
  BY MigrationConstantsOK
<1> QED BY <1>1, <1>2, <1>3 DEF Init

LEMMA InitMig == Init => MigInv
<1> SUFFICES ASSUME Init PROVE Sound
  BY InitTypes DEF MigInv
<1>1. found \in Nat /\ applied = 1 .. found
  BY FoundDatabase, MigrationConstantsOK
<1>2. AppliedInOrder /\ TablesFollow
  BY <1>1, FoundDatabase DEF AppliedInOrder, TablesFollow
<1>3. SeenIsApplied /\ VersionsApplied /\ CurIsApplied /\ OpenIsWhole
  BY <1>1, FoundDatabase DEF SeenIsApplied, VersionsApplied, CurIsApplied, OpenIsWhole
<1> QED BY <1>2, <1>3 DEF Sound

(* A step of one process that leaves the database alone.                   *)
LEMMA QuietStep ==
  ASSUME Sound, NEW p \in Openers, UNCHANGED <<applied, tables, versions>>,
         seen'[p] \subseteq applied, 1 .. cur'[p] \subseteq applied,
         pc'[p] = "open" => 1 .. Last \subseteq applied,
         \A q \in Openers \ {p} : seen'[q] = seen[q] /\ cur'[q] = cur[q] /\ pc'[q] = pc[q]
  PROVE  Sound'
BY DEF Sound, AppliedInOrder, TablesFollow, SeenIsApplied, VersionsApplied, CurIsApplied, OpenIsWhole

(* Open returns.                                                           *)
LEMMA ReturnStep ==
  ASSUME MigTypeOK, Sound, NEW p \in Openers, NEW where, Return(p, where), UNCHANGED database,
         where = "open" => 1 .. Last \subseteq applied
  PROVE  Sound'
<1>1. /\ seen'[p] = {} /\ cur'[p] = 0 /\ pc'[p] = where
      /\ \A q \in Openers \ {p} : seen'[q] = seen[q] /\ cur'[q] = cur[q] /\ pc'[q] = pc[q]
  BY DEF Return, Goto, MigTypeOK
<1> QED BY <1>1, QuietStep DEF database

(* Whichever fingerprint is looked for, found or not.                      *)
LEMMA PrintStep ==
  ASSUME MigTypeOK, Sound, NEW p \in Openers, NEW v \in Versions, NextPrint(p, v),
         UNCHANGED cur \/ (v \in applied /\ cur' = [cur EXCEPT ![p] = v])
  PROVE  Sound'
<1>1. 1 .. cur'[p] \subseteq applied /\ \A q \in Openers \ {p} : cur'[q] = cur[q]
  <2>1. CASE UNCHANGED cur
    BY <2>1 DEF Sound, CurIsApplied
  <2>2. CASE v \in applied /\ cur' = [cur EXCEPT ![p] = v]
    BY <2>2 DEF MigTypeOK, Sound, AppliedInOrder
  <2> QED BY <2>1, <2>2
<1>2. UNCHANGED <<applied, tables, versions, pc, seen>> /\ pc[p] = "prints"
  BY DEF NextPrint, database
<1> QED BY <1>1, <1>2, QuietStep DEF Sound, SeenIsApplied

(* The next migration: a table or a column it has not got yet, data, or the*)
(* rebuild, which takes nothing back as nothing after it is applied.       *)
LEMMA ApplyStep ==
  ASSUME MigTypeOK, Sound, NEW p \in Openers, Apply(p), ~undone' PROVE Sound'
<1> DEFINE v == cur[p] + 1
<1>1. cur[p] \in 0 .. Last /\ v \in Versions /\ 1 .. cur[p] \subseteq applied /\ Last \in Nat
  BY MigrationConstantsOK DEF Apply, Pending, Versions, MigTypeOK, Sound, CurIsApplied
<1>2. applied' = applied \cup {v} /\ tables' = tables \cup (Creates \cap {v})
  BY DEF Apply
<1>3. /\ cur' = [cur EXCEPT ![p] = v] /\ UNCHANGED <<pc, seen>>
      /\ \A i \in DOMAIN versions' : versions'[i] = v
  BY DEF Apply, Bumped
<1>4. 1 .. v \subseteq applied'
  BY <1>1, <1>2
<1> HIDE DEF v
<1>5. AppliedInOrder' /\ TablesFollow'
  BY <1>2, <1>4 DEF Sound, AppliedInOrder, TablesFollow
<1>6. SeenIsApplied' /\ VersionsApplied' /\ CurIsApplied' /\ OpenIsWhole'
  BY <1>2, <1>3, <1>4
     DEF MigTypeOK, Sound, SeenIsApplied, VersionsApplied, CurIsApplied, OpenIsWhole
<1> QED BY <1>5, <1>6 DEF Sound

LEMMA StepSound ==
  ASSUME MigTypeOK, Sound, [Next]_migVars, ~undone' PROVE Sound'
<1>1. ASSUME NEW p \in Openers, ReadVersion(p) PROVE Sound'
  <2>1. /\ UNCHANGED <<applied, tables, versions, seen>> /\ pc'[p] # "open"
        /\ cur'[p] \in {cur[p]} \cup {versions[i] : i \in DOMAIN versions}
        /\ \A q \in Openers \ {p} : cur'[q] = cur[q] /\ pc'[q] = pc[q]
    <3>1. versions # << >> => 1 \in DOMAIN versions
      BY DEF MigTypeOK
    <3> QED BY <1>1, <3>1 DEF ReadVersion, Goto, database, MigTypeOK
  <2>2. 1 .. cur'[p] \subseteq applied /\ seen[p] \subseteq applied
    BY <2>1 DEF Sound, CurIsApplied, VersionsApplied, SeenIsApplied
  <2> QED BY <2>1, <2>2, QuietStep
<1>2. ASSUME NEW p \in Openers, ReadTables(p) \/ TablesFail(p) PROVE Sound'
  <2>1. PICK names \in SUBSET tables : NamesRead(p, names)
    BY <1>2 DEF ReadTables, TablesFail
  <2>2. /\ UNCHANGED <<applied, tables, versions>> /\ pc'[p] # "open"
        /\ cur'[p] = 0 /\ seen'[p] = names
        /\ \A q \in Openers \ {p} : seen'[q] = seen[q] /\ cur'[q] = cur[q] /\ pc'[q] = pc[q]
    BY <2>1 DEF NamesRead, Goto, database, MigTypeOK
  <2>3. seen'[p] \subseteq applied /\ 1 .. cur'[p] \subseteq applied
    BY <2>2 DEF Sound, TablesFollow
  <2> QED BY <2>2, <2>3, QuietStep
<1>3. ASSUME NEW p \in Openers, HasTable(p) PROVE Sound'
  <2>1. PICK v \in TablePrints :
          NextPrint(p, v) /\ cur' = [cur EXCEPT ![p] = Dated(p, v, v \in seen[p])]
    BY <1>3 DEF HasTable
  <2>2. UNCHANGED cur \/ (v \in applied /\ cur' = [cur EXCEPT ![p] = v])
    <3>1. CASE v \in seen[p]
      BY <3>1, <2>1 DEF Dated, Sound, SeenIsApplied
    <3>2. CASE v \notin seen[p]
      BY <3>2, <2>1 DEF Dated, MigTypeOK
    <3> QED BY <3>1, <3>2
  <2> QED BY <2>1, <2>2, PrintStep, MigrationConstantsOK
<1>4. ASSUME NEW p \in Openers, HasColumn(p) PROVE Sound'
  <2>1. PICK v \in ColumnPrints :
          NextPrint(p, v) /\ cur' = [cur EXCEPT ![p] = Dated(p, v, v \in applied)]
    BY <1>4 DEF HasColumn
  <2>2. UNCHANGED cur \/ (v \in applied /\ cur' = [cur EXCEPT ![p] = v])
    <3>1. CASE v \in applied
      BY <3>1, <2>1 DEF Dated
    <3>2. CASE v \notin applied
      BY <3>2, <2>1 DEF Dated, MigTypeOK
    <3> QED BY <3>1, <3>2
  <2> QED BY <2>1, <2>2, PrintStep, MigrationConstantsOK
<1>5. ASSUME NEW p \in Openers, ColumnFails(p) PROVE Sound'
  <2>1. PICK v \in ColumnPrints : NextPrint(p, v) /\ UNCHANGED cur
    BY <1>5 DEF ColumnFails
  <2> QED BY <2>1, PrintStep, MigrationConstantsOK
<1>6. ASSUME NEW p \in Openers, SeedVersion(p) PROVE Sound'
  <2>1. cur[p] \in 0 .. Last /\ 1 .. cur[p] \subseteq applied
    BY DEF MigTypeOK, Sound, CurIsApplied
  <2>2. VersionsApplied'
    BY <1>6, <2>1 DEF SeedVersion, MigTypeOK, Sound, VersionsApplied
  <2> QED
    BY <1>6, <2>2
    DEF SeedVersion, Goto, MigTypeOK, Sound, AppliedInOrder, TablesFollow, SeenIsApplied,
        CurIsApplied, OpenIsWhole
<1>7. ASSUME NEW p \in Openers, Apply(p) PROVE Sound'
  BY <1>7, ApplyStep
<1>8. ASSUME NEW p \in Openers, Opened(p) PROVE Sound'
  <2>1. cur[p] = Last
    BY <1>8, MigrationConstantsOK DEF Opened, Pending, MigTypeOK
  <2>2. 1 .. Last \subseteq applied
    BY <2>1 DEF Sound, CurIsApplied
  <2> QED BY <1>8, <2>2, ReturnStep DEF Opened
<1>9. ASSUME NEW p \in Openers, ApplyFails(p) \/ Again(p) \/ Close(p) \/ Stop(p) PROVE Sound'
  <2>1. \E where \in {"closed", "failed"} : Return(p, where)
    BY <1>9 DEF ApplyFails, Again, Close, Stop
  <2> QED BY <1>9, <2>1, ReturnStep DEF ApplyFails, Again, Close, Stop
<1>10. ASSUME NEW p \in Openers, CreateMarkouts(p) PROVE Sound'
  BY <1>10
  DEF CreateMarkouts, opener, Sound, AppliedInOrder, TablesFollow, SeenIsApplied, VersionsApplied,
      CurIsApplied, OpenIsWhole
<1>11. CASE UNCHANGED migVars
  BY <1>11
  DEF migVars, database, opener, Sound, AppliedInOrder, TablesFollow, SeenIsApplied,
      VersionsApplied, CurIsApplied, OpenIsWhole
<1> QED
  BY <1>1, <1>2, <1>3, <1>4, <1>5, <1>6, <1>7, <1>8, <1>9, <1>10, <1>11 DEF Next, OpenStep

(* Nothing makes the rebuild undone.                                       *)
LEMMA UndoneStays == ASSUME undone, [Next]_migVars PROVE undone'
BY DEF Next, OpenStep, ReadVersion, ReadTables, TablesFail, NamesRead, HasTable, HasColumn,
       ColumnFails, NextPrint, SeedVersion, Apply, ApplyFails, Opened, Again, Close, Stop,
       CreateMarkouts, migVars, history

LEMMA StepMig == MigInv /\ [Next]_migVars => MigInv'
BY StepTypes, StepSound, UndoneStays DEF MigInv

(* The invariant of sqlite.go's migrate, with any number of processes: a   *)
(* beginning of the list is applied, and every process, version row and    *)
(* open database is within it, until the rebuild takes something back.     *)
THEOREM MigrationInvariant == Spec => []MigInv
BY InitMig, StepMig, PTL DEF Spec

(* No version row is ever ahead of the schema: nothing is skipped, unless  *)
(* the rebuild was repeated over later migrations.                         *)
THEOREM VersionIsBehind == Spec => []VersionNeverAhead
<1>1. MigInv => VersionNeverAhead
  BY DEF MigInv, Sound, VersionsApplied, VersionNeverAhead
<1> QED BY <1>1, MigrationInvariant, PTL

(* An Open that succeeds leaves every migration applied, backfills too,    *)
(* unless the rebuild was repeated over later migrations.                  *)
THEOREM OpenUpToDate == Spec => []OpenedIsUpToDate
<1>1. MigInv => OpenedIsUpToDate
  <2> SUFFICES ASSUME MigInv, NEW p \in Openers, pc[p] = "open", ~undone
               PROVE  applied = Versions /\ tables = Creates
    BY DEF OpenedIsUpToDate
  <2>1. 1 .. Last \subseteq applied /\ tables = applied \cap Creates
    BY DEF MigInv, Sound, OpenIsWhole, TablesFollow
  <2> QED BY <2>1, MigrationConstantsOK DEF MigInv, MigTypeOK, Versions
<1> QED BY <1>1, MigrationInvariant, PTL


(* The rebuild takes nothing back from a database that has not had it.     *)
LEMMA FirstRebuild ==
  ASSUME MigTypeOK, Sound, ~undone, NEW p \in Openers, Apply(p),
         cur[p] + 1 = Rebuild => Rebuild \notin applied
  PROVE  ~undone' /\ applied' = applied \cup {cur[p] + 1}
<1>1. TakenBack(cur[p] + 1) = {}
  <2> SUFFICES ASSUME cur[p] + 1 = Rebuild, NEW w \in Undone \cap applied PROVE FALSE
    BY DEF TakenBack
  <2>1. Rebuild \in 1 .. w /\ 1 .. w \subseteq applied
    BY MigrationConstantsOK DEF Versions, Sound, AppliedInOrder
  <2> QED BY <2>1
<1> QED BY <1>1 DEF Apply

-----------------------------------------------------------------------------
(* Undisturbed, the version is never behind a change of the schema.        *)

(* What inferLegacyVersion takes for granted of the migrations: it has a   *)
(* fingerprint for every change of the schema, for the first one a table.  *)
PrintsTellSchema ==
  /\ Versions \ DataOnly \subseteq TablePrints \cup ColumnPrints
  /\ Last > 0 => 1 \in TablePrints

SchemaChanges == applied \ DataOnly

AloneInside == \A p, q \in Openers : Inside(p) /\ Inside(q) => p = q

(* The fingerprints found so far, and those still to be looked for.        *)
PrintsFound(p) ==
  /\ seen[p] = TablePrints \cap applied
  /\ \A u \in asked[p] : cur[p] <= u
  /\ \A v \in SchemaChanges : v <= cur[p] \/ v \in asked[p]

(* Where an Open is with what it knows of the database.                    *)
Knows(p) ==
  /\ pc[p] \in {"tables", "prints"} => versions = << >>
  /\ pc[p] = "prints" => PrintsFound(p)
  /\ pc[p] = "apply" => \A v \in SchemaChanges : v <= cur[p]

KeepInv ==
  ~disturbed => ~undone /\ VersionCoversSchema /\ AloneInside /\ \A p \in Openers : Knows(p)

LEMMA InitKeep == Init => KeepInv
<1> SUFFICES ASSUME Init PROVE KeepInv
  OBVIOUS
<1>1. found \in Nat
  BY FoundDatabase, MigrationConstantsOK
<1>2. VersionCoversSchema
  BY <1>1, FoundDatabase DEF VersionCoversSchema
<1> QED BY <1>2, FoundDatabase DEF KeepInv, AloneInside, Inside, Knows

(* A step of p, which ends outside of Open or was alone in it.             *)
LEMMA KeepStep ==
  ASSUME KeepInv, NEW p \in Openers,
         ~disturbed' => ~disturbed /\ ~undone' /\ VersionCoversSchema',
         \A q \in Openers \ {p} : /\ pc'[q] = pc[q] /\ cur'[q] = cur[q]
                                  /\ seen'[q] = seen[q] /\ asked'[q] = asked[q],
         ~disturbed' => Knows(p)',
         ~disturbed' => \/ UNCHANGED <<applied, versions>> /\ ~Inside(p)'
                        \/ \A q \in Openers \ {p} : ~Inside(q)
  PROVE  KeepInv'
<1> SUFFICES ASSUME ~disturbed' PROVE AloneInside' /\ \A q \in Openers : Knows(q)'
  BY DEF KeepInv
<1>1. \A q \in Openers \ {p} : Inside(q)' <=> Inside(q)
  BY DEF Inside
<1>2. AloneInside'
  BY <1>1 DEF KeepInv, AloneInside
<1>3. ASSUME NEW q \in Openers \ {p} PROVE Knows(q)'
  <2>1. CASE Inside(q)
    BY <1>3, <2>1 DEF KeepInv, Knows, PrintsFound, SchemaChanges
  <2>2. CASE ~Inside(q)
    BY <1>3, <2>2 DEF Knows, Inside
  <2> QED BY <2>1, <2>2
<1> QED BY <1>2, <1>3

(* The next fingerprint, of a table or a column, found or not.             *)
LEMMA PrintKeep ==
  ASSUME MigInv, KeepInv, NEW p \in Openers, NEW v \in Versions, NextPrint(p, v),
         UNCHANGED disturbed, \A q \in Openers \ {p} : cur'[q] = cur[q],
         ~disturbed => cur'[p] = IF v \in applied THEN v ELSE cur[p]
  PROVE  KeepInv'
<1>1. /\ UNCHANGED <<applied, versions, pc, seen, undone, disturbed>> /\ pc[p] = "prints"
      /\ v \in asked[p] /\ \A u \in asked[p] : v <= u
      /\ asked'[p] = asked[p] \ {v}
      /\ \A q \in Openers \ {p} : asked'[q] = asked[q] /\ cur'[q] = cur[q]
  BY DEF NextPrint, database, MigInv, MigTypeOK
<1>2. cur[p] \in Int /\ v \in Int /\ SchemaChanges \subseteq Int /\ asked[p] \subseteq Int
  BY MigrationConstantsOK DEF MigInv, MigTypeOK, Versions, SchemaChanges
<1>3. ASSUME ~disturbed PROVE Knows(p)'
  <2>1. PrintsFound(p) /\ versions = << >>
    BY <1>1, <1>3 DEF KeepInv, Knows
  <2>2. cur[p] <= v /\ cur[p] <= cur'[p] /\ cur'[p] \in Int
    BY <1>1, <1>2, <1>3, <2>1 DEF PrintsFound
  <2>3. \A u \in asked'[p] : cur'[p] <= u
    BY <1>1, <1>2, <1>3, <2>1 DEF PrintsFound
  <2>4. ASSUME NEW w \in SchemaChanges PROVE w <= cur'[p] \/ w \in asked'[p]
    <3>1. CASE w = v
      BY <1>1, <1>2, <1>3, <3>1 DEF SchemaChanges
    <3>2. CASE w # v
      BY <1>1, <1>2, <2>1, <2>2, <3>2 DEF PrintsFound
    <3> QED BY <3>1, <3>2
  <2>5. PrintsFound(p)'
    BY <1>1, <2>1, <2>3, <2>4 DEF PrintsFound, SchemaChanges
  <2> QED BY <1>1, <2>1, <2>5 DEF Knows
<1>4. ~disturbed => ~undone' /\ VersionCoversSchema' /\ \A q \in Openers \ {p} : ~Inside(q)
  BY <1>1 DEF KeepInv, VersionCoversSchema, AloneInside, Inside
<1> QED BY <1>1, <1>3, <1>4, KeepStep

LEMMA StepKeep == PrintsTellSchema /\ MigInv /\ KeepInv /\ [Next]_migVars => KeepInv'
<1> SUFFICES ASSUME PrintsTellSchema, MigInv, KeepInv, [Next]_migVars PROVE KeepInv'
  OBVIOUS
<1>a. ~disturbed => ~undone /\ Sound
  BY DEF KeepInv, MigInv
<1>1. ASSUME NEW p \in Openers, ReadVersion(p) PROVE KeepInv'
  <2>1. /\ UNCHANGED <<applied, versions, seen, asked, undone>>
        /\ pc'[p] = IF versions = << >> THEN "tables" ELSE "apply"
        /\ versions # << >> => cur'[p] = versions[1]
        /\ \A q \in Openers \ {p} : pc'[q] = pc[q] /\ cur'[q] = cur[q]
    BY <1>1 DEF ReadVersion, Goto, database, MigInv, MigTypeOK
  <2>2. ~disturbed' => ~disturbed /\ \A q \in Openers \ {p} : ~Inside(q)
    BY <1>1 DEF ReadVersion, disturbed
  <2>3. versions # << >> => 1 \in DOMAIN versions
    BY DEF MigInv, MigTypeOK
  <2>4. ~disturbed' => ~undone' /\ VersionCoversSchema /\ VersionCoversSchema'
    BY <2>1, <2>2 DEF KeepInv, VersionCoversSchema
  <2>5. ~disturbed' => Knows(p)'
    BY <2>1, <2>3, <2>4 DEF Knows, VersionCoversSchema, SchemaChanges
  <2> QED BY <2>1, <2>2, <2>4, <2>5, KeepStep
<1>2. ASSUME NEW p \in Openers, ReadTables(p) PROVE KeepInv'
  <2> DEFINE names == TablePrints \cap tables
  <2>1. /\ UNCHANGED <<applied, versions, undone, disturbed>>
        /\ pc[p] = "tables" /\ pc'[p] = "prints" /\ cur'[p] = 0 /\ seen'[p] = names
        /\ asked'[p] = IF 1 \in names THEN TablePrints \cup ColumnPrints ELSE {}
        /\ \A q \in Openers \ {p} : /\ pc'[q] = pc[q] /\ cur'[q] = cur[q]
                                     /\ seen'[q] = seen[q] /\ asked'[q] = asked[q]
    BY <1>2 DEF ReadTables, NamesRead, Goto, database, disturbed, MigInv, MigTypeOK
  <2>2. \A u \in asked'[p] : 0 <= u
    <3>1. TablePrints \cup ColumnPrints \subseteq 1 .. Last
      BY MigrationConstantsOK DEF Versions
    <3>2. asked'[p] \subseteq 1 .. Last
      BY <2>1, <3>1
    <3> QED BY <3>2, MigrationConstantsOK
  <2>3. ASSUME ~disturbed PROVE PrintsFound(p)'
    <3>1. names = TablePrints \cap applied
      BY <1>a, <2>3, MigrationConstantsOK DEF Sound, TablesFollow
    <3>2. ASSUME NEW v \in SchemaChanges PROVE v \in asked'[p]
      <4>1. v \in applied /\ v \in Versions \ DataOnly /\ v \in 1 .. Last /\ Last \in Nat
        BY MigrationConstantsOK DEF MigInv, MigTypeOK, SchemaChanges, Versions
      <4>2. 1 .. v \subseteq applied
        BY <1>a, <2>3, <4>1 DEF Sound, AppliedInOrder
      <4>3. 1 \in names
        BY <3>1, <4>1, <4>2 DEF PrintsTellSchema
      <4>4. v \in TablePrints \cup ColumnPrints
        BY <4>1 DEF PrintsTellSchema
      <4> QED BY <2>1, <4>3, <4>4
    <3> QED BY <2>1, <2>2, <3>1, <3>2 DEF PrintsFound, SchemaChanges
  <2>4. ~disturbed => ~undone' /\ Knows(p)' /\ VersionCoversSchema'
    BY <2>1, <2>3 DEF KeepInv, Knows, VersionCoversSchema
  <2>5. ~disturbed => \A q \in Openers \ {p} : ~Inside(q)
    BY <2>1 DEF KeepInv, AloneInside, Inside
  <2> QED BY <2>1, <2>4, <2>5, KeepStep
<1>3. ASSUME NEW p \in Openers, HasTable(p) PROVE KeepInv'
  <2>1. PICK v \in TablePrints :
          NextPrint(p, v) /\ cur' = [cur EXCEPT ![p] = Dated(p, v, v \in seen[p])]
    BY <1>3 DEF HasTable
  <2>2. v \in Versions
    BY MigrationConstantsOK
  <2>3. ~disturbed => (v \in seen[p] <=> v \in applied)
    BY <2>1 DEF NextPrint, KeepInv, Knows, PrintsFound
  <2>4. /\ \A q \in Openers \ {p} : cur'[q] = cur[q]
        /\ cur'[p] = IF v \in seen[p] THEN v ELSE cur[p]
    BY <2>1 DEF Dated, MigInv, MigTypeOK
  <2>5. NextPrint(p, v) /\ UNCHANGED disturbed
    BY <1>3, <2>1 DEF HasTable, NextPrint, disturbed
  <2> QED BY <2>2, <2>3, <2>4, <2>5, PrintKeep
<1>4. ASSUME NEW p \in Openers, HasColumn(p) PROVE KeepInv'
  <2>1. PICK v \in ColumnPrints :
          NextPrint(p, v) /\ cur' = [cur EXCEPT ![p] = Dated(p, v, v \in applied)]
    BY <1>4 DEF HasColumn
  <2>2. v \in Versions
    BY MigrationConstantsOK
  <2>3. /\ \A q \in Openers \ {p} : cur'[q] = cur[q]
        /\ cur'[p] = IF v \in applied THEN v ELSE cur[p]
    BY <2>1 DEF Dated, MigInv, MigTypeOK
  <2>4. NextPrint(p, v) /\ UNCHANGED disturbed
    BY <1>4, <2>1 DEF HasColumn, NextPrint, disturbed
  <2> QED BY <2>2, <2>3, <2>4, PrintKeep
<1>5. ASSUME NEW p \in Openers, SeedVersion(p) PROVE KeepInv'
  <2>1. /\ UNCHANGED <<applied, cur, asked, undone, disturbed>>
        /\ pc[p] = "prints" /\ pc'[p] = "apply" /\ asked[p] = {}
        /\ versions' = Append(versions, cur[p])
        /\ \A q \in Openers \ {p} : pc'[q] = pc[q] /\ seen'[q] = seen[q]
    BY <1>5 DEF SeedVersion, Goto, history, disturbed, MigInv, MigTypeOK
  <2>2. ASSUME ~disturbed PROVE ~undone' /\ VersionCoversSchema' /\ Knows(p)'
    <3>1. versions = << >> /\ ~undone /\ \A v \in SchemaChanges : v <= cur[p]
      BY <2>1, <2>2 DEF KeepInv, Knows, PrintsFound
    <3>2. versions' = <<cur[p]>>
      BY <2>1, <3>1
    <3>3. \A i \in DOMAIN versions' : versions'[i] = cur[p]
      BY <3>2
    <3> QED BY <2>1, <3>1, <3>3 DEF VersionCoversSchema, Knows, SchemaChanges
  <2>3. ~disturbed => \A q \in Openers \ {p} : ~Inside(q)
    BY <2>1 DEF KeepInv, AloneInside, Inside
  <2> QED BY <2>1, <2>2, <2>3, KeepStep
<1>6. ASSUME NEW p \in Openers, Apply(p) PROVE KeepInv'
  <2>1. /\ UNCHANGED <<pc, seen, asked, disturbed>> /\ pc[p] = "apply"
        /\ cur'[p] = cur[p] + 1
        /\ \A i \in DOMAIN versions' : versions'[i] = cur[p] + 1
        /\ \A q \in Openers \ {p} : cur'[q] = cur[q]
    BY <1>6 DEF Apply, Bumped, disturbed, MigInv, MigTypeOK
  <2>2. cur[p] \in Int /\ SchemaChanges \subseteq Int
    BY MigrationConstantsOK DEF MigInv, MigTypeOK, Versions, SchemaChanges
  <2>3. ASSUME ~disturbed PROVE ~undone' /\ \A v \in SchemaChanges' : v <= cur[p] + 1
    <3>1. \A v \in SchemaChanges : v <= cur[p]
      BY <2>1, <2>3 DEF KeepInv, Knows
    <3>2. cur[p] + 1 = Rebuild => Rebuild \notin applied
      BY <2>2, <3>1, MigrationConstantsOK DEF SchemaChanges
    <3>3. ~undone' /\ applied' = applied \cup {cur[p] + 1}
      BY <1>6, <1>a, <2>3, <3>2, FirstRebuild DEF MigInv
    <3> QED BY <2>2, <3>1, <3>3 DEF SchemaChanges
  <2>4. ~disturbed => ~undone' /\ VersionCoversSchema' /\ Knows(p)'
    BY <2>1, <2>3 DEF VersionCoversSchema, Knows, SchemaChanges
  <2>5. ~disturbed => \A q \in Openers \ {p} : ~Inside(q)
    BY <2>1 DEF KeepInv, AloneInside, Inside
  <2> QED BY <2>1, <2>4, <2>5, KeepStep
<1>7. ASSUME NEW p \in Openers, NEW where \in {"failed", "closed", "open"}, Return(p, where),
             UNCHANGED <<applied, versions, undone, disturbed>>
      PROVE  KeepInv'
  <2>1. /\ pc'[p] = where
        /\ \A q \in Openers \ {p} : /\ pc'[q] = pc[q] /\ cur'[q] = cur[q]
                                    /\ seen'[q] = seen[q] /\ asked'[q] = asked[q]
    BY <1>7 DEF Return, Goto, MigInv, MigTypeOK
  <2>2. Knows(p)' /\ ~Inside(p)'
    BY <2>1 DEF Knows, Inside
  <2>3. ~disturbed => ~undone' /\ VersionCoversSchema'
    BY <1>7 DEF KeepInv, VersionCoversSchema
  <2> QED BY <1>7, <2>1, <2>2, <2>3, KeepStep
<1>8. ASSUME NEW p \in Openers, ApplyFails(p) \/ Again(p) \/ Opened(p) \/ Close(p) \/ Stop(p)
      PROVE  KeepInv'
  <2>1. \E where \in {"failed", "closed", "open"} : Return(p, where)
    BY <1>8 DEF ApplyFails, Again, Opened, Close, Stop
  <2>2. UNCHANGED <<applied, versions, undone, disturbed>>
    BY <1>8 DEF ApplyFails, Again, Opened, Close, Stop, database, history, disturbed
  <2> QED BY <1>7, <2>1, <2>2
<1>9. ASSUME NEW p \in Openers, TablesFail(p) \/ ColumnFails(p) PROVE KeepInv'
  BY <1>9 DEF TablesFail, ColumnFails, KeepInv, disturbed
<1>10. CASE UNCHANGED <<applied, versions, opener, undone, disturbed>>
  BY <1>10
  DEF opener, KeepInv, VersionCoversSchema, AloneInside, Inside, Knows, PrintsFound, SchemaChanges
<1>11. ASSUME NEW p \in Openers, CreateMarkouts(p) PROVE KeepInv'
  BY <1>10, <1>11 DEF CreateMarkouts, history, disturbed
<1>12. CASE UNCHANGED migVars
  BY <1>10, <1>12 DEF migVars, database, history, disturbed
<1> QED
  BY <1>1, <1>2, <1>3, <1>4, <1>5, <1>6, <1>8, <1>9, <1>11, <1>12 DEF Next, OpenStep

(* As long as no Open meets another, the version is never behind a change  *)
(* of the schema, for any migrations that inferLegacyVersion can tell and  *)
(* whatever crashes (sqlite.go:91-185).                                    *)
THEOREM VersionKeepsUpHolds == PrintsTellSchema => (Spec => []VersionKeepsUp)
<1> SUFFICES ASSUME PrintsTellSchema PROVE Spec => []VersionKeepsUp
  OBVIOUS
<1>1. MigInv /\ MigInv' /\ KeepInv /\ [Next]_migVars => KeepInv'
  BY StepKeep
<1>2. KeepInv => VersionKeepsUp
  BY DEF KeepInv, VersionKeepsUp
<1> QED BY <1>1, <1>2, InitKeep, MigrationInvariant, PTL DEF Spec

-----------------------------------------------------------------------------
(* A database that has the rebuild does not have it repeated.              *)

(* The fingerprints tell an Open of the rebuild, and nothing it does later *)
(* makes it forget.                                                        *)
Past(p) ==
  /\ pc[p] = "prints" =>
       Rebuild \in asked[p] \/ (Rebuild <= cur[p] /\ \A u \in asked[p] : Rebuild <= u)
  /\ pc[p] = "apply" => Rebuild <= cur[p]

RebuildIsPast ==
  /\ ~undone /\ 1 .. Rebuild \subseteq applied
  /\ \A i \in DOMAIN versions : Rebuild <= versions[i]
  /\ \A p \in Openers : Past(p)

PastInv == ~misread /\ Rebuild <= found => RebuildIsPast

LEMMA InitPast == Init => PastInv
<1> SUFFICES ASSUME Init, Rebuild <= found PROVE RebuildIsPast
  BY DEF PastInv
<1>1. 1 .. Rebuild \subseteq 1 .. found
  BY FoundDatabase, MigrationConstantsOK DEF Versions
<1> QED BY <1>1, FoundDatabase DEF RebuildIsPast, Past

(* A step of p that leaves the database alone.                             *)
LEMMA PastStep ==
  ASSUME RebuildIsPast, NEW p \in Openers, UNCHANGED <<applied, versions, undone>>, Past(p)',
         \A q \in Openers \ {p} : pc'[q] = pc[q] /\ cur'[q] = cur[q] /\ asked'[q] = asked[q]
  PROVE  RebuildIsPast'
BY DEF RebuildIsPast, Past

LEMMA StepPast ==
  ASSUME PrintsTellSchema, MigTypeOK, Sound, RebuildIsPast, [Next]_migVars, ~misread'
  PROVE  RebuildIsPast'
<1> USE MigrationConstantsOK
<1>a. Rebuild \in Int /\ Rebuild \in ColumnPrints /\ Rebuild \notin TablePrints /\ 1 \in TablePrints
  BY DEF PrintsTellSchema, Versions
<1>1. ASSUME NEW p \in Openers, ReadVersion(p) PROVE RebuildIsPast'
  <2>1. /\ UNCHANGED <<applied, versions, asked, undone>>
        /\ pc'[p] = IF versions = << >> THEN "tables" ELSE "apply"
        /\ versions # << >> => cur'[p] = versions[1]
        /\ \A q \in Openers \ {p} : pc'[q] = pc[q] /\ cur'[q] = cur[q]
    BY <1>1 DEF ReadVersion, Goto, database, MigTypeOK
  <2>2. versions # << >> => 1 \in DOMAIN versions
    BY DEF MigTypeOK
  <2>3. Past(p)'
    BY <2>1, <2>2 DEF RebuildIsPast, Past
  <2> QED BY <2>1, <2>3, PastStep
<1>2. ASSUME NEW p \in Openers, ReadTables(p) PROVE RebuildIsPast'
  <2>1. /\ UNCHANGED <<applied, versions, undone>> /\ pc'[p] = "prints"
        /\ asked'[p] = IF 1 \in TablePrints \cap tables THEN TablePrints \cup ColumnPrints ELSE {}
        /\ \A q \in Openers \ {p} : pc'[q] = pc[q] /\ cur'[q] = cur[q] /\ asked'[q] = asked[q]
    BY <1>2 DEF ReadTables, NamesRead, Goto, database, MigTypeOK
  <2>2. 1 \in tables
    <3>1. 1 \in 1 .. Rebuild
      BY DEF Versions
    <3> QED BY <1>a, <3>1 DEF RebuildIsPast, Sound, TablesFollow
  <2>3. Past(p)'
    BY <1>a, <2>1, <2>2 DEF Past
  <2> QED BY <2>1, <2>3, PastStep
<1>3. ASSUME NEW p \in Openers, HasTable(p) \/ HasColumn(p) PROVE RebuildIsPast'
  <2>1. PICK v \in Versions :
          /\ NextPrint(p, v) /\ (v = Rebuild => cur' = [cur EXCEPT ![p] = v])
          /\ UNCHANGED cur \/ cur' = [cur EXCEPT ![p] = v]
    <3>1. CASE HasTable(p)
      <4>1. PICK v \in TablePrints :
              NextPrint(p, v) /\ cur' = [cur EXCEPT ![p] = Dated(p, v, v \in seen[p])]
        BY <3>1 DEF HasTable
      <4>2. UNCHANGED cur \/ cur' = [cur EXCEPT ![p] = v]
        BY <4>1 DEF Dated, MigTypeOK
      <4> QED BY <1>a, <4>1, <4>2
    <3>2. CASE HasColumn(p)
      <4>1. PICK v \in ColumnPrints :
              NextPrint(p, v) /\ cur' = [cur EXCEPT ![p] = Dated(p, v, v \in applied)]
        BY <3>2 DEF HasColumn
      <4>2. UNCHANGED cur \/ cur' = [cur EXCEPT ![p] = v]
        BY <4>1 DEF Dated, MigTypeOK
      <4>3. Rebuild \in applied
        BY <1>a DEF RebuildIsPast, Versions
      <4> QED BY <4>1, <4>2, <4>3 DEF Dated
    <3> QED BY <1>3, <3>1, <3>2
  <2>2. /\ UNCHANGED <<applied, versions, undone, pc>> /\ pc[p] = "prints"
        /\ \A u \in asked[p] : v <= u
        /\ asked'[p] = asked[p] \ {v} /\ v \in asked[p]
        /\ cur'[p] \in {cur[p], v} /\ (v = Rebuild => cur'[p] = v)
        /\ \A q \in Openers \ {p} : cur'[q] = cur[q] /\ asked'[q] = asked[q]
    BY <2>1 DEF NextPrint, database, MigTypeOK
  <2>3. Past(p)'
    BY <1>a, <2>2 DEF RebuildIsPast, Past
  <2> QED BY <2>2, <2>3, PastStep
<1>4. ASSUME NEW p \in Openers, SeedVersion(p) PROVE RebuildIsPast'
  <2>1. /\ UNCHANGED <<applied, cur, asked, undone>>
        /\ pc[p] = "prints" /\ pc'[p] = "apply" /\ asked[p] = {}
        /\ versions' = Append(versions, cur[p]) /\ \A q \in Openers \ {p} : pc'[q] = pc[q]
    BY <1>4 DEF SeedVersion, Goto, history, MigTypeOK
  <2>2. Rebuild <= cur[p]
    BY <2>1 DEF RebuildIsPast, Past
  <2>3. \A i \in DOMAIN versions' : Rebuild <= versions'[i]
    BY <2>1, <2>2 DEF RebuildIsPast, MigTypeOK
  <2> QED BY <2>1, <2>2, <2>3 DEF RebuildIsPast, Past
<1>5. ASSUME NEW p \in Openers, Apply(p) PROVE RebuildIsPast'
  <2>1. /\ UNCHANGED <<pc, asked>> /\ pc[p] = "apply" /\ cur'[p] = cur[p] + 1
        /\ \A i \in DOMAIN versions' : versions'[i] = cur[p] + 1
        /\ \A q \in Openers \ {p} : cur'[q] = cur[q]
    BY <1>5 DEF Apply, Bumped, MigTypeOK
  <2>2. Rebuild <= cur[p] /\ cur[p] \in Int
    BY <2>1 DEF RebuildIsPast, Past, MigTypeOK
  <2>3. ~undone' /\ applied' = applied \cup {cur[p] + 1}
    BY <1>5, <1>a, <2>2, FirstRebuild DEF RebuildIsPast
  <2> QED BY <1>a, <2>1, <2>2, <2>3 DEF RebuildIsPast, Past
<1>6. ASSUME NEW p \in Openers, ApplyFails(p) \/ Again(p) \/ Opened(p) \/ Close(p) \/ Stop(p)
      PROVE  RebuildIsPast'
  <2>1. PICK where \in {"failed", "closed", "open"} : Return(p, where)
    BY <1>6 DEF ApplyFails, Again, Opened, Close, Stop
  <2>2. UNCHANGED <<applied, versions, undone>>
    BY <1>6 DEF ApplyFails, Again, Opened, Close, Stop, database, history
  <2>3. /\ pc'[p] = where
        /\ \A q \in Openers \ {p} : pc'[q] = pc[q] /\ cur'[q] = cur[q] /\ asked'[q] = asked[q]
    BY <2>1 DEF Return, Goto, MigTypeOK
  <2>4. Past(p)'
    BY <2>3 DEF Past
  <2> QED BY <2>2, <2>3, <2>4, PastStep
<1>7. ASSUME NEW p \in Openers, TablesFail(p) \/ ColumnFails(p) PROVE FALSE
  BY <1>7 DEF TablesFail, ColumnFails
<1>8. CASE UNCHANGED <<applied, versions, opener, undone>>
  BY <1>8 DEF opener, RebuildIsPast, Past
<1>9. ASSUME NEW p \in Openers, CreateMarkouts(p) PROVE RebuildIsPast'
  BY <1>8, <1>9 DEF CreateMarkouts, history
<1>10. CASE UNCHANGED migVars
  BY <1>8, <1>10 DEF migVars, database, history
<1> QED BY <1>1, <1>2, <1>3, <1>4, <1>5, <1>6, <1>7, <1>9, <1>10 DEF Next, OpenStep

(* What the database was found with is not changed, nor a failed query     *)
(* forgotten.                                                              *)
LEMMA HistoryStays == ASSUME [Next]_migVars PROVE UNCHANGED found /\ (misread => misread')
BY DEF Next, OpenStep, ReadVersion, ReadTables, TablesFail, NamesRead, HasTable, HasColumn,
       ColumnFails, NextPrint, SeedVersion, Apply, ApplyFails, Opened, Again, Close, Stop,
       CreateMarkouts, migVars, history

(* The rebuild of markouts is repeated over later migrations only where    *)
(* Opens met in a database that was older than it or a query failed, for   *)
(* any number of processes and any migrations that inferLegacyVersion can  *)
(* tell (sqlite.go:92-139, 003_measurement.sql:17-48).                     *)
THEOREM RebuildHolds == PrintsTellSchema => (Spec => []RebuildTakesNothingBack)
<1> SUFFICES ASSUME PrintsTellSchema PROVE Spec => []RebuildTakesNothingBack
  OBVIOUS
<1>1. MigInv /\ MigInv' /\ PastInv /\ [Next]_migVars => PastInv'
  <2> SUFFICES ASSUME MigInv, PastInv, [Next]_migVars, ~misread', Rebuild <= found'
               PROVE  RebuildIsPast'
    BY DEF PastInv
  <2>1. RebuildIsPast
    BY HistoryStays DEF PastInv
  <2>2. Sound
    BY <2>1 DEF MigInv, RebuildIsPast
  <2> QED BY <2>1, <2>2, StepPast DEF MigInv
<1>2. MigInv /\ MigInv' /\ KeepInv /\ [Next]_migVars => KeepInv'
  BY StepKeep
<1>3. MigInv /\ KeepInv /\ PastInv => RebuildTakesNothingBack
  <2> SUFFICES ASSUME MigInv, KeepInv, PastInv, undone, ~misread PROVE met /\ found < Rebuild
    BY DEF RebuildTakesNothingBack
  <2>1. met
    BY DEF KeepInv, disturbed
  <2>2. ~(Rebuild <= found)
    BY DEF PastInv, RebuildIsPast
  <2> QED BY <2>1, <2>2, MigrationConstantsOK DEF MigInv, MigTypeOK, Versions
<1> QED BY <1>1, <1>2, <1>3, InitPast, InitKeep, MigrationInvariant, PTL DEF Spec
=============================================================================
