\* Two processes, an old database with or without a version row. Refutes: one without is dated v6 at
\* most; an Open that succeeds leaves every migration applied. Run TLC with -continue.
CONSTANTS
  collect = collect  analyze = analyze
  Openers = {collect, analyze}
  Last = 9
  TablePrints = {1, 2, 5}
  ColumnPrints = {3, 4, 6, 8}
  DataOnly = {7, 9}
  Uses <- ColumnsUsed
  Creates = {1, 2, 5, 6}
  Rebuild = 3
  Undone = {4, 6, 7, 8, 9}
  Databases <- OldDatabase
  Faults = {}
  MaxFaults = 0
SPECIFICATION Spec
CHECK_DEADLOCK FALSE
INVARIANTS
  OpenedHasEverything
PROPERTIES
  LegacyRunsBackfills
