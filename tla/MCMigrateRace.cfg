\* Two processes, a database with a version row. Refutes: a change of the schema is always in the version.
CONSTANTS
  collect = collect  analyze = analyze
  Openers = {collect, analyze}
  Last = 9
  TablePrints = {1, 2, 5}
  ColumnPrints = {3, 4, 6, 8}
  DataOnly = {7, 9}
  Uses <- ColumnsUsed
  Creates = {1, 2, 5, 6}
  Rebuild = 3
  Undone = {4, 6, 7, 8, 9}
  Databases <- DatedDatabase
  Faults = {}
  MaxFaults = 0
SPECIFICATION Spec
CHECK_DEADLOCK FALSE
INVARIANTS
  VersionCoversSchema
