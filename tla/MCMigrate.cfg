\* Two processes on one file, at the same time or not; two failures of any kind.
CONSTANTS
  collect = collect  analyze = analyze
  Openers = {collect, analyze}
  Last = 9
  TablePrints = {1, 2, 5}
  ColumnPrints = {3, 4, 6, 8}
  DataOnly = {7, 9}
  Uses <- ColumnsUsed
  Creates = {1, 2, 5, 6}
  Rebuild = 3
  Undone = {4, 6, 7, 8, 9}
  Databases <- AnyDatabase
  Faults = {"stop", "query"}
  MaxFaults = 2
SPECIFICATION FairSpec
CHECK_DEADLOCK FALSE
INVARIANTS
  OpenedIsUpToDate
  VersionNeverAhead
  VersionKeepsUp
  RebuildTakesNothingBack
PROPERTIES
  OpensEventually
