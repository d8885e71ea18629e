\* Two runs while the agent works, one git status, add or push fails. Refutes: the report commit never drags
\* other files along; a sync failure degrades to a SYNC WARN; without a SYNC WARN the report is
\* pushed. Run TLC with -continue.
CONSTANTS
  NULL = NULL  cells = cells  coverage = coverage  main = main  store = store
  MaxDays = 1
  MaxRuns = 2
  NumWindows = 1
  Gates = {cells}
  Code = {main}
  PipeFits = 9
  Faults = {"status", "add", "push"}
  MaxFaults = 1
SPECIFICATION DailySpec
CHECK_DEADLOCK FALSE
INVARIANTS
  NoWarnMeansPushed
PROPERTIES
  SyncOnlyWarns
  ReportCommitIsPure
