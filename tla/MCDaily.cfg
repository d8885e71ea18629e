\* Two days, two runs, any figures; the agent works on two files; two failures of any kind.
CONSTANTS
  NULL = NULL  cells = cells  coverage = coverage  main = main  store = store
  MaxDays = 2
  MaxRuns = 2
  NumWindows = 2
  Gates = {cells, coverage}
  Code = {main, store}
  PipeFits = 1
  Faults = {"look", "status", "add", "commit", "push", "abort"}
  MaxFaults = 2
SPECIFICATION DailySpec
SYMMETRY Files
CHECK_DEADLOCK FALSE
INVARIANTS
  ReachedIsEarned
  SuccessIsEvaluated
  CleanSyncPublishes
PROPERTIES
  DragsOnlyLateFiles
