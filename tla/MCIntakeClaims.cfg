\* A failed insert (-continue). Refutes: what dedup skips is stored; an event is
\* received after it was traded.
CONSTANTS
  smart = smart  kol = kol  NULL = NULL
  Feeds = {smart, kol}
  MaxEvents = 2
  CarriedBy <- Carried
  PageSize = 2
  Priced = {2}
  MaxFaults = 1
  Faults = {"insert"}
SPECIFICATION Spec
CHECK_DEADLOCK FALSE
INVARIANTS
  ReceivedAfterTrade
PROPERTIES
  SkippedIsStored
