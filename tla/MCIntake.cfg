\* Two feeds, two events, any one fault.
CONSTANTS
  smart = smart  kol = kol  NULL = NULL
  Feeds = {smart, kol}
  MaxEvents = 2
  CarriedBy <- Carried
  PageSize = 2
  Priced = {2}
  MaxFaults = 1
  Faults = {"insert", "write", "restart"}
SPECIFICATION FairSpec
CHECK_DEADLOCK FALSE
INVARIANTS
  CountedAtMostOnce
PROPERTIES
  ShownIsStored
  OnlyFailedWritesAreMissing
