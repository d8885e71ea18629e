\* A restart. Refutes: exactly-once pipeline entry.
CONSTANTS
  smart = smart  kol = kol  NULL = NULL
  Feeds = {smart, kol}
  MaxEvents = 2
  CarriedBy <- Carried
  PageSize = 2
  Priced = {2}
  MaxFaults = 1
  Faults = {"restart"}
SPECIFICATION FairSpec
CHECK_DEADLOCK FALSE
PROPERTIES
  ExactlyOnceEntry
