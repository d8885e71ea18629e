\* One event, both kinds, two horizons, every market on five slots; one
\* fault of any kind.
CONSTANTS
  e1 = e1  e2 = e2  t1 = t1  t2 = t2  NULL = NULL
  Events = {e1}
  Tokens = {t1}
  TokenOf <- SameToken
  Horizons = {2, 4}
  Res = 2
  Grace = 3
  FeedLag = 1
  Slots = {0, 2, 4, 6, 8}
  ListLimit = 9
  MaxTokens = 1
  BackoffUnit = 1
  BackoffMax = 2
  Faults = {"ratelimit", "apierror", "empty", "garbage", "write", "restart"}
  MaxFaults = 1
  Start = 4
  MaxCreate = 4
  MaxTime = 11
  MaxDelay = 1
SPECIFICATION Spec
CHECK_DEADLOCK FALSE
INVARIANTS
  EntryIsLastKnownClose
  OutcomeIsFirstClose
  VerdictIsJustified
  CensusesAgree
  LostWriteCostsOneRow
PROPERTIES
  ImplementsLedger
