\* Refutes: fresh pending rows are ordered first.
CONSTANTS
  e1 = e1  e2 = e2  t1 = t1  t2 = t2  NULL = NULL
  Events = {e1, e2}
  Tokens = {t1, t2}
  TokenOf <- OwnToken
  Horizons = {2}
  Res = 2
  Grace = 2
  FeedLag = 0
  Slots = {0, 2, 4}
  ListLimit = 9
  MaxTokens = 1
  BackoffUnit = 1
  BackoffMax = 2
  Faults = {"apierror"}
  MaxFaults = 1
  Start = 3
  MaxCreate = 4
  MaxTime = 10
  MaxDelay = 1
SPECIFICATION Spec
CHECK_DEADLOCK FALSE
PROPERTIES
  PendingBeforeRetry
