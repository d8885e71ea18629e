\* Grace of one resolution, as configured, and a feed that lags. Refutes: a candle not yet visible is retried.
CONSTANTS
  e1 = e1  e2 = e2  t1 = t1  t2 = t2  NULL = NULL
  Events = {e1}
  Tokens = {t1}
  TokenOf <- SameToken
  Horizons = {2, 4}
  Res = 2
  Grace = 2
  FeedLag = 1
  Slots = {0, 2, 4}
  ListLimit = 9
  MaxTokens = 1
  BackoffUnit = 1
  BackoffMax = 2
  Faults = {}
  MaxFaults = 0
  Start = 3
  MaxCreate = 3
  MaxTime = 10
  MaxDelay = 1
SPECIFICATION Spec
CHECK_DEADLOCK FALSE
INVARIANTS
  NoCandleOnlyAfterStreamEnd
