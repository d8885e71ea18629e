\* Two events of one token. Refutes: an entry is at most 30s stale.
CONSTANTS
  e1 = e1  e2 = e2  t1 = t1  t2 = t2  NULL = NULL
  Events = {e1, e2}
  Tokens = {t1}
  TokenOf <- SameToken
  Horizons = {2}
  Res = 2
  Grace = 2
  FeedLag = 0
  Slots = {0}
  ListLimit = 9
  MaxTokens = 1
  BackoffUnit = 1
  BackoffMax = 2
  Faults = {}
  MaxFaults = 0
  Start = 3
  MaxCreate = 5
  MaxTime = 10
  MaxDelay = 0
SPECIFICATION Spec
CHECK_DEADLOCK FALSE
INVARIANTS
  EntryStaleAtMostOneRes
