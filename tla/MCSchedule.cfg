\* Two events on their own tokens and a budget of one token per pass.
CONSTANTS
  e1 = e1  e2 = e2  t1 = t1  t2 = t2  NULL = NULL
  Events = {e1, e2}
  Tokens = {t1, t2}
  TokenOf <- OwnToken
  Horizons = {2}
  Res = 2
  Grace = 2
  FeedLag = 0
  Slots = {0, 2}
  ListLimit = 3
  MaxTokens = 1
  BackoffUnit = 1
  BackoffMax = 2
  Faults = {"apierror", "empty"}
  MaxFaults = 1
  Start = 2
  MaxCreate = 2
  MaxTime = 8
  MaxDelay = 0
SPECIFICATION FairSpec
CHECK_DEADLOCK FALSE
PROPERTIES
  FollowerPendingFirst
  FollowerEventuallyClassified
