\* Two feeds that both carry one trade, each with a received_at of its own; one
\* fault on either side.
CONSTANTS
  smart = smart  kol = kol  tok = tok  NULL = NULL
  Feeds = {smart, kol}
  MaxEvents = 1
  CarriedBy <- BothCarryAll
  PageSize = 1
  Priced = {1}
  Tokens = {tok}
  TokenOf <- OneToken
  Horizons = {1}
  Res = 1
  Grace = 1
  FeedLag = 0
  Slots = {0}
  ListLimit = 9
  MaxTokens = 1
  BackoffUnit = 1
  BackoffMax = 1
  FeedFaults = {"insert", "write", "restart"}
  MaxFeedFaults = 1
  EngineFaults = {"restart"}
  MaxEngineFaults = 1
  Start = 1
  MaxTime = 3
SPECIFICATION Spec
SYMMETRY AnyFeed
CHECK_DEADLOCK FALSE
INVARIANTS
  RowsBelongToTrade
