\* One feed that goes on showing one trade, one horizon; one fault on either side.
CONSTANTS
  smart = smart  kol = kol  tok = tok  NULL = NULL
  Feeds = {smart}
  MaxEvents = 1
  CarriedBy <- BothCarryAll
  PageSize = 1
  Priced = {1}
  Tokens = {tok}
  TokenOf <- OneToken
  Horizons = {1}
  Res = 1
  Grace = 1
  FeedLag = 0
  Slots = {0, 1}
  ListLimit = 9
  MaxTokens = 1
  BackoffUnit = 1
  BackoffMax = 1
  FeedFaults = {"insert", "restart"}
  MaxFeedFaults = 1
  EngineFaults = {"apierror", "restart"}
  MaxEngineFaults = 1
  Start = 1
  MaxTime = 4
SPECIFICATION FairSpec
CHECK_DEADLOCK FALSE
PROPERTIES
  ImplementsEngine
  ShownPriceIsFilled
