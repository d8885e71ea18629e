\* Two feeds, four events of two tokens, windows of 1 s and 3 s, one fault.
CONSTANTS
  smart = smart  kol = kol  NULL = NULL
  a = a  b = b  a2 = a2  k = k  tok = tok  other = other
  alice = alice  bob = bob  carol = carol
  Feeds = {smart, kol}
  Events = {a, b, a2, k}
  Token <- TokenOf
  Wallet <- WalletOf
  Lane <- LaneOf
  TradeTime <- TradedAt
  Windows = {1, 3}
  MaxTime = 5
  MaxFaults = 1
SPECIFICATION Spec
CHECK_DEADLOCK FALSE
INVARIANTS
  ConvergenceIsCounted
  ReportGrowsWithWindow
