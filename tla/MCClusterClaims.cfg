\* Two events of one token, no fault. Refutes both claims: run TLC with -continue.
CONSTANTS
  smart = smart  kol = kol  NULL = NULL
  a = a  b = b  a2 = a2  k = k  tok = tok  other = other
  alice = alice  bob = bob  carol = carol
  Feeds = {smart, kol}
  Events = {a, b}
  Token <- TokenOf
  Wallet <- WalletOf
  Lane <- LaneOf
  TradeTime <- TradedAt
  Windows = {1, 3}
  MaxTime = 5
  MaxFaults = 0
SPECIFICATION Spec
CHECK_DEADLOCK FALSE
INVARIANTS
  OutOfOrderIsHarmless
  OneSnapshotPerToken
