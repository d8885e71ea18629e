\* The configured budget, burst 6 and rate 3; two rejections, restarts, windows of one tick.
CONSTANTS
  smart = smart  kol = kol  kline = kline
  Pollers = {smart, kol}
  Samplers = {kline}
  Weight <- Weights
  Interval <- Intervals
  Burst = 6
  Rate = 3
  MinCooldown = 2
  RetryPause = 1
  LongReset = 3
  BackoffMin = 1
  BackoffMax = 2
  MaxTokens = 4
  Resets = {0, 3}
  MaxRejections = 2
  Window = 0
SPECIFICATION FairSpec
INVARIANTS
  BudgetKept
  GateCoversResets
PROPERTIES
  AtMostOneLateRequest
  EveryCallerServed
