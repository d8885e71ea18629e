\* Refutes: no request leaves while the gate is shut.
CONSTANTS
  smart = smart  kol = kol  kline = kline
  Pollers = {smart, kol}
  Samplers = {kline}
  Weight <- Weights
  Interval <- Intervals
  Burst = 2
  Rate = 1
  MinCooldown = 2
  RetryPause = 1
  LongReset = 3
  BackoffMin = 1
  BackoffMax = 2
  MaxTokens = 2
  Resets = {0, 3}
  MaxRejections = 1
  Window = 0
SPECIFICATION Spec
PROPERTIES
  NoRequestWhileShut
