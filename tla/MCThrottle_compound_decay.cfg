SPECIFICATION Spec
CONSTANTS
  t1 = t1  t2 = t2
  Threads <- OneThread
  Functions = {"delay", "rate_limit"}
  MaxLevel = 3
  Threshold = 2
  Interval = 2
  DecayMod = 8
  FirstTime = 1
  MaxClock = 6
  LastRateLimit = 6
  MaxRateLimits = 3
  MaxSuccesses = 0
  ClockMayGoBack = FALSE
INVARIANTS OneLevelPerInterval
