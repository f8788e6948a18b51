SPECIFICATION Spec
CONSTANTS
  t1 = t1  t2 = t2
  Threads <- TwoThreads
  Functions = {"delay", "rate_limit", "success"}
  MaxLevel = 2
  Threshold = 2
  Interval = 8
  DecayMod = 8
  FirstTime = 1
  MaxClock = 2
  LastRateLimit = 2
  MaxRateLimits = 2
  MaxSuccesses = 4
  ClockMayGoBack = FALSE
INVARIANTS SuccessesPerLevel
