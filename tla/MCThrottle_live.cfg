SPECIFICATION FairSpec
CONSTANTS
  t1 = t1  t2 = t2
  Threads <- TwoThreads
  Functions = {"delay", "rate_limit", "success"}
  MaxLevel = 2
  Threshold = 2
  Interval = 2
  DecayMod = 8
  FirstTime = 1
  MaxClock = 4
  LastRateLimit = 2
  MaxRateLimits = 2
  MaxSuccesses = 2
  ClockMayGoBack = FALSE
PROPERTIES NoPermanentStall
