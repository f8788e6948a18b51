SPECIFICATION Spec
CONSTANTS
  t1 = t1  t2 = t2
  Threads <- TwoThreads
  Functions = {"delay", "rate_limit", "success"}
  MaxLevel = 2
  Threshold = 2
  Interval = 1
  DecayMod = 2
  FirstTime = 1
  MaxClock = 3
  LastRateLimit = 2
  MaxRateLimits = 3
  MaxSuccesses = 4
  ClockMayGoBack = TRUE
SYMMETRY ThreadSymmetry
INVARIANTS TypeOK EscalationsNotLost RecoveryRateBounded
PROPERTIES ImplementsBackoff
