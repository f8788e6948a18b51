SPECIFICATION Spec
CONSTANTS
  c1 = c1  c2 = c2  c3 = c3  d1 = d1  d2 = d2  None = None
  Calls <- TwoCalls
  NumEndpoints = 2
  Weights <- TwoWeights
  Caps <- TwoCaps
  InFlightLimits <- TwoLimits
  Bytes <- SmallBytes
  Domains <- TwoDomains
  DomainOf <- TwoDomainOf
  SharedDomains <- NoDomain
  MaxLevel = 1
  HeavyLevels = {1}
  MaxRetryRounds = 1
  Replies = {"ok", "http_429"}
  CounterMod = 3
  Unlimited = None
INVARIANTS SeenOnlyIfAllFail
