SPECIFICATION FairSpec
CONSTANTS
  c1 = c1  c2 = c2  c3 = c3  d1 = d1  d2 = d2  None = None
  Calls <- ThreeCalls
  NumEndpoints = 2
  Weights <- TwoWeights
  Caps <- LiveCaps
  InFlightLimits <- TwoLimits
  Bytes <- LiveBytes
  Domains <- TwoDomains
  DomainOf <- TwoDomainOf
  SharedDomains <- NoDomain
  MaxLevel = 2
  HeavyLevels = {2}
  MaxRetryRounds = 1
  Replies = {"ok", "http_429", "http_503", "http_400"}
  CounterMod = 3
  Unlimited = None
PROPERTIES EveryCallReturns ImplementsUpstream
