SPECIFICATION Spec
CONSTANTS
  c1 = c1  c2 = c2  c3 = c3  d1 = d1  d2 = d2  None = None
  Calls <- TwoCalls
  NumEndpoints = 3
  Weights <- ThreeWeights
  Caps <- ThreeCaps
  InFlightLimits <- ThreeLimits
  Bytes <- MixedBytes
  Domains <- TwoDomains
  DomainOf <- ThreeDomainOf
  SharedDomains <- OneDomain
  MaxLevel = 1
  HeavyLevels = {1}
  MaxRetryRounds = 1
  Replies = {"ok", "http_429", "http_503"}
  CounterMod = 7
  Unlimited = None
INVARIANTS TypeOK NeverPanics PermitsConserved VisitsBounded GivesUpAfterFullRotations WeightedShare
