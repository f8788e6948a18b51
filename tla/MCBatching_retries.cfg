SPECIFICATION FairSpec
CONSTANTS
  c1 = c1  c2 = c2  r1 = r1  r2 = r2  r3 = r3  r4 = r4
  Calls <- TwoCalls
  Requests <- LargeRequests
  RequestsOf <- LargeRequestsOf
  SingleCalls <- OneSingle
  IdOf <- LargeIds
  MaxBatchSize = 3
  MaxRetries = 2
  FallbackConcurrency = 1
  Outcomes = {"response", "panic"}
INVARIANTS TypeOK OneOwner NoneStranded GoneOnlyByPanic BatchComesFirst
PROPERTIES EveryCallReturns ImplementsDelivery
