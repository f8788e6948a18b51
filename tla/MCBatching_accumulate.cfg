SPECIFICATION Spec
CONSTANTS
  c1 = c1  c2 = c2  r1 = r1  r2 = r2  r3 = r3  r4 = r4
  Calls <- TwoCalls
  Requests <- SmallRequests
  RequestsOf <- SmallRequestsOf
  SingleCalls <- OneSingle
  IdOf <- OwnIds
  MaxBatchSize = 2
  MaxRetries = 1
  FallbackConcurrency = 1
  Outcomes = {"response"}
PROPERTIES FlushesWhenFullOrDue
