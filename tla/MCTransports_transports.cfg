SPECIFICATION ComposedSpec
CONSTANTS
  c1 = c1  c2 = c2  r1 = r1  r2 = r2  r3 = r3
  Calls <- TwoCalls
  Requests <- ThreeRequests
  RequestsOf <- CallRequests
  SingleCalls <- OneSingle
  IdOf <- OwnIds
  MaxBatchSize = 3
  MaxRetries = 1
  FallbackConcurrency = 1
  Outcomes = {"response", "error"}
  BytesOf <- Sizes
  LargestCap = 2
  InnerSends = 2
  InnerReplies = {"ok", "http_503"}
INVARIANTS WireBounded RefusedUnsent ResponsesAreReal
PROPERTIES AnsweredLeavesTheWire
