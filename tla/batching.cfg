SPECIFICATION FairSpec
CONSTANTS
  NumBlocks = 4
  BlockSize = 2
  MaxBatch = 2
  MaxRequests = 3
  PromptLens = {1, 3}
  MaxNews = {0, 1, 3}
  Bursts = {1, 2}
  Failures = TRUE
  ContextIds <- FarIds
  ContextBlocks = {1}
  MaxCalls = 2
CHECK_DEADLOCK FALSE
INVARIANTS TypeOK RequestConservation PoolAccounting RunningIsDecodable AdmissionFits ReturnedComplete
PROPERTIES CallEnds ContextsSurvive
