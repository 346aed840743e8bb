SPECIFICATION FairSpec
CONSTANTS
  NumBlocks = 2
  BlockSize = 2
  MaxBatch = 2
  MaxRequests = 2
  PromptLens = {1, 3}
  MaxNews = {2}
  Bursts = {1}
  Failures = FALSE
  ContextIds = {}
  ContextBlocks = {}
  MaxCalls = 1
CHECK_DEADLOCK FALSE
PROPERTY CallReturns
