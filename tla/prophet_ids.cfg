SPECIFICATION Spec
CONSTANTS
  NumBlocks = 7
  BlockSize = 2
  SuffixPrefill = TRUE
  Stop = 0
  Prompts <- TailsOfTwo
  Tokens = {}
  CallerIds = {}
  Policy <- Defaults
  PrefixTokens = 16
  ResidentMax = 1
  Room = 1
  ValidationTokens = 1
  Faults = {}
  MaxEntries = 2
  MaxHeld = 3
  MaxLen = 4
  MaxCount = 3
INVARIANT
  ContextsHoldWhatWasTold
VIEW View
CHECK_DEADLOCK FALSE
