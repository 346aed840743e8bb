SPECIFICATION Spec
CONSTANTS
  NumBlocks = 7
  BlockSize = 2
  SuffixPrefill = TRUE
  Stop = 0
  Prompts <- TailsOfTwo
  Tokens = {3}
  CallerIds = {11, 12}
  Policy <- Defaults
  PrefixTokens = 16
  ResidentMax = 1
  Room = 1
  ValidationTokens = 1
  Faults = {}
  MaxEntries = 2
  MaxHeld = 2
  MaxLen = 4
  MaxCount = 1
INVARIANT
  ForksArePrivate
VIEW View
CHECK_DEADLOCK FALSE
