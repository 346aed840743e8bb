SPECIFICATION FairSpec
CONSTANTS
    PromptLen = 1
    Batches <- ShortBatches
    Remote = {FALSE, TRUE}
    Slots = 1
    MaxNew = 2
    Microbatch = 1
    Faults = {"lose", "timeout", "crash", "raise", "restart"}
    MaxFaults = 1
INVARIANTS
    AnswersRight
    OneCallPerClient
    NothingLeftBehind
PROPERTIES
    CallEnds
CHECK_DEADLOCK FALSE
