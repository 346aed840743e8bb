SPECIFICATION FairSpec
CONSTANTS
    PromptLen = 1
    Batches <- ShortBatches
    Remote = {TRUE}
    Slots = 1
    MaxNew = 2
    Microbatch = 1
    Faults = {"timeout"}
    MaxFaults = 1
INVARIANT
    TextsRight
CHECK_DEADLOCK FALSE
