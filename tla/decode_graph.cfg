SPECIFICATION Spec
CONSTANTS
    Configs <- Supported
    Calls <- ThreeOne
    PromptLens = {1}
    MaxNew = 7
    MaxBatch = 2
    Burst = 2
    BlockSize = 4
    NumBlocks = 6
INVARIANTS
    ShapesExact
    LensInStep
CHECK_DEADLOCK FALSE
