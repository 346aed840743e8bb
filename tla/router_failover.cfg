CONSTANTS
    a = a
    b = b
    c = c
    EndpointLists <- MCEndpointLists
    Weight <- MCWeight
    MaxPrompts = 5
SPECIFICATION FairSpec
INVARIANTS
    TypeOK
    EveryPromptOnce
    AnswersAtOwnIndex
    RaisesOnlyWhenExhausted
    DealtByWeight
PROPERTIES
    RoundsMakeProgress
    CallEnds
CHECK_DEADLOCK FALSE
