CONSTANTS
    Tokens = {a, b}
    a = a
    b = b
    NumBlocks = 2
    MaxLength = 2
    MaxRetries = 0
    UseS2S = TRUE
    PushOnly = TRUE
    MaxChunk = 1
    MaxSessions = 4
    MaxSteps = 3
    MaxFaults = 2
SPECIFICATION FairSpec
CHECK_DEADLOCK FALSE
INVARIANTS
    ChainInStep
    ResponseOfThisStep
PROPERTIES
    StepReturnsItsOutputs
    StepReturns
