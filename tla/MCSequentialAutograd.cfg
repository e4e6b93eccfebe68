SPECIFICATION FairSpec
CONSTANTS
    NumBlocks = 4
    MaxRetries = 3
    MaxFailures = 4
    MaxBackwards = 2
CHECK_DEADLOCK FALSE
INVARIANTS
    
    BackwardFollowsForward
    
