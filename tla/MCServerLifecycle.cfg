SPECIFICATION FairSpec
CONSTANTS
    Blocks <- MCBlocks
    Spans <- MCSpans
    MaxGen = 3
CHECK_DEADLOCK FALSE
INVARIANTS
    OnlineIsLoaded
PROPERTIES
    OnlyCurrentSpanDeclared
    ServingIsVisible
    StopIsSeen
