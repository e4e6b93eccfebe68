SPECIFICATION FairSpec
CONSTANTS
    t1 = t1
    t2 = t2
    inference = inference
    forward = forward
    Tasks = {t1, t2}
    Pools = {inference, forward}
    Priority <- MCPriority
    Prefetch = 1
    MayStop = TRUE
CHECK_DEADLOCK FALSE
INVARIANTS
    NoLostTask
PROPERTIES
    TaskSettles
