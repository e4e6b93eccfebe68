SPECIFICATION FairSpec
CONSTANTS
    p1 = p1
    p2 = p2
    c1 = c1
    Peers = {p1, p2}
    NumBlocks = 3
    Callers = {c1}
    Modes = {"min_latency", "max_throughput", "info"}
    Declarations <- MCOverlapping
    MaxChanges = 1
    MaxFailures = 1
INVARIANTS
    
    NoRequestLost
PROPERTIES
    TableConverges
