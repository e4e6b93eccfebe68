SPECIFICATION FairSpec
CONSTANTS
    p1 = p1
    p2 = p2
    p3 = p3
    Peers = {p1, p2, p3}
    NumBlocks = 3
    Throughput <- MCThroughput
    Length <- MCLength
    Unit = 2000
    BalanceQuality = 750
    MaxChecks = 3
CHECK_DEADLOCK FALSE
PROPERTIES
    CheckEnds
    
