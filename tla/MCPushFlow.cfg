SPECIFICATION FairSpec
CONSTANTS
    p1 = p1
    p2 = p2
    p3 = p3
    p4 = p4
    Pushers = {p1, p2, p3, p4}
    MinLimit = 2
    MaxLimit = 3
    InitialLimit = 3
    Interval = 3
    RecentCap = 4
INVARIANTS
    SlotsMatchHolders
    NeverBeyondMaximum
    NoSleepBesideFreeSlot
PROPERTIES
    WaitEnds
