SPECIFICATION FairSpec
CONSTANTS
    s1 = s1
    NumHandlers = 2
    Sessions = {s1}
    NumSteps = 2
    FirstPushed = 2
    NumMb = 2
    Paths = {"full", "micro"}
    EventCap = 1
    FaultKinds = {"duplicate", "fail", "lose", "close"}
    MaxFaults = 2
CHECK_DEADLOCK FALSE
INVARIANTS
    NoDoubleCompute
    AnswersAreWhole
    
PROPERTIES
    StepResolved
