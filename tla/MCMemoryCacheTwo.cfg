SPECIFICATION Spec
CONSTANTS
  r1 = r1
  r2 = r2
  r3 = r3
  NoReq = NoReq
  Reqs = {r1, r2, r3}
  MaxTokens = 3
  Tokens <- TokensOversized
  Timeout <- TimeoutsFinite
  Handler <- TwoHandlers
  LeakyEnter = TRUE
  Disconnects = TRUE
CHECK_DEADLOCK FALSE
INVARIANTS
    Accounting
    RuntimeMirrors
    
PROPERTIES
    FiniteResolves
