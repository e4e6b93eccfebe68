SPECIFICATION Spec
CONSTANTS
  r1 = r1
  r2 = r2
  r3 = r3
  NoReq = NoReq
  Reqs = {r1, r2, r3}
  MaxTokens = 3
  Tokens <- TokensCompeting
  Timeout <- TimeoutsUnbounded
  Handler <- TwoHandlers
  LeakyEnter = FALSE
  Disconnects = FALSE
INVARIANTS
  WithinBudget
