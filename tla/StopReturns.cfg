CONSTANTS
  Chains = {c1}
  NoChain = NoChain
  MaxResponses = 3
  MaxStarts = 1
SPECIFICATION FairSpec
CHECK_DEADLOCK FALSE
PROPERTY StopReturns
