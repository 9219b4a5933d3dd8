CONSTANTS
  Chains = {c1, c2}
  NoChain = NoChain
  MaxResponses = 2
  MaxStarts = 1
SPECIFICATION FairSpec
CHECK_DEADLOCK FALSE
PROPERTY StartReturns
PROPERTY PublishedIsHeld
PROPERTY StopEndsDaemon
