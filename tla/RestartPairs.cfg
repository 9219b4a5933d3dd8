CONSTANTS
  Chains = {c1, c2}
  NoChain = NoChain
  MaxResponses = 2
  MaxStarts = 2
SPECIFICATION Spec
CHECK_DEADLOCK FALSE
INVARIANT PairsMatch
