CONSTANTS
  Chains = {c1}
  NoChain = NoChain
  MaxResponses = 2
  MaxStarts = 1
SPECIFICATION Spec
CHECK_DEADLOCK FALSE
INVARIANT NeverCrashes
