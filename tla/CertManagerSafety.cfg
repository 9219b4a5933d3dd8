CONSTANTS
  Chains = {c1, c2}
  NoChain = NoChain
  MaxResponses = 3
  MaxStarts = 1
SPECIFICATION Spec
CHECK_DEADLOCK FALSE
SYMMETRY ChainSymmetry
INVARIANT TypeOK
INVARIANT PairsMatchInFirstRun
INVARIANT HeldIsCachedOrBeingWritten
PROPERTY ImplementsChainFeed
