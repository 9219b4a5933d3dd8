CONSTANTS
  Chains = {c1, c2}
  NoChain = NoChain
  MaxVersion = 1
  Calls = {p1, p2}
  CertPath = TRUE
  OCSPPath = TRUE
  MaxFaults = 0
SPECIFICATION CachesSpec
SYMMETRY CacheSymmetry
INVARIANT LatestIsPair
