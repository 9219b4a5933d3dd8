CONSTANTS
  Chains = {c1, c2}
  NoChain = NoChain
  MaxVersion = 2
  Calls = {p1, p2}
  CertPath = TRUE
  OCSPPath = TRUE
  MaxFaults = 2
SPECIFICATION CachesSpec
SYMMETRY CacheSymmetry
INVARIANT TypeOK
INVARIANT ReadIsPair
INVARIANT LatestIsLastWritten
INVARIANT SingleCertReads
