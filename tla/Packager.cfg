CONSTANTS
  URLs = {u1, u2, u3}
  Runners = {r1, r2}
  CacheSize = 1
  Lifetime = 1
  Setups <- MCSetups
SPECIFICATION Spec
CHECK_DEADLOCK FALSE
SYMMETRY Symmetry
INVARIANT TypeOK
INVARIANT SubresourcesMayFail
INVARIANT PreloadsAreSigned
INVARIANT ResultIsCurrent
 
PROPERTY RunTerminates
