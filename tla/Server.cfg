CONSTANTS
  Feed <- Augs
  Nothing = Nothing
  Handlers = {h1, h2}
  Chains = {c1, c2}
  MaxAugs = 2
  MaxRequests = 2
SPECIFICATION FairSpec
CHECK_DEADLOCK FALSE
INVARIANT NeverOlderChain
 
INVARIANT ManagerWhileServing
 
PROPERTY WrittenIsServed
