CONSTANTS
  GoodStatusCodes = {200}
  MaxContentLength = 0
  DefaultMaxContentLength = 2
  MaxNumPreloads = 2
  PreloadCSS = TRUE
  PreloadJS = TRUE
  Expiry = 7
  JSExpiry = 1
  MaxHead = 2
  MaxBody = 2
  MaxElements = 3
  Chars = {"p", "P", " ", "q"}
  MaxRel = 3
  MaxLength = 2
  Keys = {"as", "crossorigin", "media", "type"}
  Names = {"a", "b"}
  MaxSegments = 4
  MaxRequests = 3
  MaxHostLength = 4
  Now = 10
SPECIFICATION Spec
CHECK_DEADLOCK FALSE
INVARIANT ProcessedAsPromised
 
 
INVARIANT PathsAreMapped
INVARIANT FetchesAreConfined
INVARIANT RequestsFollowParents
 
INVARIANT VerifiedNeverPanics
INVARIANT RequestsReachEndpoints
 
