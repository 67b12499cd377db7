CONSTANTS
  Tasks = {a, b}
  t1 = t1
  t2 = t2
  foreign = foreign
  Here = Here
  There = There
  Expiry = 2
  Tokens = {t1, foreign}
  Closer = Closer
  None = None
  CacheTTL = 1
  CacheMaxSize = 1
  ValidateResource = TRUE
  Matching = {Here}
  Audience <- Audiences
  Exp <- Expiries
  MaxDelay = 1
  MaxTime = 1
  MaxAhead = 1
SPECIFICATION FairSpec
INVARIANTS BoundToThisResource
PROPERTIES VerificationEnds CloseEnds
