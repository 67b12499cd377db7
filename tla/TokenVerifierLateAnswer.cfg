CONSTANTS
  Tasks = {a, b}
  t1 = t1
  t2 = t2
  foreign = foreign
  Here = Here
  There = There
  Expiry = 3
  Tokens = {t2}
  Closer = Closer
  None = None
  CacheTTL = 2
  CacheMaxSize = 1
  ValidateResource = TRUE
  Matching = {Here}
  Audience <- Audiences
  Exp <- Expiries
  MaxDelay = 1
  MaxTime = 4
  MaxAhead = 0
SPECIFICATION Spec
SYMMETRY AnyTask
INVARIANTS NegativeIsFinal
