CONSTANTS
  Tasks = {a, b}
  t1 = t1
  t2 = t2
  foreign = foreign
  Here = Here
  There = There
  Expiry = 2
  Tokens = {t1, t2}
  Closer = Closer
  None = None
  CacheTTL = 2
  CacheMaxSize = 1
  ValidateResource = TRUE
  Matching = {Here}
  Audience <- Audiences
  Exp <- Expiries
  MaxDelay = 1
  MaxTime = 3
  MaxAhead = 1
SPECIFICATION Spec
SYMMETRY AnyTask
INVARIANTS TypeOK CacheBounded NeverServedPastExpiry RevocationTakesEffect OneOpenClient ClientUsable LockExcludes
PROPERTIES KeepsPromise
