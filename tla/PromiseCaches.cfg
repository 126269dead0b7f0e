SPECIFICATION Spec
CONSTANTS
  c1 = c1
  c2 = c2
  c3 = c3
  r1 = r1
  r2 = r2
  None = None
  Caches <- CacheNames
  Ids <- Promises
  Requests <- Callers
  Ttl <- CacheTtl
  Feeds <- CacheFeeds
  OnFailure <- CacheFailure
  MaxQuery = 1
  MaxNow = 4
SYMMETRY Symmetry
CHECK_DEADLOCK FALSE
INVARIANTS TypeOK FreshWithinTtl FailureForgotten OneQueryAtATime
