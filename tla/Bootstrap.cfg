SPECIFICATION FairSpec
CONSTANTS
  Cached <- MCCached
INVARIANTS
  CacheConsistent
  ToldIsCached
PROPERTIES
  SyncEnds
