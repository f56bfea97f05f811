SPECIFICATION FairSpec
CONSTANTS
  RollupKeys = {k1, k2, k3}
  EmptyKey = empty
  RollupValues = {1}
  KvsCap = 1
  EmergencyCleanup = TRUE
  MaxKeys = 2
  MaxMemory = 2
  Methods = {"cache", "cache_unique"}
  Adders = {a1}
  MaxBatch = 2
  MaxAdds = 3
  MaxExports = 1
CHECK_DEADLOCK FALSE
INVARIANTS SumConserved CacheInv
PROPERTIES OldestRemoved ReportsReturn
