CONSTANTS
  Threads = {t1, t2}
  Writer = t1
  Clusters = {2, 3, 4, 5}
  Chains <- MCChains
  MaxCache = 2
  Limit = 4
  MaxInval = 1
SPECIFICATION FairSpec
CONSTRAINT StartsAtTwo
INVARIANTS
  CacheSound
  ClusterFound
  EndFound
  SlotsCounted
  LoopIsReal
PROPERTY
  WalkEnds
