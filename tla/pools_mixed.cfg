SPECIFICATION FairSpec
CONSTANTS
  PoolWords = 6
  Sizes = {2, 3}
  MaxPools = 6
INVARIANTS
  TypeOK
  SemispacesMatch
  NoOverlap
  NextPoolsEmpty
  SpacesSeparate
  CollectOnlyWhenFull
PROPERTIES
  GrowthIsFollowedByCollect
  MallocReturns
CHECK_DEADLOCK FALSE
