SPECIFICATION Spec
CONSTANTS
  PoolWords = 6
  Sizes = {2, 3}
  MaxPools = 6
INVARIANT ToSpaceSuffices
CHECK_DEADLOCK FALSE
