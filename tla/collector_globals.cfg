SPECIFICATION Spec
CONSTANTS
  Slots = 6
  Width = 2
  Shapes = {{0, 2}}
  DescRoots = 1
  DataRoots = 2
  Twice = {1}
  ScopeVars = {}
  MaxDepth = 1
  MaxObjects = 4
  MaxCollections = 1
  YieldFirst = TRUE
  ClassMasks = FALSE
INVARIANT HeadersFollow
CHECK_DEADLOCK FALSE
