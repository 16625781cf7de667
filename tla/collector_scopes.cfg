SPECIFICATION Spec
CONSTANTS
  Slots = 4
  Width = 1
  Shapes = {{0, 1}}
  DescRoots = 1
  DataRoots = 0
  Twice = {}
  ScopeVars = {x, y}
  MaxDepth = 2
  MaxObjects = 4
  MaxCollections = 2
  YieldFirst = FALSE
  ClassMasks = TRUE
INVARIANT ScopesFollow
CHECK_DEADLOCK FALSE
