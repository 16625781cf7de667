SPECIFICATION Spec
CONSTANTS
  Slots = 4
  Width = 1
  Shapes = {{0, 1}}
  DescRoots = 1
  DataRoots = 2
  Twice = {}
  ScopeVars = {}
  MaxDepth = 1
  MaxObjects = 4
  MaxCollections = 2
  YieldFirst = FALSE
  ClassMasks = FALSE
INVARIANT HeadersFollow
CHECK_DEADLOCK FALSE
