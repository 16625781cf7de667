SPECIFICATION Spec
CONSTANTS
  Slots = 4
  Width = 2
  Shapes = {{0, 1}, {0, 2}}
  DescRoots = 1
  DataRoots = 0
  Twice = {}
  ScopeVars = {x}
  MaxDepth = 2
  MaxObjects = 4
  MaxCollections = 1
  YieldFirst = FALSE
  ClassMasks = TRUE
PROPERTY FirstCollectionHarmless
CHECK_DEADLOCK FALSE
