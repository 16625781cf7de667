SPECIFICATION FairSpec
CONSTANTS
  Slots = 4
  Width = 2
  Shapes = {{0, 2}}
  DescRoots = 1
  DataRoots = 2
  Twice = {}
  ScopeVars = {}
  MaxDepth = 1
  MaxObjects = 5
  MaxCollections = 2
  YieldFirst = TRUE
  ClassMasks = FALSE
INVARIANTS
  TypeOK
  CopiedOnce
  ForwardingLeadsToCopy
  ScannedPointsToCopies
  RootsFollow
  HeadersFollow
PROPERTIES
  CollectsGarbageOnly
  CollectionEnds
  Transparent
CHECK_DEADLOCK FALSE
