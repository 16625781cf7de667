SPECIFICATION Spec
CONSTANTS
  Vars = {x, y}
  Fields <- OneClass
  Paths <- OneClassPaths
  Basic = {}
  Ints = {1}
  MaxObjects = 4
  MaxLoops = 0
  MaxInt = 1
  StringSums = FALSE
  DeferredReads = FALSE
PROPERTY Faithful
CHECK_DEADLOCK FALSE
