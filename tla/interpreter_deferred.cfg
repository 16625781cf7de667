SPECIFICATION Spec
CONSTANTS
  Vars = {x}
  Fields <- OneClass
  Paths <- OneClassPaths
  Basic = {"int"}
  Ints = {1}
  MaxObjects = 4
  MaxLoops = 1
  MaxInt = 1
  StringSums = FALSE
  DeferredReads = TRUE
INVARIANT TypesKept
CHECK_DEADLOCK FALSE
