SPECIFICATION Spec
CONSTANTS
  Vars = {x}
  Fields <- TwoClasses
  Paths <- TwoClassesPaths
  Basic = {"int", "str"}
  Ints = {1}
  MaxObjects = 4
  MaxLoops = 1
  MaxInt = 1
  StringSums = FALSE
  DeferredReads = FALSE
INVARIANTS
  TypeOK
  ChainsInStep
  ReferencesTyped
  TypesKept
PROPERTIES
  Implements
  Faithful
CHECK_DEADLOCK FALSE
