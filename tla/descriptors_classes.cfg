SPECIFICATION Spec
CONSTANTS
  Components = {"descriptors"}
  List = {p, q}
  Value = {a, b}
  None = None
  MaxNodes = 4
  EmptySources = FALSE
  InsertAtTail = FALSE
  Map = {p, q}
  Key = {k1, k2, k3, k4}
  HashZero = {k1, k2}
  HashFour = {k3}
  Hash <- KeyHash
  Datum = {a, b}
  Missing = Missing
  Group = {a, b}
  NoGroup = NoGroup
  MaxFrames = 3
  MaxCopies = 3
  Classes <- Bodies
  Types <- SomeTypes
  Lengths = {0, 62, 63}
  MaxDescriptors = 4
  Thread = {t1, t2, t3}
  Nobody = Nobody
  ct = 3
  MaxWaiters = 6
INVARIANT ClassReferencesTraced
CHECK_DEADLOCK FALSE
