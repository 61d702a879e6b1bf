SPECIFICATION Spec
CONSTANTS
  Conn = {c1, c2}
  NULL = NULL
  WheelSize = 3
  MaxServe = 1
  PoolThreads = 2
  MaxWrites = 2
SYMMETRY Symmetry
INVARIANTS
  TypeOK
  RecycledIsQuiet
  SocketWhileInUse
  NeverForgotten
  UnservedIsDead
  ServeLimit
  ManageAssertionsHold
  IInv
PROPERTIES
  RegistrySpec
