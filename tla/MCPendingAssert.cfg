SPECIFICATION Spec
CONSTANTS
  Conn = {c1}
  NULL = NULL
  WheelSize = 2
  MaxServe = 1
  PoolThreads = 2
  MaxWrites = 1
INVARIANTS
  PendingIsCached
