SPECIFICATION Spec
CONSTANTS
  MaxClients = 2
  MaxRequests = 2
  MaxLen = 2
  MaxContent = 2
  BufSize = 2
  Slack = 1
INVARIANTS
  TypeOK
  RepliesInOrder
  BodyIsItsOwn
  NoMutualWait
  BodyFits
  AssertionsHold
  NoAdditionalWrite
PROPERTY
  SessionSpec
