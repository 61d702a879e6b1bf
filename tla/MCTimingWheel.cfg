SPECIFICATION FairSpec
CONSTANTS
  Conn = {c1}
  WheelSize = 4
  ExpiredTime = 14
  Late = 1
INVARIANTS
  TypeOK
  IdleIsBounded
  InTime
PROPERTIES
  SilenceEnds
