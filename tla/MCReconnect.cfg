SPECIFICATION FairSpec
CONSTANTS
  Thread = {t1, t2}
  Key = {k1}
  NONE = NONE
PROPERTIES
  Reconnected
