SPECIFICATION FairSpec
CONSTANTS
  Thread = {t1, t2, t3}
  Key = {k1}
  NONE = NONE
INVARIANTS
  TypeOK
  CreatedOnce
  NoErrorIsCached
PROPERTIES
  ContextReady
  
  
