SPECIFICATION FairSpec
CONSTANTS
  c1 = c1
  c2 = c2
  Retries = {c1, c2}
CHECK_DEADLOCK FALSE
INVARIANTS
  TypeOK
  NoCircle
PROPERTIES
  MainEnds
  ShutdownShrinks
  RetriesEnd
