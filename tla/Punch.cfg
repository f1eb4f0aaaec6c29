SPECIFICATION FairSpec
CONSTANTS
  i1 = i1
  i2 = i2
  None = None
  Punchers = {"Cone", "Symmetric"}
  IDs = {i1, i2}
  Requests <- SomeRequests
  PortMax = 9
  max_k1 <- SmallK1
  max_k2 <- SmallK2
  size = 5
CHECK_DEADLOCK FALSE
INVARIANTS
  TypeOK
  IoBounded
  SlicesInBounds
PROPERTIES
  CursorFollowsPorts
  RequestTaken
  ThreadsEnd
