SPECIFICATION Spec
CONSTANTS
  c1 = c1
  c2 = c2
  s1 = s1
  s2 = s2
  None = None
  Clones = {c1, c2}
  First = c1
  Controllers = {s1}
  Gens = {1, 2, 3}
  size = 1
  capacity = 2
  Traffic = {0}
  CanFail = FALSE
CHECK_DEADLOCK FALSE
INVARIANTS
  TypeOK
  GroupsSettle
  NothingMissed
  SleeperLostEvent
