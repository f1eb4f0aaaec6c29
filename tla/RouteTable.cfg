SPECIFICATION Spec
CONSTANTS
  t1 = t1
  t2 = t2
  t3 = t3
  i1 = i1
  i2 = i2
  k1 = k1
  k2 = k2
  e1 = e1
  e2 = e2
  e3 = e3
  e4 = e4
  None = None
  Threads = {t1, t2, t3}
  IDs = {i1, i2}
  Keys = {k1, k2}
  Metrics = {1, 2}
  Entries = {e1, e2, e3, e4}
SYMMETRY Symmetry
INVARIANTS
  TypeOK
  Agreement
  OneListing
  StaleOnlyInFlight
  EmptyMeansUnlinked
  IInv
PROPERTIES
  UnlistAfterReroute
  FirstIsStable
  RegistrySpec
