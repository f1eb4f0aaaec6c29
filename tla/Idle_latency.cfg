SPECIFICATION IdleSpec
CONSTANTS
  t1 = t1
  t2 = t2
  idler = idler
  i1 = i1
  i2 = i2
  e1 = e1
  e2 = e2
  e3 = e3
  e4 = e4
  None = None
  Threads = {t1, idler}
  Idler = idler
  IDs = {i1,i2}
  Keys = {1, 2}
  Metrics = {1}
  Entries = {e1, e2}
  read_idle = 1
  write_idle = 0
  MaxTime = 3
  Prompt = TRUE
CHECK_DEADLOCK FALSE
SYMMETRY Symmetry
INVARIANTS
  DetectedInTime
