\* Two agents launched at once.
SPECIFICATION Spec
CONSTANTS
  g1 = g1  g2 = g2  g3 = g3
  t1 = t1  t2 = t2
  Groups = {g1, g2}
  Threads = {t1, t2}
  Deaf = {}
  Refusing = {}
  PsMayFail = FALSE
  DiskMayFail = FALSE
  LookAlikes = FALSE
  MaxCrashes = 0
INVARIANTS LiveAgentsRecorded
