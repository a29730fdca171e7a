\* One launch, stop or drop at a time; the product is killed up to twice.
SPECIFICATION FairSpec
CONSTANTS
  g1 = g1  g2 = g2  g3 = g3
  t1 = t1  t2 = t2
  Groups = {g1, g2, g3}
  Threads = {t1}
  Deaf = {g2}
  Refusing = {g3}
  PsMayFail = TRUE
  DiskMayFail = TRUE
  LookAlikes = TRUE
  MaxCrashes = 2
INVARIANTS TypeOK LiveAgentsRecorded
PROPERTIES OnlyOursSignalled OrphansGo
