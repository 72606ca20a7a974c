\* Two processes share two references, one may inherit from the other.
CONSTANTS
  t1 = t1
  t2 = t2
  f1 = f1
  f2 = f2
  Tasks = {t1, t2}
  Fusionees = {f1, f2}
  Owner <- OwnerTasks
  Refs = {1, 2}
  Forkers = {f2}
  Nobody = 0
  MaxOps <- ThreeOps
SPECIFICATION Spec
INVARIANTS LocalIsSum NoSleepAtZero LockedIsBare NoOrphan
PROPERTIES WatchFollowsZero
CHECK_DEADLOCK FALSE
