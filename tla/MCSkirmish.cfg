\* One skirmish, two threads of one process and a second process.
CONSTANTS
  t1 = t1
  t2 = t2
  t3 = t3
  f1 = f1
  f2 = f2
  Tasks = {t1, t2, t3}
  Fusionees = {f1, f2}
  Owner <- OwnerThreads
  Skirmishes = {1}
  Nobody = 0
  Returned = 99
  Mortals = {t1, t2, t3}
  MaxOps <- DeepOps
  MaxNotify = 1
SPECIFICATION FairSpec
INVARIANTS HeldIsLock NoLostWakeup NotifyReachesAll NoOrphanedLock
PROPERTIES ImplementsMonitor LockersReturn
CHECK_DEADLOCK FALSE
