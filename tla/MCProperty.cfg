\* The master and a process with two threads share two properties.
CONSTANTS
  t1 = t1
  t2 = t2
  t3 = t3
  f1 = f1
  f2 = f2
  Tasks = {t1, t2, t3}
  Fusionees = {f1, f2}
  Owner <- OwnerThreads
  Master = f1
  Properties = {1}
  Nobody = 0
  MaxOps = 2
SPECIFICATION FairSpec
INVARIANTS HeldIsOwned NoLostWakeup UntimedOnLease NoOrphan
PROPERTY AskReturns
CHECK_DEADLOCK FALSE
