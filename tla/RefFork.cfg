\* A process forks the references of another.
CONSTANTS
  t1 = t1
  t2 = t2
  f1 = f1
  f2 = f2
  Tasks = {t1, t2}
  Fusionees = {f1, f2}
  Owner <- OwnerTasks
  Refs = {1, 2}
  Forkers = {f2}
  Nobody = 0
  MaxOps <- ThreeOps
SPECIFICATION Spec
INVARIANT NotNegative
CHECK_DEADLOCK FALSE
