\* Two processes send to each other; either may die.
CONSTANTS
  d1 = d1
  t1 = t1
  t2 = t2
  f1 = f1
  f2 = f2
  c1 = c1
  Tasks = {d1, t1, t2}
  Fusionees = {f1, f2}
  Owner <- OwnerTasks
  Dispatchers = {d1, t2}
  Senders = {t1, t2}
  Master = f1
  Mortals = {f1, f2}
  Contexts = {c1}
  Nobody = Nobody
  PacketSize = 2
  Limit = 1
  MaxOps <- SenderOps
SPECIFICATION FairSpec
INVARIANTS ReadInOrder CallbackOnceProcessed
PROPERTIES SyncIsIdle QueueReturns CallbackRuns
CHECK_DEADLOCK FALSE
