\* One call with deaths, signals, a destroyer, failing returns and another locker, under fairness.
CONSTANTS
  t1 = t1
  t2 = t2
  t3 = t3
  f1 = f1
  f2 = f2
  f3 = f3
  Owner <- Owners
  Nobody = 0
  Returned = 99
  Tasks = {t1, t2, t3}
  Fusionees = {f1, f2, f3}
  Skirmishes = {11}
  Destroyers = {t3}
  Misreturns = {t2}
  Mortals = {t1, t2}
  MaxOps <- TwoOps
  MaxNotify = 1
  Calls = {1}
  Callee <- OneCallee
  Callers <- OneCaller
  Dispatchers = {t2}
  Resumable = {TRUE, FALSE}
  Waiters = {t3}
  Swoopers = {t3}
  Signalled = {t1, t2}
  MaxCalls = 1
SPECIFICATION CallFairSpec
INVARIANTS NoSleepOnEvent ServedOnce
PROPERTIES CallEnds DestroyEnds
CHECK_DEADLOCK FALSE
