\* A wait that ends takes a lock that is lent: the assertion in return_all fails.
CONSTANTS
  t1 = t1
  t2 = t2
  t3 = t3
  f1 = f1
  f2 = f2
  f3 = f3
  Owner <- Owners
  Nobody = 0
  Returned = 99
  Tasks = {t1, t2, t3}
  Fusionees = {f1, f2, f3}
  Skirmishes = {11}
  Destroyers = {}
  Misreturns = {}
  Mortals = {}
  MaxOps <- TwoOps
  MaxNotify = 1
  Calls = {1}
  Callee <- OneCallee
  Callers <- OneCaller
  Dispatchers = {t2}
  Resumable = {TRUE}
  Waiters = {t1, t3}
  Swoopers = {}
  Signalled = {}
  MaxCalls = 1
SPECIFICATION CallSpec
INVARIANT NoReturnAssert
CHECK_DEADLOCK FALSE
