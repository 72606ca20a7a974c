\* A client, two dispatchers and nested calls that may be interrupted; nobody dies.
CONSTANTS
  t1 = t1
  t2 = t2
  t3 = t3
  f1 = f1
  f2 = f2
  f3 = f3
  Owner <- Owners
  Nobody = 0
  Returned = 99
  Tasks = {t1, t2, t3}
  Fusionees = {f1, f2, f3}
  Skirmishes = {11, 12}
  Destroyers = {}
  Misreturns = {}
  Mortals = {}
  MaxOps <- TwoOps
  MaxNotify = 1
  Calls = {1, 2}
  Callee <- Callees
  Callers <- AllCallers
  Dispatchers = {t2, t3}
  Resumable = {TRUE}
  Waiters = {}
  Swoopers = {}
  Signalled = {t1, t2}
  MaxCalls = 2
SPECIFICATION CallSpec
INVARIANTS LocksConserved LentToCallee AssertionsHold
CHECK_DEADLOCK FALSE
