CONSTANTS
  MinSize = 2
  MaxSize = 5
  Primes = {2, 3, 5}
  NULL = NULL
  Files = {m, s, u}
  m = m
  s = s
  u = u
  Kinds = {"call", "reactor"}
  TableSize = 3
  Rights <- AllRights
  Grants <- SomeGrants
  Mortals = {m, s}
  Signalled = {m}
  MaxIds = 3
  MaxEntries = 2
  Channels = {0, 1}
  CallbackCalls = {1}
  QuotaCalls = {2}
  Limits = {0, 2}
  BatchSize = 2
  FreshBudgets <- ThreeOpens
  RunningBudgets <- TwoCallsOrBoth
  Members <- TwoMembers
SPECIFICATION MCSpec
INVARIANTS TablesAgree RightsAreGranted NoSurvivor FiredOnceAfterAll CallbacksCounted BatchOnce
PROPERTY SleepersReturn
CHECK_DEADLOCK FALSE
