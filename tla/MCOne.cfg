CONSTANTS
  appA = appA
  appB = appB
  ra = ra
  wa = wa
  rb = rb
  wb = wb
  Apps = {appA, appB}
  Tasks = {ra, wa, rb, wb}
  AppOf <- TheAppOf
  Readers = {ra, rb}
  Mortals = {appB}
  Signalled = {wa}
  Limit = 0
  Rooms = {1}
  Asks <- SomeAsks
  MaxQueues = 3
  FreshCalls = 3
  RunningCalls = 3
SPECIFICATION MCSpec
INVARIANTS TargetsAlive ReachesAll
CHECK_DEADLOCK FALSE
PROPERTY Flows
