\* Two pools at a time, three processes; one forks, one may be signalled and die.
CONSTANTS
  f1 = f1
  f2 = f2
  f3 = f3
  Fusionees = {f1, f2, f3}
  Pools = {1, 2, 3}
  Master = f1
  Nobody = Nobody
  MaxSizes <- EdgeSizes
  Sizes = {1, 2}
  ShmBase <- RealBase
  ShmSize <- SmallSize
  IntMax = 131071
  Forkers = {f3}
  Mortals = {f2}
  Signalled = {f2}
  MaxOps <- FewOps
SPECIFICATION Spec
INVARIANTS Disjoint Informed
CHECK_DEADLOCK FALSE
