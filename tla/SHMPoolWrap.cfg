\* A pool of the largest size.
CONSTANTS
  f1 = f1
  f2 = f2
  f3 = f3
  Fusionees = {f1, f2, f3}
  Pools = {1, 2, 3}
  Master = f1
  Nobody = Nobody
  MaxSizes <- WrapSizes
  Sizes = {1, 2}
  ShmBase <- RealBase
  ShmSize <- LargeSize
  IntMax = 131071
  Forkers = {f3}
  Mortals = {}
  Signalled = {f2}
  MaxOps <- FewOps
SPECIFICATION Spec
INVARIANTS Disjoint
CHECK_DEADLOCK FALSE
