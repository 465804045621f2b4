SPECIFICATION Spec
CONSTANTS
  p1 = p1
  p2 = p2
  k1 = k1
  k2 = k2
  NoProc = NoProc
  Free = Free
  Str = Str
  Absent = Absent
  Idle = Idle
  Accepted = Accepted
  Rejected = Rejected
  Proc = {p1, p2}
  Key = {k1, k2}
  SlotOf <- OneSlot
  Blocks = 1
  MaxLong = 0
  Values = {0}
  Ttls = {0}
  CacheTtl = 0
  GcTtl = 0
  Threshold = 0
  Ops <- StoresClear
  Failures = {}
  MaxTime = 0
  MaxDepth = 1
  MaxCleanups = 3
  MaxFailures = 1
PROPERTIES
  NoStackedExpunge
CHECK_DEADLOCK FALSE
