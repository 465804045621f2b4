SPECIFICATION Spec
CONSTANTS
  p1 = p1
  p2 = p2
  k1 = k1
  k2 = k2
  NoProc = NoProc
  Free = Free
  Str = Str
  Absent = Absent
  Idle = Idle
  Accepted = Accepted
  Rejected = Rejected
  Proc = {p1, p2}
  Key = {k1, k2}
  SlotOf <- OneSlot
  Blocks = 2
  MaxLong = 1
  Values = {0, Str}
  Ttls = {0}
  CacheTtl = 0
  GcTtl = 0
  Threshold = 2
  Ops <- StoreInc
  Failures = {}
  MaxTime = 0
  MaxDepth = 1
  MaxCleanups = 1
  MaxFailures = 1
INVARIANTS
  CountExact
  RefExact
PROPERTIES
  ImplementsTable
  NoStackedExpunge
