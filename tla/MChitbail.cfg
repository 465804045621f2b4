SPECIFICATION Spec
CONSTANTS
  p1 = p1
  p2 = p2
  k1 = k1
  k2 = k2
  NoProc = NoProc
  Free = Free
  Str = Str
  Absent = Absent
  Idle = Idle
  Accepted = Accepted
  Rejected = Rejected
  Proc = {p1}
  Key = {k1}
  SlotOf <- OneSlot
  Blocks = 2
  MaxLong = 0
  Values = {0}
  Ttls = {0}
  CacheTtl = 0
  GcTtl = 0
  Threshold = 0
  Ops <- AllOps
  Failures = {"bailout"}
  MaxTime = 0
  MaxDepth = 1
  MaxCleanups = 2
  MaxFailures = 1
INVARIANTS
  RefExact
CHECK_DEADLOCK FALSE
