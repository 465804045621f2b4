SPECIFICATION Spec
CONSTANTS
  p1 = p1
  p2 = p2
  k1 = k1
  k2 = k2
  NoProc = NoProc
  Free = Free
  Str = Str
  Absent = Absent
  Idle = Idle
  Accepted = Accepted
  Rejected = Rejected
  Proc = {p1, p2}
  Key = {k1}
  SlotOf <- OneSlot
  Blocks = 3
  MaxLong = 0
  Values = {0}
  Ttls = {0}
  CacheTtl = 0
  GcTtl = 1
  Threshold = 1
  Ops <- StoreAgainstFetch
  Failures = {"crash", "persist"}
  MaxTime = 2
  MaxDepth = 1
  MaxCleanups = 1
  MaxFailures = 1
PROPERTIES
  PinSafeWhileTimely
  MemoryWhileTimely
CHECK_DEADLOCK FALSE
