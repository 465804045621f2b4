SPECIFICATION Spec
CONSTANTS
  p1 = p1
  p2 = p2
  k1 = k1
  k2 = k2
  NoProc = NoProc
  Free = Free
  Str = Str
  Absent = Absent
  Idle = Idle
  Accepted = Accepted
  Rejected = Rejected
  Proc = {p1, p2}
  Key = {k1, k2}
  SlotOf <- OneSlot
  Blocks = 2
  MaxLong = 0
  Values = {0}
  Ttls = {0, 1}
  CacheTtl = 1
  GcTtl = 0
  Threshold = 0
  Ops <- Adders
  Failures = {}
  MaxTime = 2
  MaxDepth = 1
  MaxCleanups = 1
  MaxFailures = 1
SYMMETRY Processes
INVARIANTS
  KeyUnique
PROPERTIES
  ImplementsTable
CHECK_DEADLOCK FALSE
