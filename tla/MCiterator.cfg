SPECIFICATION Spec
CONSTANTS
  self = self
  other = other
  others = others
  k1 = k1
  k2 = k2
  k3 = k3
  a1 = a1
  a2 = a2
  a3 = a3
  Writer = {self, other}
  Reader = {self, others}
  Self = self
  Nobody = Nobody
  Key = {k1, k2, k3}
  NSlots = 2
  SlotOf <- TwoSlots
  SizeOf <- Sizes
  Addr = {a1, a2, a3}
  Null = Null
  Free = Free
  TtlOf <- Ttls
  Never = Never
  Step = 2
  Calls <- Workload
  MaxTime = 2
  MaxHeld = 1
  ChunkSize = 1
  Loops <- AllAndRemoved
  MaxItems = 0
SYMMETRY Blocks
INVARIANTS
  TypeOK
  WellLinked
  ChainsExact
  PinsExact
  ItemsPinned
  PassComplete
  DeletedTail
