SPECIFICATION Spec
CONSTANTS
  Size = 15
  HeaderSize = 1
  BlockSize = 1
  MinBlock = 3
  BestFitLimit = 1
  CacheHeader = header
  Id = {header, e1, e2, e3}
  Requests = {1, 2}
SYMMETRY Entries
INVARIANTS
  TypeOK
  Tiled
  ClientsIntact
  FreeListExact
  TagsExact
  AvailExact
  FindsFit
PROPERTIES
  PinnedStay
  Compact
