SPECIFICATION Spec
CONSTANTS
  None = None
  Php = Php
  External = External
  Cases <- TheCases
  Keys = {"a"}
  Bases = {100, 300}
  EntrySize = 14
  MaxLong = 4
INVARIANTS
  TypeOK
  CopyFits
  OffsetsInside
  RoundTrip
  LinksCounted
  SameFormat
