CONSTANTS
  Block = 3
  Chunk = 6
  MaxU32 = 18
  MaxU64 = 63
  SigLen = 5
  Sizes <- MCSizes
SPECIFICATION Spec
INVARIANTS
  TypeOK
  FramingAgreement
  NeverCorrupt
  Delivered
  CountersAgree
PROPERTIES
  Completes
