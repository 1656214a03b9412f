CONSTANTS
  IntLen = 4
  Hash = 2
  Programs <- MCPrograms
SPECIFICATION Spec
INVARIANTS
  TypeOK
  FailureExplained
PROPERTIES
  ImplementsFrameChannel
  CallsReturn
