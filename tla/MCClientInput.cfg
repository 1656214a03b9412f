CONSTANTS
  Eol = "eol"
  MaxLines = 3
  Lines <- MCLines
SPECIFICATION Spec
INVARIANTS
  InOrder
  NothingPending
PROPERTIES
  ServerLossNoticed
