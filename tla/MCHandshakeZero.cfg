CONSTANTS
  NonceMod = 4
  MaxSessions = 2
SPECIFICATION Spec
INVARIANTS
  NoncesExchanged
