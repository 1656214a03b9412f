CONSTANTS
  NonceMod = 4
  MaxSessions = 3
SPECIFICATION Spec
INVARIANTS
  TypeOK
  SharedState
  CiphersAgree
  FreshIVs
  MacsAgree
  NoKeyAtRest
PROPERTIES
  Served
