CONSTANTS
  NonceMod = 3
  Space = "_"
  MaxU16 = 2
  MaxName = 2
  MaxChunks = 2
  MaxCommands = 2
  Char <- MCChar
  Listings <- MCListings
SPECIFICATION Spec
INVARIANTS
  TypeOK
  NeverRefused
  LockstepAtRest
  FreshIVs
  NoUnsolicited
  EndsForAReason
PROPERTIES
  ImplementsRequests
  CommandsEnd
