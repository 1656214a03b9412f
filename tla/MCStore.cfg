CONSTANTS
  Path <- MCPath
  Name <- MCName
  Tmp <- MCTmp
  Parts = 2
  Absent = Absent
  MaxTransfers = 4
  MaxDeaths = 0
  MaxFull = 0
  MayLock = {}
SPECIFICATION Spec
INVARIANTS
  TypeOK
PROPERTIES
  ImplementsAtomicReplace
