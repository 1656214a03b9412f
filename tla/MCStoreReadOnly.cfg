CONSTANTS
  Path <- MCPath
  Name <- MCName
  Tmp <- MCTmp
  Parts = 2
  Absent = Absent
  MaxTransfers = 2
  MaxDeaths = 0
  MaxFull = 0
  MayLock = {"a"}
SPECIFICATION Spec
PROPERTIES
  SubstituteOnlyAtEnd
