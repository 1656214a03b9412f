CONSTANTS
  Path <- MCPath
  Name <- MCName
  Tmp <- MCTmp
  Parts = 2
  Absent = Absent
  MaxTransfers = 2
  MaxDeaths = 2
  MaxFull = 0
  MayLock = {}
SPECIFICATION Spec
INVARIANTS
  VerifiedMeansWhole
