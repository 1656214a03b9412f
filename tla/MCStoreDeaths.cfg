CONSTANTS
  Path <- MCPath3
  Name <- MCNames3
  Tmp <- MCTmp3
  Parts = 2
  Absent = Absent
  MaxTransfers = 3
  MaxDeaths = 2
  MaxFull = 1
  MayLock = {}
SPECIFICATION Spec
INVARIANTS
  OldOrNewSurvives
  ErrorRestores
  SuccessReplaces
PROPERTIES
  SubstituteOnlyAtEnd
