SPECIFICATION Spec
CONSTANTS
  NTables = 2
  NSymbols = 3
  BadSymbols = {2}
  MaxRows = 3
  MaxKills = 2
  MaxCuts = 1
INVARIANTS
  TypeOK
  SuccessMeansComplete
  OrphansNeedAKill
PROPERTY
  ImplementsTree
