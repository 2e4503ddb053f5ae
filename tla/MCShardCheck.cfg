SPECIFICATION Spec
CONSTANTS
  NTables = 1
  NSymbols = 2
  BadSymbols = {}
  MaxRows = 2
  MaxKills = 0
  MaxCuts = 0
PROPERTY
  CheckWritesNothing
