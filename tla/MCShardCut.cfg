SPECIFICATION Spec
CONSTANTS
  NTables = 1
  NSymbols = 1
  BadSymbols = {}
  MaxRows = 1
  MaxKills = 1
  MaxCuts = 1
INVARIANT
  NoTornShard
