SPECIFICATION FairSpec
CONSTANTS
  NPaths = 2
  MaxFaults = 1
  MaxStamp = 2
INVARIANTS
  TypeOK
  ExitZeroMeansTarget
  PathsAreIndependent
  GaugeIsHonest
PROPERTIES
  SuccessIsEarned
  LockCompletes
