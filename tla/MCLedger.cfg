SPECIFICATION FairSpec
CONSTANTS
  Callers = {c1, c2}
  Entries = {e1, e2}
  GenesisEntry = genesis
  NoCaller = nobody
  MaxSeq = 4
  MaxCalls = 3
INVARIANTS
  TypeOK
  ChainWhole
  AckedIsMine
PROPERTIES
  AppendOnly
  BurnedGenesisStaysOut
  LoopIsReleased
  ImplementsLog
