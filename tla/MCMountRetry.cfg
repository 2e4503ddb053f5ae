SPECIFICATION FairSpec
CONSTANTS
  NPaths = 2
  MaxFaults = 1
  MaxStamp = 1
PROPERTY
  PartialLockIsRetried
