SPECIFICATION FairSpec
CONSTANTS
  a = a
  b = b
  Files <- MCFiles
  Big <- MCBig
  Edited <- MCEdited
  Shared <- MCShared
  BatchFiles = 2
  MaxVer = 2
  MaxChain = 1
  Other = Other
  None = None

  
PROPERTIES
  NoRevival
  
  MemoryProgress
CHECK_DEADLOCK FALSE
