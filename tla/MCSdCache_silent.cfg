SPECIFICATION Spec
CONSTANTS
  d1 = d1
  d2 = d2
  Data <- TwoContents
  Junk = Junk
  Client = "usb"
  Faults <- ReadErrors
  Capacity = 4
  MaxCount = 2
  CacheSize = 3
  SECTOR_SIZE = 2
  Word = 16
  InitialBlock = 9
  EvictedBlock = 15
CHECK_DEADLOCK FALSE
PROPERTY SuccessMeansDone
