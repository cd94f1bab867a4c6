SPECIFICATION Spec
CONSTANTS
  d1 = d1
  d2 = d2
  Data <- TwoContents
  Junk = Junk
  Client = "usb"
  Faults <- Removed
  Capacity = 4
  MaxCount = 3
  CacheSize = 3
  SECTOR_SIZE = 2
  Word = 16
  InitialBlock = 9
  EvictedBlock = 15
CHECK_DEADLOCK FALSE
INVARIANT CacheCoherent
PROPERTY IsBlockDevice
