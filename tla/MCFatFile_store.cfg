SPECIFICATION Spec
CONSTANTS
  NumFatEntries = 9
  SectorsPerCluster = 2
  LinksPerSector = 4
  LastLink = 100
  Ones = 255
  EntriesPerSector = 2
  UnitsPerSector = 2
  Files <- FileNames
  PathOf <- FilePaths
  OtherPaths <- ElsePaths
  NewPaths <- RenamedPaths
  Disk <- Disk1
  NullSectors = {6}
  LowHalf = 4
  Lengths = {1, 4}
  Positions = {0, 4, 6}
  Used = {"open", "read", "write", "seek", "truncate", "sync", "close", "unlink", "attributes", "label", "mkdir", "rename", "utime"}
  Faults = {"error", "late", "cut"}
  MaxCalls = 5
  MaxNameCalls = 1
  NamesWithin = 2
INVARIANTS
  TypeOK
  FirstClustersApart
  EveryClusterOnce
  FreeCountRight
PROPERTIES
  IsFileStore
CHECK_DEADLOCK FALSE
