\* Expected violation: rename, or unlink of a directory, keeps the mutex.
CONSTANTS
  t1 = t1
  t2 = t2
  o1 = o1
  o2 = o2
  o3 = o3
  f1 = f1
  d1 = d1
  None = None
  Threads <- TwoThreads
  Objects <- OneObject
  Files <- OneFile
  Dirs <- NoDirs
  FS_LOCK = 1
  MaxCtr = 1
  Used <- NestedOnly
  Faults <- NoFaults
SPECIFICATION Spec
SYMMETRY Symmetry
INVARIANTS NothingLeaked
CHECK_DEADLOCK FALSE
