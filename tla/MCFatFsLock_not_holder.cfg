\* Expected violation: a method that timed out gives the mutex of another task.
CONSTANTS
  t1 = t1
  t2 = t2
  o1 = o1
  o2 = o2
  o3 = o3
  f1 = f1
  d1 = d1
  None = None
  Threads <- TwoThreads
  Objects <- TwoObjects
  Files <- OneFile
  Dirs <- NoDirs
  FS_LOCK = 1
  MaxCtr = 1
  Used <- OpenRead
  Faults <- Late
SPECIFICATION Spec
SYMMETRY Symmetry
INVARIANTS GivenByHolder
CHECK_DEADLOCK FALSE
