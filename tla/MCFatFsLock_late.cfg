\* Bodies overrun the 1000 ticks of lock(), and the disk fails.
CONSTANTS
  t1 = t1
  t2 = t2
  o1 = o1
  o2 = o2
  o3 = o3
  f1 = f1
  d1 = d1
  None = None
  Threads <- TwoThreads
  Objects <- ThreeObjects
  Files <- OneFile
  Dirs <- OneDir
  FS_LOCK = 2
  MaxCtr = 2
  Used <- OpenWrite
  Faults <- LateOrFailing
SPECIFICATION Spec
SYMMETRY Symmetry
INVARIANTS OpenObjectsCounted WriterIsAlone NothingLeaked
CHECK_DEADLOCK FALSE
