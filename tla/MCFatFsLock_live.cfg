\* Calls of every kind, late bodies and disk errors: every call comes back.
CONSTANTS
  t1 = t1
  t2 = t2
  o1 = o1
  o2 = o2
  o3 = o3
  f1 = f1
  d1 = d1
  None = None
  Threads <- TwoThreads
  Objects <- OneObject
  Files <- OneFile
  Dirs <- NoDirs
  FS_LOCK = 1
  MaxCtr = 0
  Used <- EveryKind
  Faults <- LateOrFailing
SPECIFICATION FairSpec
INVARIANTS TypeOK MutualExclusion
PROPERTIES CallsReturn
CHECK_DEADLOCK FALSE
