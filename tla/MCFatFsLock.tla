---------------------------- MODULE MCFatFsLock ----------------------------
(***************************************************************************)
(* Instances of FatFsLock for TLC: two tasks, one to three objects, files  *)
(* and a sub-directory as model values.                                    *)
(***************************************************************************)
EXTENDS FatFsLock, TLC

CONSTANTS t1, t2, o1, o2, o3, f1, d1

TwoThreads == { t1, t2 }
OneObject == { o1 }
TwoObjects == { o1, o2 }
ThreeObjects == { o1, o2, o3 }
OneFile == { f1 }
OneDir == { d1 }
NoDirs == {}

\* Files and directories read and written; a call of every kind; one kind.
OpenWrite == { "open", "openDir", "write", "sync" }
EveryKind == { "open", "openDir", "volume", "nested", "truncate" }
OpenRead == { "open", "read" }
NestedOnly == { "nested" }

NoFaults == {}
Late == { "timeout" }
LateOrFailing == { "timeout", "diskError" }

\* Threads are interchangeable, and so are objects: no property names one of them.
Symmetry == Permutations(Threads) \cup Permutations(Objects)
=============================================================================
