------------------------------ MODULE FatFsLock ------------------------------
(***************************************************************************)
(* The locking layer of src/fatfs/fatFs.cpp: one FreeRTOS mutex per volume *)
(* (cFatFs::lock, cFatFs::unlock), the result field that cFatFs shares     *)
(* between all its callers, the table of open files and directories        *)
(* (mFileLock), and every call that goes through them: the constructors,   *)
(* methods and destructors of cFile and cDirectory, and the methods of     *)
(* cFatFs.                                                                 *)
(*                                                                         *)
(* A call is a sequence of steps: ask for the mutex, perhaps block,        *)
(* perhaps time out, run the body under the mutex, give it back, return.   *)
(* Threads interleave between the steps.  What a body does to the FAT and  *)
(* to the data is left to other modules; here it succeeds or meets a disk  *)
(* error.                                                                  *)
(***************************************************************************)
EXTENDS Naturals, FiniteSets

CONSTANTS
  Threads,   \* the tasks that use the volume
  Objects,   \* the cFile and cDirectory objects they may construct
  Files,     \* the files of the volume: mFileLock identifies one by (clu, idx)
  Dirs,      \* its sub-directories, identified the same way
  FS_LOCK,   \* the number of entries of mFileLock
  Used,      \* the calls the tasks make, besides the destructors
  Faults,    \* what may go wrong: a subset of FaultKinds
  MaxCtr,    \* bound of the model: nothing is opened while a count exceeds it
  None       \* no thread, no object, or no file (a blank entry, the root directory)

FaultKinds ==
  { "timeout",    \* a body keeps the mutex for more than 1000 ticks
    "notReady",   \* the card answers a status poll with something else than transfer
    "diskError",  \* diskRead or diskWrite fails
    "noPath" }    \* the path of a directory does not exist

FileCalls == { "read", "write", "seek", "truncate", "sync" }
Methods == FileCalls \cup { "find" }
Destructors == { "closeSync", "close", "closeDir" }
ObjectCalls == Methods \cup Destructors
VolumeCalls == { "volume", "nested" }   \* methods of cFatFs, with or without an inner cDirectory
LocalDirs == { "localDir", "nullDir", "innerDir" }   \* destructors of local cDirectory objects

ASSUME LockAssumption ==
  /\ None \notin Threads \cup Objects \cup Files \cup Dirs
  /\ Files \cap Dirs = {}
  /\ FS_LOCK \in Nat
  /\ MaxCtr \in Nat
  /\ Used \subseteq Methods \cup VolumeCalls \cup { "open", "openDir" }
  /\ Faults \subseteq FaultKinds

VARIABLES
  holder,    \* pxMutexHolder: who holds mMutex, None when it is free
  stopped,   \* "no", or the failure after which nothing is followed any more
  kept,      \* history: the lock() that last took the mutex returned false
  mResult,   \* cFatFs::mResult, one field for all threads
  mounted,   \* mFsType # 0
  slots,     \* mFileLock, indexed by lock id
  obj,       \* the cFile and cDirectory objects
  call       \* each thread's call: program point, function, object and result

vars == << holder, stopped, kept, mResult, mounted, slots, obj, call >>

Results == { "OK", "DISK_ERR", "INT_ERR", "NOT_READY", "NO_PATH", "DENIED",
             "TIMEOUT", "LOCKED", "TOO_MANY_OPEN_FILES", "UNUSED" }
Keys == Files \cup Dirs \cup { None }
LockIds == 1 .. FS_LOCK
WriteOpen == 256                                   \* ctr 0x100: open for writing

Calls == ObjectCalls \cup VolumeCalls \cup LocalDirs \cup { "open", "openDir", "noVolume", "none" }
Points == { "idle", "take", "wait", "took", "late", "in", "failed", "leave", "return" }

NoObject == [ kind |-> "none", owner |-> None, fs |-> FALSE, result |-> "UNUSED",
              lockId |-> 0, key |-> None, write |-> FALSE, written |-> FALSE ]
BlankSlot == [ key |-> None, ctr |-> 0 ]

\* A thread outside the file system, its last call having returned r.
Back(r) == [ at |-> "idle", op |-> "none", on |-> None, result |-> r ]

Outcomes(fault) == IF fault \in Faults THEN { TRUE, FALSE } ELSE { TRUE }

-----------------------------------------------------------------------------
(* The table of open objects. *)

SlotsOf(s, k) == { i \in LockIds : s[i].key = k }
LowestOf(S) == CHOOSE i \in S : \A j \in S : i <= j

\* Mutant: a file open for writing may be opened for reading.
CheckFileLockBesideWriter(s, k, w) ==
  IF SlotsOf(s, k) = {}
    THEN IF SlotsOf(s, None) # {} THEN "OK" ELSE "TOO_MANY_OPEN_FILES"
    ELSE IF w THEN "LOCKED" ELSE "OK"

\* checkFileLock: may the object be opened, for writing if w?
CheckFileLock(s, k, w) ==
  IF SlotsOf(s, k) = {}
    THEN IF SlotsOf(s, None) # {} THEN "OK" ELSE "TOO_MANY_OPEN_FILES"
    ELSE IF w \/ s[LowestOf(SlotsOf(s, k))].ctr = WriteOpen THEN "LOCKED" ELSE "OK"

\* incFileLock: the lock id it returns, 0 when it refuses.
FileLockId(s, k, w) ==
  LET mine == SlotsOf(s, k)
      free == SlotsOf(s, None)
  IN  IF mine # {}
        THEN IF w /\ s[LowestOf(mine)].ctr # 0 THEN 0 ELSE LowestOf(mine)
        ELSE IF free # {} THEN LowestOf(free) ELSE 0

\* Mutant: the second reader is not counted.
IncFileLockOnce(s, k, w) ==
  LET i == FileLockId(s, k, w)
  IN  IF i = 0 THEN s
      ELSE [ s EXCEPT ![i] = [ key |-> k, ctr |-> IF w THEN WriteOpen ELSE 1 ] ]

\* incFileLock: the table it leaves.
IncFileLock(s, k, w) ==
  LET i == FileLockId(s, k, w)
      opens == IF s[i].key = k THEN s[i].ctr ELSE 0
  IN  IF i = 0 THEN s
      ELSE [ s EXCEPT ![i] = [ key |-> k, ctr |-> IF w THEN WriteOpen ELSE opens + 1 ] ]

\* Mutant: a writer's count, set to 0, is decremented like a reader's.
DecFileLockBelowZero(s, i) ==
  LET n == IF s[i].ctr = WriteOpen THEN 0 - 1 ELSE s[i].ctr - 1
  IN  [ s EXCEPT ![i] = [ key |-> IF n = 0 THEN None ELSE s[i].key, ctr |-> n ] ]
\* decFileLock: an entry is blank when nobody is left.
DecFileLock(s, i) ==
  LET n == IF s[i].ctr \in { 0, WriteOpen } THEN 0 ELSE s[i].ctr - 1
  IN  [ s EXCEPT ![i] = [ key |-> IF n = 0 THEN None ELSE s[i].key, ctr |-> n ] ]

\* clearFileLock: blanks every entry, whoever still has its object open.
ClearFileLock(s) == [ i \in LockIds |-> [ s[i] EXCEPT !.key = None ] ]

-----------------------------------------------------------------------------
(* The mutex. *)

\* Mutant: anybody may give, as with a semaphore that is no mutex.
GiveByAnyone(t) == holder' = None /\ UNCHANGED stopped

\* xSemaphoreGive on a mutex: nothing when it is free (the queue is full); the
\* configASSERT of xTaskPriorityDisinherit stops the system when somebody else
\* holds it.
Give(t) ==
  /\ holder' = IF holder = t THEN None ELSE holder
  /\ stopped' = IF holder \in { t, None } THEN stopped ELSE "notHolder"

\* Mutant: a refused call does not give either.
UnlockUnlessDenied(t, result) ==
  IF result \in { "TIMEOUT", "DENIED" } THEN UNCHANGED << holder, stopped >> ELSE Give(t)

\* cFatFs::unlock: whether the mutex is given depends on the result.
Unlock(t, result) ==
  IF result = "TIMEOUT" THEN UNCHANGED << holder, stopped >> ELSE Give(t)

\* The call's object has no file system, so lock() reads its mutex handle through
\* a null pointer.
NullFileSystem(t) ==
  call[t].op = "nullDir" \/ (call[t].op \in ObjectCalls /\ ~obj[call[t].on].fs)

\* Nobody is about to give the mutex: its holder is in no call, or waits itself.
HolderStuck == holder \in Threads /\ call[holder].at \in { "idle", "wait" }

At(t, point) == stopped = "no" /\ call[t].at = point
Goes(t, point) == call' = [ call EXCEPT ![t].at = point ]
Returns(t, r) == call' = [ call EXCEPT ![t] = Back(r) ]
Asking(t) == (At(t, "take") \/ At(t, "wait")) /\ ~NullFileSystem(t)

\* lock() gets the mutex, polls the card and writes the shared result.
LockTake(t) ==
  /\ Asking(t)
  /\ holder = None
  /\ holder' = t /\ kept' = FALSE
  /\ \E ready \in Outcomes("notReady") : mResult' = IF ready THEN "OK" ELSE "DISK_ERR"
  /\ Goes(t, "took")
  /\ UNCHANGED << stopped, mounted, slots, obj >>

\* lock() finds the mutex held and blocks.
LockBlock(t) ==
  /\ Asking(t) /\ At(t, "take")
  /\ holder # None
  /\ Goes(t, "wait")
  /\ UNCHANGED << holder, stopped, kept, mResult, mounted, slots, obj >>

\* Mutant: lock() waits forever, as with portMAX_DELAY.
LockTimeoutNever(t) == At(t, "never") /\ UNCHANGED vars

\* lock() gives up after 1000 ticks, and writes the shared result all the same.
LockTimeout(t) ==
  /\ Asking(t) /\ At(t, "wait")
  /\ "timeout" \in Faults \/ HolderStuck
  /\ mResult' = "TIMEOUT"
  /\ Goes(t, "late")
  /\ UNCHANGED << holder, stopped, kept, mounted, slots, obj >>

\* lock() reads the shared result again to say yes or no: another thread may have
\* written it in between.  One that took the mutex then says no and keeps it.
LockDecide(t) ==
  /\ At(t, "took")
  /\ Goes(t, IF mResult = "OK" THEN "in" ELSE "failed")
  /\ kept' = (mResult # "OK")
  /\ UNCHANGED << holder, stopped, mResult, mounted, slots, obj >>

\* One that timed out says yes: its body runs without the mutex, beside that of
\* whoever holds it, which is not followed.
LockDecideLate(t) ==
  /\ At(t, "late")
  /\ Goes(t, IF mResult = "OK" THEN "in" ELSE "failed")
  /\ stopped' = IF mResult = "OK" THEN "overlap" ELSE stopped
  /\ UNCHANGED << holder, kept, mResult, mounted, slots, obj >>

\* lock() through a null mFatFs: the handle found there is no mutex.
LockNull(t) ==
  /\ At(t, "take")
  /\ NullFileSystem(t)
  /\ stopped' = "badHandle"
  /\ UNCHANGED << holder, kept, mResult, mounted, slots, obj, call >>

-----------------------------------------------------------------------------
(* Calls. *)

Enters(t, c, o) ==
  call' = [ call EXCEPT ![t] = [ at |-> "take", op |-> c, on |-> o, result |-> "UNUSED" ] ]

\* new cFile, new cDirectory: the guard on the counts is the bound MaxCtr.
Construct(t, c, o) ==
  /\ At(t, "idle")
  /\ obj[o].kind = "none"
  /\ \A i \in LockIds : slots[i].ctr = WriteOpen \/ slots[i].ctr <= MaxCtr
  /\ Enters(t, c, o)
  /\ obj' = [ obj EXCEPT ![o] = [ NoObject EXCEPT !.kind = IF c = "open" THEN "file" ELSE "dir",
                                                  !.owner = t ] ]
  /\ UNCHANGED << holder, stopped, kept, mResult, mounted, slots >>

\* A method of an object that opened, or the destructor of any object.
Call(t, c, o) ==
  /\ At(t, "idle")
  /\ obj[o].owner = t
  /\ \/ obj[o].kind = "file" /\ c \in FileCalls /\ obj[o].fs
     \/ obj[o].kind = "dir" /\ c = "find" /\ obj[o].fs
     \/ obj[o].kind = "file" /\ c = "closeSync"
     \/ obj[o].kind = "dir" /\ c = "closeDir"
  /\ Enters(t, c, o)
  /\ UNCHANGED << holder, stopped, kept, mResult, mounted, slots, obj >>

\* A method of cFatFs itself.  "nested" stands for rename, and for unlink of a
\* sub-directory, which destroy a second local cDirectory before they unlock.
CallVolume(t, c) ==
  /\ At(t, "idle")
  /\ Enters(t, c, None)
  /\ UNCHANGED << holder, stopped, kept, mResult, mounted, slots, obj >>

-----------------------------------------------------------------------------
(* What the methods leave behind. *)

\* What sync leaves in object o: its result changes only if there was something to
\* write; a data write that fails keeps the object written, a failing syncFs does not.
SyncOutcomes(o) ==
  IF ~o.written THEN { o }
  ELSE { [ o EXCEPT !.result = "OK", !.written = FALSE ] }
       \cup (IF "diskError" \in Faults
               THEN { [ o EXCEPT !.result = "DISK_ERR", !.written = w ] : w \in BOOLEAN }
               ELSE {})

\* What a method leaves in object o, and what it returns: one of S, or the ABORT that
\* keeps the disk error in the object.
OrError(S, o) ==
  S \cup (IF "diskError" \in Faults
            THEN { [ object |-> [ o EXCEPT !.result = "DISK_ERR" ], result |-> "DISK_ERR" ] }
            ELSE {})

Only(o, r) == { [ object |-> o, result |-> r ] }

\* truncate beyond its tests: it writes only when it shortens the file.
TruncateOutcomes(o) ==
  OrError(Only(o, "OK") \cup Only([ o EXCEPT !.written = TRUE ], "OK"), o)

MethodOutcomes(c, o) ==
  CASE c = "read"  -> OrError(Only(o, "OK"), o)
    [] c = "write" -> IF o.write THEN OrError(Only([ o EXCEPT !.written = TRUE ], "OK"), o)
                      ELSE Only(o, "DENIED")
    [] c = "seek"  -> OrError(Only(o, o.result), o)
    [] c = "truncate" ->
         IF ~o.write THEN Only([ o EXCEPT !.result = "DENIED" ], "DENIED")
         ELSE IF o.result = "OK" THEN TruncateOutcomes(o) ELSE Only(o, o.result)
    [] c = "sync"  -> { [ object |-> s, result |-> s.result ] : s \in SyncOutcomes(o) }
    [] c = "find"  -> OrError(Only([ o EXCEPT !.result = "OK" ], "OK"), o)

\* A method leaves m.object, unlocks with m.result and returns it.
Finish(t, m) ==
  /\ obj' = [ obj EXCEPT ![call[t].on] = m.object ]
  /\ Unlock(t, m.result)
  /\ Returns(t, m.result)

-----------------------------------------------------------------------------
(* Calls whose lock() returned false. *)

Failed(t, calls) == At(t, "failed") /\ call[t].op \in calls

\* The call has its result; its local cDirectory goes out of scope.
LeaveLocalDir(t, dir, r) ==
  call' = [ call EXCEPT ![t] = [ at |-> "take", op |-> dir, on |-> None, result |-> r ] ]

\* findVolume returns FR_TIMEOUT and no file system.  cFile's constructor has that in
\* its own result, and unlocks nothing...
OpenFails(t) ==
  /\ Failed(t, { "open" })
  /\ obj' = [ obj EXCEPT ![call[t].on].result = "TIMEOUT" ]
  /\ LeaveLocalDir(t, "nullDir", "TIMEOUT")
  /\ UNCHANGED << holder, stopped, kept, mResult, mounted, slots >>

\* ... a method of cFatFs has it in the shared one.
VolumeFails(t) ==
  /\ Failed(t, VolumeCalls)
  /\ mResult' = "TIMEOUT"
  /\ call' = [ call EXCEPT ![t].at = "leave", ![t].op = "noVolume", ![t].result = "TIMEOUT" ]
  /\ UNCHANGED << holder, stopped, kept, mounted, slots, obj >>

\* The inner cDirectory of rename or unlink waited for a mutex that its own thread
\* holds; the method goes on to its unlock.
InnerDirFails(t) ==
  /\ Failed(t, { "innerDir" })
  /\ call' = [ call EXCEPT ![t].at = "leave", ![t].op = "nested" ]
  /\ UNCHANGED << holder, stopped, kept, mResult, mounted, slots, obj >>

\* The constructor of cDirectory keeps the error for getError().
OpenDirFails(t) ==
  /\ Failed(t, { "openDir" })
  /\ obj' = [ obj EXCEPT ![call[t].on].result = "TIMEOUT" ]
  /\ Returns(t, "TIMEOUT")
  /\ UNCHANGED << holder, stopped, kept, mResult, mounted, slots >>

\* A method unlocks with the result its object happens to have, and returns it.
\* truncate first runs its body when that result is FR_OK, mutex or no mutex.
FailedOutcomes(c, o) ==
  IF c = "truncate" /\ o.result = "OK" THEN TruncateOutcomes(o) ELSE Only(o, o.result)

MethodFails(t) ==
  /\ Failed(t, Methods)
  /\ \E m \in FailedOutcomes(call[t].op, obj[call[t].on]) : Finish(t, m)
  /\ UNCHANGED << kept, mResult, mounted, slots >>

\* After the sync of ~cFile: go on to the close proper, or give the object up.
AfterSync(t, o) ==
  IF o.result = "OK"
    THEN /\ Enters(t, "close", call[t].on)
         /\ obj' = [ obj EXCEPT ![call[t].on] = o ]
    ELSE /\ Returns(t, "UNUSED")
         /\ obj' = [ obj EXCEPT ![call[t].on] = NoObject ]

CloseSyncFails(t) ==
  /\ Failed(t, { "closeSync" })
  /\ Unlock(t, obj[call[t].on].result)
  /\ AfterSync(t, obj[call[t].on])
  /\ UNCHANGED << kept, mResult, mounted, slots >>

\* The objects after a destructor: the local cDirectory is none of them.
AfterDestructor(t) ==
  IF call[t].op = "localDir" THEN obj ELSE [ obj EXCEPT ![call[t].on] = NoObject ]

\* The destructors unlock nothing when lock() was false, even if it took the mutex.
DestructorFails(t) ==
  /\ Failed(t, { "localDir", "close", "closeDir" })
  /\ obj' = AfterDestructor(t)
  /\ Returns(t, call[t].result)
  /\ UNCHANGED << holder, stopped, kept, mResult, mounted, slots >>

-----------------------------------------------------------------------------
(* Bodies, run under the mutex. *)

Inside(t, calls) == At(t, "in") /\ call[t].op \in calls

Volume(r, m, s) == [ result |-> r, mounted |-> m, slots |-> s ]

\* findVolume after a successful lock(): the volume is mounted and the card still
\* answers, or it is mounted afresh, which clears the table of open objects.
FindVolume ==
  (IF mounted THEN { Volume("OK", TRUE, slots) } ELSE {})
  \cup (IF mounted /\ "notReady" \notin Faults THEN {} ELSE
          { Volume("OK", TRUE, ClearFileLock(slots)) }
          \cup (IF "notReady" \in Faults THEN { Volume("NOT_READY", FALSE, slots) } ELSE {})
          \cup (IF "diskError" \in Faults THEN { Volume("DISK_ERR", FALSE, slots) } ELSE {}))

\* cFile::cFile on a file that exists, for reading, or for reading and writing.  The
\* result of the path walk is not looked at: f is the entry where the walk stopped.
OpenBody(t, f, w) ==
  /\ Inside(t, { "open" })
  /\ \E v \in FindVolume :
       LET r == IF v.result # "OK" THEN v.result ELSE CheckFileLock(v.slots, f, w)
           id == IF r = "OK" THEN FileLockId(v.slots, f, w) ELSE 0
           result == IF r = "OK" /\ id = 0 THEN "INT_ERR" ELSE r
       IN  /\ mounted' = v.mounted
           /\ slots' = IF id = 0 THEN v.slots ELSE IncFileLock(v.slots, f, w)
           /\ obj' = [ obj EXCEPT ![call[t].on] =
                         [ @ EXCEPT !.result = result, !.fs = (id # 0), !.lockId = id,
                                    !.key = IF id = 0 THEN None ELSE f,
                                    !.write = (w /\ id # 0) ] ]
           /\ Unlock(t, result)
           /\ LeaveLocalDir(t, "localDir", result)
  /\ UNCHANGED << kept, mResult >>

\* followPath, on the path of a directory.
WalkResults == { "OK" } \cup (IF "noPath" \in Faults THEN { "NO_PATH" } ELSE {})
                        \cup (IF "diskError" \in Faults THEN { "DISK_ERR" } ELSE {})

\* cDirectory::cDirectory: a sub-directory takes an entry of the table, the root
\* (key None) does not.
OpenDirBody(t, d) ==
  /\ Inside(t, { "openDir" })
  /\ \E v \in FindVolume, walk \in WalkResults :
       LET walked == IF v.result = "OK" THEN walk ELSE v.result
           id == IF walked = "OK" /\ d # None THEN FileLockId(v.slots, d, FALSE) ELSE 0
           result == IF walked # "OK" THEN walked
                     ELSE IF d # None /\ id = 0 THEN "TOO_MANY_OPEN_FILES" ELSE "OK"
       IN  /\ mounted' = v.mounted
           /\ slots' = IF id = 0 THEN v.slots ELSE IncFileLock(v.slots, d, FALSE)
           /\ obj' = [ obj EXCEPT ![call[t].on] =
                         [ @ EXCEPT !.result = result, !.fs = (result = "OK"), !.lockId = id,
                                    !.key = IF id = 0 THEN None ELSE d ] ]
           /\ Unlock(t, result)
           /\ Returns(t, result)
  /\ UNCHANGED << kept, mResult >>

\* A method of cFatFs leaves its result in the field that lock() of any thread writes,
\* perhaps destroys its inner cDirectory, ...
VolumeBody(t) ==
  /\ Inside(t, VolumeCalls)
  /\ \E v \in FindVolume, fine \in Outcomes("diskError") :
       LET result == IF v.result = "OK" /\ ~fine THEN "DISK_ERR" ELSE v.result
       IN  /\ mounted' = v.mounted
           /\ slots' = v.slots
           /\ mResult' = result
           /\ call' = [ call EXCEPT ![t] =
                IF call[t].op = "nested" /\ v.result = "OK"
                  THEN [ @ EXCEPT !.at = "take", !.op = "innerDir", !.result = result ]
                  ELSE [ @ EXCEPT !.at = "leave", !.result = result ] ]
  /\ UNCHANGED << holder, stopped, kept, obj >>

\* ... unlocks with what that field then holds, ...
VolumeLeave(t) ==
  /\ At(t, "leave")
  /\ call[t].op \in VolumeCalls \cup { "noVolume" }
  /\ Unlock(t, mResult)
  /\ Goes(t, "return")
  /\ UNCHANGED << kept, mResult, mounted, slots, obj >>

\* ... and returns what it holds after that.
VolumeReturn(t) ==
  /\ At(t, "return")
  /\ LeaveLocalDir(t, IF call[t].op = "noVolume" THEN "nullDir" ELSE "localDir", mResult)
  /\ UNCHANGED << holder, stopped, kept, mResult, mounted, slots, obj >>

\* read, write, seek, truncate and sync of cFile, find of cDirectory.
MethodBody(t) ==
  /\ Inside(t, Methods)
  /\ \E m \in MethodOutcomes(call[t].op, obj[call[t].on]) : Finish(t, m)
  /\ UNCHANGED << kept, mResult, mounted, slots >>

\* ~cFile, first half: its call of sync.
CloseSyncBody(t) ==
  /\ Inside(t, { "closeSync" })
  /\ \E s \in SyncOutcomes(obj[call[t].on]) : Unlock(t, s.result) /\ AfterSync(t, s)
  /\ UNCHANGED << kept, mResult, mounted, slots >>

\* ~cFile, second half, and ~cDirectory: the entry of the table is released.
DestructorBody(t) ==
  /\ Inside(t, { "localDir", "close", "closeDir" })
  /\ slots' = IF call[t].op = "localDir" \/ obj[call[t].on].lockId = 0 THEN slots
              ELSE DecFileLock(slots, obj[call[t].on].lockId)
  /\ obj' = AfterDestructor(t)
  /\ Give(t)
  /\ Returns(t, call[t].result)
  /\ UNCHANGED << kept, mResult, mounted >>

-----------------------------------------------------------------------------
Init ==
  /\ holder = None /\ stopped = "no" /\ kept = FALSE
  /\ mResult = "UNUSED" /\ mounted = FALSE
  /\ slots = [ i \in LockIds |-> BlankSlot ]
  /\ obj = [ o \in Objects |-> NoObject ]
  /\ call = [ t \in Threads |-> Back("UNUSED") ]

LockStep(t) ==
  \/ LockTake(t) \/ LockBlock(t) \/ LockTimeout(t) \/ LockNull(t)
  \/ LockDecide(t) \/ LockDecideLate(t)

Start(t) ==
  \/ \E o \in Objects, c \in Used \cap { "open", "openDir" } : Construct(t, c, o)
  \/ \E o \in Objects, c \in (Used \cap Methods) \cup { "closeSync", "closeDir" } : Call(t, c, o)
  \/ \E c \in Used \cap VolumeCalls : CallVolume(t, c)

FailStep(t) ==
  \/ OpenFails(t) \/ OpenDirFails(t) \/ VolumeFails(t) \/ InnerDirFails(t)
  \/ MethodFails(t) \/ CloseSyncFails(t) \/ DestructorFails(t)

\* The program opens for writing if it writes.
OpenModes == IF Used \cap { "write", "truncate" } = {} THEN { FALSE } ELSE BOOLEAN

BodyStep(t) ==
  \/ \E f \in Files, w \in OpenModes : OpenBody(t, f, w)
  \/ \E d \in Dirs \cup { None } : OpenDirBody(t, d)
  \/ VolumeBody(t) \/ VolumeLeave(t) \/ VolumeReturn(t)
  \/ MethodBody(t) \/ CloseSyncBody(t) \/ DestructorBody(t)

Next == \E t \in Threads : Start(t) \/ LockStep(t) \/ FailStep(t) \/ BodyStep(t)

\* A thread inside a call keeps running, and a thread that waits for the mutex gets
\* it or times out: FreeRTOS wakes it after 1000 ticks at the latest.
CallStep(t) == LockStep(t) \/ FailStep(t) \/ BodyStep(t)
Fairness == \A t \in Threads : WF_vars(CallStep(t))

Spec == Init /\ [][Next]_vars
FairSpec == Spec /\ Fairness

-----------------------------------------------------------------------------
(* Properties. *)

Object == [ kind : { "none", "file", "dir" }, owner : Threads \cup { None },
            fs : BOOLEAN, result : Results, lockId : 0 .. FS_LOCK,
            key : Keys, write : BOOLEAN, written : BOOLEAN ]

Stops == { "no", "notHolder", "badHandle", "overlap" }

\* The types of the state.
TypeOK ==
  /\ holder \in Threads \cup { None }
  /\ stopped \in Stops
  /\ kept \in BOOLEAN
  /\ mResult \in Results
  /\ mounted \in BOOLEAN
  /\ slots \in [ LockIds -> [ key : Keys, ctr : Nat ] ]
  /\ obj \in [ Objects -> Object ]
  /\ call \in [ Threads -> [ at : Points, op : Calls, on : Objects \cup { None },
                             result : Results ] ]

\* The thread is between a lock() that said yes and its unlock.
HasMutex(t) ==
  \/ call[t].at = "in"
  \/ call[t].at = "leave" /\ call[t].op # "noVolume"
  \/ call[t].op = "innerDir"

\* Every thread whose lock() said yes holds the mutex, until it unlocks: whatever
\* times out, fails or is given by the wrong thread, two of them never overlap
\* (the comment of cFatFs::lock, "lock fatfs, also sd access lock").  But for one way:
\* a lock() that timed out reads the FR_OK that another one has written since.
MutualExclusion ==
  \A t \in Threads : HasMutex(t) /\ stopped # "overlap" => holder = t

\* A thread that is in no call does not hold the mutex: nothing is left behind by
\* an unlock that depends on the result.  But for one way: the lock() that took the
\* mutex returned false, as the card was not ready or as it read the FR_TIMEOUT that
\* another one had written since.
NothingLeaked == \A t \in Threads : call[t].at = "idle" /\ holder = t => kept

Opened(i) == { o \in Objects : obj[o].lockId = i }

\* The table never forgets an open object: the entry an object was opened through
\* still names its file, says so if the object writes, and counts at least the
\* objects that read.
OpenObjectsCounted ==
  \A i \in LockIds :
    /\ \A o \in Opened(i) : /\ obj[o].key = slots[i].key
                            /\ obj[o].write => slots[i].ctr = WriteOpen
    /\ slots[i].ctr >= Cardinality(Opened(i))

\* The file sharing policy: while a file is open for writing nobody else has it open
\* (checkFileLock, "Reject any open against writing file and all write mode open").
WriterIsAlone ==
  \A o, p \in Objects : (o # p /\ obj[o].write) => obj[p].key # obj[o].key

\* The mutex is given by the thread that holds it (configASSERT in
\* xTaskPriorityDisinherit).
GivenByHolder == stopped # "notHolder"

\* Every call comes back: whoever leaks the mutex, waits for itself or overruns the
\* 1000 ticks, the others get a result, unless the system stops on an assertion or two
\* bodies overlap.
CallsReturn ==
  \A t \in Threads : call[t].at # "idle" ~> (call[t].at = "idle" \/ stopped # "no")

=============================================================================
