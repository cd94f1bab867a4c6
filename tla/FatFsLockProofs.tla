-------------------------- MODULE FatFsLockProofs --------------------------
(***************************************************************************)
(* Proofs about FatFsLock, for every number of tasks, objects, files and   *)
(* table entries and every combination of faults: the state keeps its      *)
(* types, no two bodies overlap but where a lock() that timed out misreads *)
(* the shared result, and tasks that only use files and directories leave  *)
(* the mutex held only where a lock() that took it says no.  As long as    *)
(* the card stays ready, the table counts the objects that are open and a  *)
(* writer is alone.                                                        *)
(***************************************************************************)
EXTENDS FatFsLock, FiniteSetTheorems, WellFoundedInduction, TLAPS

\* A call of an object carries an object.
CallsHaveObjects ==
  \A t \in Threads :
    call[t].op \in ObjectCalls \cup { "open", "openDir" } => call[t].on \in Objects

\* The thread has the mutex, from the step of lock() that takes it.
Holds(t) == HasMutex(t) \/ call[t].at = "took"

HoldersHold == \A t \in Threads : Holds(t) /\ stopped # "overlap" => holder = t

Inv == TypeOK /\ CallsHaveObjects /\ HoldersHold

-----------------------------------------------------------------------------
(* The table of open objects. *)

\* A set of lock ids that is not empty has a lowest one.
LEMMA LowestIsMember ==
  ASSUME NEW S, S \subseteq LockIds, S # {}
  PROVE  LowestOf(S) \in S
<1>1. S \subseteq Nat
  BY LockAssumption DEF LockIds
<1> DEFINE Less == OpToRel(<, Nat)
<1>2. \E i \in S : \A j \in S : << j, i >> \notin Less
  <2>1. IsWellFoundedOn(Less, Nat)
    BY NatLessThanWellFounded
  <2> HIDE DEF Less
  <2> QED
    BY <1>1, <2>1, WFMin
<1>3. \E i \in S : \A j \in S : i <= j
  <2>1. \A i, j \in Nat : j < i => << j, i >> \in Less
    BY DEF OpToRel
  <2> HIDE DEF Less
  <2>2. PICK i \in S : \A j \in S : << j, i >> \notin Less
    BY <1>2
  <2>3. \A j \in S : ~ (j < i)
    BY <1>1, <2>1, <2>2
  <2> QED
    BY <1>1, <2>3
<1> QED
  BY <1>3 DEF LowestOf

SlotTable == [ LockIds -> [ key : Keys, ctr : Nat ] ]

\* incFileLock returns a lock id or 0.
LEMMA FileLockIdType ==
  ASSUME NEW s, NEW k, NEW w
  PROVE  FileLockId(s, k, w) \in LockIds \cup { 0 }
<1>1. SlotsOf(s, k) \subseteq LockIds /\ SlotsOf(s, None) \subseteq LockIds
  BY DEF SlotsOf
<1> QED
  BY <1>1, LowestIsMember DEF FileLockId

\* The table stays a table, whatever is registered, released or cleared.
LEMMA TableType ==
  ASSUME NEW s \in SlotTable, NEW k \in Keys, NEW w \in BOOLEAN
  PROVE  /\ IncFileLock(s, k, w) \in SlotTable
         /\ \A i \in LockIds : DecFileLock(s, i) \in SlotTable
         /\ ClearFileLock(s) \in SlotTable
<1>1. IncFileLock(s, k, w) \in SlotTable
  <2>1. CASE FileLockId(s, k, w) = 0
    BY <2>1 DEF IncFileLock
  <2>2. CASE FileLockId(s, k, w) \in LockIds
    BY <2>2, LockAssumption DEF IncFileLock, SlotTable, LockIds, WriteOpen
  <2> QED
    BY <2>1, <2>2, FileLockIdType
<1>2. ASSUME NEW i \in LockIds
      PROVE  DecFileLock(s, i) \in SlotTable
  BY DEF DecFileLock, SlotTable, WriteOpen, Keys
<1>3. ClearFileLock(s) \in SlotTable
  BY DEF ClearFileLock, SlotTable, Keys
<1> QED
  BY <1>1, <1>2, <1>3

-----------------------------------------------------------------------------
(* What the methods leave behind. *)

CallRecord ==
  [ at : Points, op : Calls, on : Objects \cup { None }, result : Results ]

\* sync leaves an object.
LEMMA SyncType ==
  ASSUME NEW o \in Object, NEW s \in SyncOutcomes(o)
  PROVE  s \in Object
<1>1. [ o EXCEPT !.result = "OK", !.written = FALSE ] \in Object
  BY DEF Object, Results
<1>2. ASSUME NEW w \in BOOLEAN
      PROVE  [ o EXCEPT !.result = "DISK_ERR", !.written = w ] \in Object
  BY DEF Object, Results
<1> QED
  BY <1>1, <1>2 DEF SyncOutcomes

\* Every method leaves an object and returns a result.
LEMMA MethodType ==
  ASSUME NEW c \in Methods, NEW o \in Object,
         NEW m \in MethodOutcomes(c, o) \cup FailedOutcomes(c, o)
  PROVE  m.object \in Object /\ m.result \in Results
<1> DEFINE Good(S) == \A x \in S : x.object \in Object /\ x.result \in Results
<1>1. ASSUME NEW p \in Object, NEW r \in Results
      PROVE  Good(Only(p, r))
  BY <1>1 DEF Only
<1>2. ASSUME NEW p \in Object, NEW S, Good(S)
      PROVE  Good(OrError(S, p))
  <2>1. [ p EXCEPT !.result = "DISK_ERR" ] \in Object /\ "DISK_ERR" \in Results
    BY DEF Object, Results
  <2> QED
    BY <1>2, <2>1 DEF OrError
<1>3. /\ "OK" \in Results /\ "DENIED" \in Results
      /\ o.result \in Results
      /\ [ o EXCEPT !.written = TRUE ] \in Object
      /\ [ o EXCEPT !.result = "DENIED" ] \in Object
      /\ [ o EXCEPT !.result = "OK" ] \in Object
  BY DEF Object, Results
<1>4. Good(TruncateOutcomes(o))
  <2>1. Good(Only(o, "OK") \cup Only([ o EXCEPT !.written = TRUE ], "OK"))
    BY <1>1, <1>3
  <2> QED
    BY <1>2, <2>1 DEF TruncateOutcomes
<1>5. \A x \in SyncOutcomes(o) : x \in Object /\ x.result \in Results
  BY SyncType DEF Object
<1>6. Good(FailedOutcomes(c, o))
  BY <1>1, <1>3, <1>4 DEF FailedOutcomes
<1>7. Good(MethodOutcomes(c, o))
  <2>1. CASE c = "read"
    BY <2>1, <1>1, <1>2, <1>3 DEF MethodOutcomes
  <2>2. CASE c = "write"
    BY <2>2, <1>1, <1>2, <1>3 DEF MethodOutcomes
  <2>3. CASE c = "seek"
    BY <2>3, <1>1, <1>2, <1>3 DEF MethodOutcomes
  <2>4. CASE c = "truncate"
    BY <2>4, <1>1, <1>3, <1>4 DEF MethodOutcomes
  <2>5. CASE c = "sync"
    BY <2>5, <1>5 DEF MethodOutcomes
  <2>6. CASE c = "find"
    BY <2>6, <1>1, <1>2, <1>3 DEF MethodOutcomes
  <2> QED
    BY <2>1, <2>2, <2>3, <2>4, <2>5, <2>6 DEF Methods, FileCalls
<1> QED
  BY <1>6, <1>7

\* findVolume leaves a table.
LEMMA FindVolumeType ==
  ASSUME TypeOK, NEW v \in FindVolume
  PROVE  v.result \in Results /\ v.mounted \in BOOLEAN /\ v.slots \in SlotTable
<1>1. slots \in SlotTable /\ ClearFileLock(slots) \in SlotTable
  <2>1. slots \in SlotTable
    BY DEF TypeOK, SlotTable
  <2> QED
    BY <2>1, TableType DEF Keys
<1>2. { "OK", "NOT_READY", "DISK_ERR" } \subseteq Results
  BY DEF Results
<1>3. \E r \in { "OK", "NOT_READY", "DISK_ERR" }, m \in BOOLEAN,
         s \in { slots, ClearFileLock(slots) } : v = Volume(r, m, s)
  BY DEF FindVolume
<1> QED
  BY <1>1, <1>2, <1>3 DEF Volume

-----------------------------------------------------------------------------
(* The mutex. *)

\* A thread takes the mutex only when it is free and gives only its own: the other
\* threads keep what they have.
LEMMA OthersKeepTheMutex ==
  ASSUME Inv, stopped = "no", NEW t \in Threads, NEW r \in CallRecord,
         call' = [ call EXCEPT ![t] = r ],
         holder' = holder \/ holder \in { t, None },
         Holds(t)' /\ stopped' # "overlap" => holder' = t
  PROVE  HoldersHold'
<1> SUFFICES ASSUME NEW u \in Threads, Holds(u)', stopped' # "overlap"
             PROVE  holder' = u
  BY DEF HoldersHold
<1>1. CASE u = t
  BY <1>1
<1>2. CASE u # t
  <2>1. call'[u] = call[u]
    BY <1>2 DEF Inv, TypeOK
  <2>2. holder = u
    BY <2>1 DEF Holds, HasMutex, Inv, HoldersHold
  <2> QED
    BY <1>2, <2>2, LockAssumption
<1> QED
  BY <1>1, <1>2

\* unlock, whatever the result.
LEMMA UnlockFacts ==
  ASSUME TypeOK, NEW t \in Threads, NEW r, Unlock(t, r) \/ Give(t)
  PROVE  /\ holder' \in Threads \cup { None }
         /\ stopped' \in Stops
         /\ holder' = holder \/ holder = t
BY DEF TypeOK, Unlock, Give, Stops

\* One step of thread t: it leaves record r for t and good values for the rest.
LEMMA StepOfOneThread ==
  ASSUME Inv, stopped = "no", NEW t \in Threads, NEW r \in CallRecord,
         call' = [ call EXCEPT ![t] = r ],
         r.op \in ObjectCalls \cup { "open", "openDir" } => r.on \in Objects,
         holder' \in Threads \cup { None },
         stopped' \in Stops,
         mResult' \in Results, kept' \in BOOLEAN,
         mounted' \in BOOLEAN,
         slots' \in SlotTable,
         obj' \in [ Objects -> Object ],
         holder' = holder \/ holder \in { t, None },
         (r.at \in { "in", "took" } \/ (r.at = "leave" /\ r.op # "noVolume") \/ r.op = "innerDir")
           => holder' = t \/ stopped' = "overlap"
  PROVE  Inv'
<1>1. call \in [ Threads -> CallRecord ]
  BY DEF Inv, TypeOK, CallRecord
<1>2. call'[t] = r /\ \A u \in Threads \ { t } : call'[u] = call[u]
  BY <1>1
<1>3. TypeOK'
  <2>1. call' \in [ Threads -> CallRecord ]
    BY <1>1
  <2> QED
    BY <2>1 DEF TypeOK, CallRecord, SlotTable
<1>4. CallsHaveObjects'
  BY <1>2 DEF CallsHaveObjects, Inv
<1>5. HoldersHold'
  <2>1. Holds(t)' /\ stopped' # "overlap" => holder' = t
    BY <1>2 DEF Holds, HasMutex
  <2> QED
    BY <2>1, OthersKeepTheMutex
<1> QED
  BY <1>3, <1>4, <1>5 DEF Inv

\* The parts of the type invariant, as the action lemmas use them.
LEMMA Parts ==
  ASSUME Inv, NEW t \in Threads
  PROVE  /\ holder \in Threads \cup { None }
         /\ stopped \in Stops
         /\ kept \in BOOLEAN /\ mResult \in Results /\ mounted \in BOOLEAN
         /\ slots \in SlotTable
         /\ obj \in [ Objects -> Object ]
         /\ call \in [ Threads -> CallRecord ]
         /\ call[t] \in CallRecord
         /\ Holds(t) /\ stopped # "overlap" => holder = t
         /\ call[t].op \in ObjectCalls \cup { "open", "openDir" } => call[t].on \in Objects
BY DEF Inv, TypeOK, SlotTable, CallRecord, CallsHaveObjects, HoldersHold

\* A step that only moves t to another program point, perhaps with another result in
\* the shared field, perhaps taking the mutex.
LEMMA Move ==
  ASSUME Inv, stopped = "no", NEW t \in Threads, NEW p \in Points, Goes(t, p),
         holder' = holder \/ (holder = None /\ holder' = t),
         stopped' \in { stopped, "overlap" },
         mResult' \in Results, kept' \in BOOLEAN,
         UNCHANGED << mounted, slots, obj >>,
         p \in { "in", "took" } => holder' = t \/ stopped' = "overlap", p # "leave"
  PROVE  Inv'
<1> DEFINE r == [ call[t] EXCEPT !.at = p ]
<1>1. /\ r \in CallRecord
      /\ r.at = p /\ r.op = call[t].op /\ r.on = call[t].on
      /\ call' = [ call EXCEPT ![t] = r ]
  BY Parts DEF CallRecord, Goes
<1>2. r.op \in ObjectCalls \cup { "open", "openDir" } => r.on \in Objects
  BY <1>1, Parts
<1>3. /\ holder' \in Threads \cup { None }
      /\ stopped' \in Stops
      /\ mounted' \in BOOLEAN /\ slots' \in SlotTable /\ obj' \in [ Objects -> Object ]
      /\ holder' = holder \/ holder \in { t, None }
  BY Parts DEF Stops
<1>4. r.op = "innerDir" => holder' = t
  BY <1>1, Parts, LockAssumption DEF Holds, HasMutex
<1>5. (r.at \in { "in", "took" } \/ (r.at = "leave" /\ r.op # "noVolume") \/ r.op = "innerDir")
        => holder' = t \/ stopped' = "overlap"
  BY <1>1, <1>4
<1> HIDE DEF r
<1> QED
  BY <1>1, <1>2, <1>3, <1>5, StepOfOneThread

-----------------------------------------------------------------------------
(* lock(). *)

LEMMA LockStepKeepsInv ==
  ASSUME Inv, stopped = "no", NEW t \in Threads, LockStep(t)
  PROVE  Inv'
<1>1. CASE LockTake(t)
  <2>1. /\ Goes(t, "took") /\ "took" \in Points
        /\ mResult' \in Results /\ kept' \in BOOLEAN
        /\ holder = None /\ holder' = t
        /\ UNCHANGED << stopped, mounted, slots, obj >>
    BY <1>1 DEF LockTake, Points, Results, Outcomes
  <2> QED
    BY <2>1, Move
<1>2. CASE LockBlock(t)
  <2>1. /\ Goes(t, "wait") /\ "wait" \in Points
        /\ UNCHANGED << holder, stopped, kept, mResult, mounted, slots, obj >>
    BY <1>2 DEF LockBlock, Points
  <2> QED
    BY <2>1, Parts, Move
<1>3. CASE LockTimeout(t)
  <2>1. /\ Goes(t, "late") /\ "late" \in Points
        /\ mResult' \in Results
        /\ UNCHANGED << holder, stopped, kept, mounted, slots, obj >>
    BY <1>3 DEF LockTimeout, Points, Results
  <2> QED
    BY <2>1, Parts, Move
<1>4. CASE LockNull(t)
  <2>1. /\ stopped' = "badHandle"
        /\ UNCHANGED << holder, kept, mResult, mounted, slots, obj, call >>
    BY <1>4 DEF LockNull
  <2> QED
    BY <2>1 DEF Inv, TypeOK, Stops, CallsHaveObjects, HoldersHold, Holds, HasMutex
<1>5. CASE LockDecide(t)
  <2>1. PICK p \in { "in", "failed" } : Goes(t, p)
    BY <1>5 DEF LockDecide
  <2>2. /\ p \in Points /\ kept' \in BOOLEAN
        /\ UNCHANGED << holder, stopped, mResult, mounted, slots, obj >>
    BY <1>5 DEF LockDecide, Points
  <2>3. holder = t
    BY <1>5, Parts DEF LockDecide, At, Holds
  <2> QED
    BY <2>1, <2>2, <2>3, Parts, Move
<1>6. CASE LockDecideLate(t)
  <2>1. PICK p \in { "in", "failed" } :
          /\ Goes(t, p)
          /\ p = "in" => stopped' = "overlap"
    BY <1>6 DEF LockDecideLate
  <2>2. /\ p \in Points /\ stopped' \in { stopped, "overlap" }
        /\ UNCHANGED << holder, kept, mResult, mounted, slots, obj >>
    BY <1>6 DEF LockDecideLate, Points
  <2> QED
    BY <2>1, <2>2, Parts, Move
<1> QED
  BY <1>1, <1>2, <1>3, <1>4, <1>5, <1>6 DEF LockStep

-----------------------------------------------------------------------------
(* Calls. *)

\* A step after which t does not hold the mutex, or before it asks for it.
LEMMA StepOutside ==
  ASSUME Inv, stopped = "no", NEW t \in Threads, NEW r \in CallRecord,
         call' = [ call EXCEPT ![t] = r ],
         r.at \notin { "took", "in", "leave" }, r.op # "innerDir",
         r.op \in ObjectCalls \cup { "open", "openDir" } => r.on \in Objects,
         UNCHANGED << holder, stopped >> \/ Give(t) \/ \E x \in Results : Unlock(t, x),
         kept' \in BOOLEAN, mResult' \in Results, mounted' \in BOOLEAN, slots' \in SlotTable,
         obj' \in [ Objects -> Object ]
  PROVE  Inv'
<1>1. /\ holder' \in Threads \cup { None }
      /\ stopped' \in Stops
      /\ holder' = holder \/ holder = t
  BY UnlockFacts, Parts DEF Inv
<1> QED
  BY <1>1, StepOfOneThread

\* The records of a thread outside, asking, and leaving its local cDirectory.
LEMMA RecordTypes ==
  ASSUME NEW t \in Threads
  PROVE  /\ \A r \in Results :
              /\ Back(r) \in CallRecord
              /\ Back(r).at = "idle" /\ Back(r).op = "none"
         /\ \A c \in Calls, o \in Objects \cup { None }, r \in Results :
              [ at |-> "take", op |-> c, on |-> o, result |-> r ] \in CallRecord
BY DEF Back, CallRecord, Points, Calls

NotAnObjectCall == { "none", "localDir", "nullDir" } \cup VolumeCalls

\* A call that ends.
LEMMA ReturnStep ==
  ASSUME Inv, stopped = "no", NEW t \in Threads, NEW r \in Results, Returns(t, r),
         UNCHANGED << holder, stopped >> \/ Give(t) \/ \E x \in Results : Unlock(t, x),
         kept' \in BOOLEAN, mResult' \in Results, mounted' \in BOOLEAN, slots' \in SlotTable,
         obj' \in [ Objects -> Object ]
  PROVE  Inv'
<1> DEFINE b == Back(r)
<1>1. b \in CallRecord /\ b.at = "idle" /\ b.op = "none"
  BY RecordTypes
<1>2. b.op \notin ObjectCalls \cup { "open", "openDir" }
  BY <1>1 DEF ObjectCalls, Methods, FileCalls, Destructors
<1>3. call' = [ call EXCEPT ![t] = b ]
  BY DEF Returns
<1> HIDE DEF b
<1> QED
  BY <1>1, <1>2, <1>3, StepOutside

\* A call, or the destructor of a local cDirectory, that begins.
LEMMA EnterStep ==
  ASSUME Inv, stopped = "no", NEW t \in Threads, NEW c \in Calls \ { "innerDir" },
         NEW o \in Objects \cup { None }, NEW r \in Results,
         call' = [ call EXCEPT ![t] = [ at |-> "take", op |-> c, on |-> o, result |-> r ] ],
         o \in Objects \/ c \in NotAnObjectCall,
         UNCHANGED << holder, stopped >> \/ Give(t) \/ \E x \in Results : Unlock(t, x),
         kept' \in BOOLEAN, mResult' \in Results, mounted' \in BOOLEAN, slots' \in SlotTable,
         obj' \in [ Objects -> Object ]
  PROVE  Inv'
<1> DEFINE b == [ at |-> "take", op |-> c, on |-> o, result |-> r ]
<1>1. b \in CallRecord /\ b.at = "take" /\ b.op = c /\ b.on = o
  BY RecordTypes
<1>2. c \in ObjectCalls \cup { "open", "openDir" } => o \in Objects
  BY DEF NotAnObjectCall, VolumeCalls, ObjectCalls, Methods, FileCalls, Destructors
<1>3. call' = [ call EXCEPT ![t] = b ]
  OBVIOUS
<1> HIDE DEF b
<1> QED
  BY <1>1, <1>2, <1>3, StepOutside

\* An object that is not open is an object.
LEMMA NoObjectType == NoObject \in Object
BY LockAssumption DEF NoObject, Object, Results, Keys

LEMMA StartKeepsInv ==
  ASSUME Inv, stopped = "no", NEW t \in Threads, Start(t)
  PROVE  Inv'
<1>1. "UNUSED" \in Results
  BY DEF Results
<1>2. ASSUME NEW o \in Objects, NEW c \in Used \cap { "open", "openDir" }, Construct(t, c, o)
      PROVE  Inv'
  <2>1. obj' \in [ Objects -> Object ]
    <3> DEFINE kind == IF c = "open" THEN "file" ELSE "dir"
               n == [ NoObject EXCEPT !.kind = kind, !.owner = t ]
    <3>1. n \in Object
      <4>1. kind \in { "none", "file", "dir" }
        OBVIOUS
      <4> HIDE DEF kind
      <4> QED
        BY <4>1, NoObjectType DEF Object
    <3>2. obj' = [ obj EXCEPT ![o] = n ]
      BY <1>2 DEF Construct
    <3> HIDE DEF n
    <3> QED
      BY <3>1, <3>2, Parts
  <2>2. c \in Calls \ { "innerDir" }
    BY DEF Calls
  <2> QED
    BY <1>1, <1>2, <2>1, <2>2, Parts, EnterStep DEF Construct, Enters
<1>3. ASSUME NEW o \in Objects,
             NEW c \in (Used \cap Methods) \cup { "closeSync", "closeDir" }, Call(t, c, o)
      PROVE  Inv'
  <2>1. c \in Calls \ { "innerDir" }
    BY DEF Calls, ObjectCalls, Methods, FileCalls, Destructors
  <2> QED
    BY <1>1, <1>3, <2>1, Parts, EnterStep DEF Call, Enters
<1>4. ASSUME NEW c \in Used \cap VolumeCalls, CallVolume(t, c)
      PROVE  Inv'
  <2>1. c \in Calls \ { "innerDir" } /\ c \in NotAnObjectCall
    BY DEF Calls, VolumeCalls, NotAnObjectCall
  <2> QED
    BY <1>1, <1>4, <2>1, Parts, EnterStep DEF CallVolume, Enters
<1> QED
  BY <1>2, <1>3, <1>4 DEF Start
-----------------------------------------------------------------------------
(* Calls whose lock() returned false. *)

\* The objects after one of them was left as o.
LEMMA ObjectsType ==
  ASSUME Inv, NEW t \in Threads, NEW o \in Object
  PROVE  [ obj EXCEPT ![call[t].on] = o ] \in [ Objects -> Object ]
BY Parts

\* The objects after a destructor.
LEMMA AfterDestructorType ==
  ASSUME Inv, NEW t \in Threads
  PROVE  AfterDestructor(t) \in [ Objects -> Object ]
BY Parts, NoObjectType, ObjectsType DEF AfterDestructor

\* What ~cFile does with the object that sync left.
LEMMA AfterSyncKeepsInv ==
  ASSUME Inv, stopped = "no", NEW t \in Threads, NEW o \in Object, call[t].op = "closeSync",
         AfterSync(t, o), Unlock(t, o.result),
         UNCHANGED << kept, mResult, mounted, slots >>
  PROVE  Inv'
<1>1. call[t].on \in Objects
  BY Parts DEF ObjectCalls, Destructors
<1>2. "UNUSED" \in Results /\ o.result \in Results
  BY DEF Results, Object
<1>3. kept' \in BOOLEAN /\ mResult' \in Results /\ mounted' \in BOOLEAN /\ slots' \in SlotTable
  BY Parts
<1>4. CASE o.result = "OK"
  <2>1. Enters(t, "close", call[t].on) /\ obj' \in [ Objects -> Object ]
    BY <1>4, ObjectsType DEF AfterSync
  <2>2. "close" \in Calls \ { "innerDir" }
    BY DEF Calls, ObjectCalls, Destructors
  <2> QED
    BY <1>1, <1>2, <1>3, <2>1, <2>2, EnterStep DEF Enters
<1>5. CASE o.result # "OK"
  <2>1. Returns(t, "UNUSED") /\ obj' \in [ Objects -> Object ]
    BY <1>5, ObjectsType, NoObjectType DEF AfterSync
  <2> QED
    BY <1>2, <1>3, <2>1, ReturnStep
<1> QED
  BY <1>4, <1>5

\* What a method does with its outcome.
LEMMA FinishKeepsInv ==
  ASSUME Inv, stopped = "no", NEW t \in Threads, NEW m, m.object \in Object, m.result \in Results,
         Finish(t, m), UNCHANGED << kept, mResult, mounted, slots >>
  PROVE  Inv'
<1>1. obj' \in [ Objects -> Object ]
  BY ObjectsType DEF Finish
<1> QED
  BY <1>1, Parts, ReturnStep DEF Finish

LEMMA FailStepKeepsInv ==
  ASSUME Inv, stopped = "no", NEW t \in Threads, FailStep(t)
  PROVE  Inv'
<1>1. { "TIMEOUT", "OK" } \subseteq Results
  BY DEF Results
<1>2. CASE OpenFails(t)
  <2>1. call[t].on \in Objects /\ obj[call[t].on] \in Object
    BY <1>2, Parts DEF OpenFails, Failed
  <2>2. [ obj[call[t].on] EXCEPT !.result = "TIMEOUT" ] \in Object
    BY <2>1, <1>1 DEF Object
  <2>3. obj' \in [ Objects -> Object ]
    BY <1>2, <2>2, Parts DEF OpenFails
  <2>4. "nullDir" \in Calls \ { "innerDir" } /\ "nullDir" \in NotAnObjectCall
    BY DEF Calls, LocalDirs, NotAnObjectCall
  <2> QED
    BY <1>1, <1>2, <2>3, <2>4, Parts, EnterStep DEF OpenFails, LeaveLocalDir
<1>3. CASE OpenDirFails(t)
  <2>1. call[t].on \in Objects /\ obj[call[t].on] \in Object
    BY <1>3, Parts DEF OpenDirFails, Failed
  <2>2. [ obj[call[t].on] EXCEPT !.result = "TIMEOUT" ] \in Object
    BY <2>1, <1>1 DEF Object
  <2>3. obj' \in [ Objects -> Object ]
    BY <1>3, <2>2, Parts DEF OpenDirFails
  <2> QED
    BY <1>1, <1>3, <2>3, Parts, ReturnStep DEF OpenDirFails
<1>4. CASE VolumeFails(t)
  <2> DEFINE r == [ call[t] EXCEPT !.at = "leave", !.op = "noVolume", !.result = "TIMEOUT" ]
  <2>1. r \in CallRecord /\ r.at = "leave" /\ r.op = "noVolume"
    BY <1>1, Parts DEF CallRecord, Points, Calls
  <2>2. call' = [ call EXCEPT ![t] = r ]
    BY <1>4, Parts DEF VolumeFails
  <2>3. r.op \notin ObjectCalls \cup { "open", "openDir" }
    BY <2>1 DEF ObjectCalls, Methods, FileCalls, Destructors
  <2>4. mResult' \in Results /\ UNCHANGED << holder, stopped, kept, mounted, slots, obj >>
    BY <1>1, <1>4 DEF VolumeFails
  <2> HIDE DEF r
  <2> QED
    BY <2>1, <2>2, <2>3, <2>4, Parts, StepOfOneThread
<1>5. CASE InnerDirFails(t)
  <2> DEFINE r == [ call[t] EXCEPT !.at = "leave", !.op = "nested" ]
  <2>1. r \in CallRecord /\ r.at = "leave" /\ r.op = "nested"
    BY Parts DEF CallRecord, Points, Calls, VolumeCalls
  <2>2. call' = [ call EXCEPT ![t] = r ]
    BY <1>5, Parts DEF InnerDirFails
  <2>3. r.op \notin ObjectCalls \cup { "open", "openDir" }
    BY <2>1 DEF ObjectCalls, Methods, FileCalls, Destructors
  <2>4. UNCHANGED << holder, stopped, kept, mResult, mounted, slots, obj >>
    BY <1>5 DEF InnerDirFails
  <2>5. holder' = t
    BY <1>5, <2>4, Parts DEF InnerDirFails, Failed, At, Holds, HasMutex
  <2> HIDE DEF r
  <2> QED
    BY <2>1, <2>2, <2>3, <2>4, <2>5, Parts, StepOfOneThread
<1>6. CASE MethodFails(t)
  <2>1. call[t].op \in Methods /\ obj[call[t].on] \in Object
    BY <1>6, Parts DEF MethodFails, Failed, ObjectCalls
  <2>2. PICK m \in FailedOutcomes(call[t].op, obj[call[t].on]) : Finish(t, m)
    BY <1>6 DEF MethodFails
  <2>3. m.object \in Object /\ m.result \in Results
    BY <2>1, MethodType
  <2> QED
    BY <1>6, <2>2, <2>3, FinishKeepsInv DEF MethodFails
<1>7. CASE CloseSyncFails(t)
  <2>1. call[t].op = "closeSync" /\ obj[call[t].on] \in Object
    BY <1>7, Parts DEF CloseSyncFails, Failed, ObjectCalls, Destructors
  <2> QED
    BY <1>7, <2>1, AfterSyncKeepsInv DEF CloseSyncFails
<1>8. CASE DestructorFails(t)
  <2>1. call[t].result \in Results
    BY Parts DEF CallRecord
  <2>2. obj' \in [ Objects -> Object ]
    BY <1>8, AfterDestructorType DEF DestructorFails
  <2> QED
    BY <1>8, <2>1, <2>2, Parts, ReturnStep DEF DestructorFails
<1> QED
  BY <1>2, <1>3, <1>4, <1>5, <1>6, <1>7, <1>8 DEF FailStep
-----------------------------------------------------------------------------
(* Bodies. *)

\* cFile's constructor.
LEMMA OpenBodyKeepsInv ==
  ASSUME Inv, stopped = "no", NEW t \in Threads, NEW f \in Files, NEW w \in BOOLEAN, OpenBody(t, f, w)
  PROVE  Inv'
<1> DEFINE Checked(v) == IF v.result # "OK" THEN v.result ELSE CheckFileLock(v.slots, f, w)
           Id(v) == IF Checked(v) = "OK" THEN FileLockId(v.slots, f, w) ELSE 0
           Outcome(v) == IF Checked(v) = "OK" /\ Id(v) = 0 THEN "INT_ERR" ELSE Checked(v)
           Opened1(v) == [ obj[call[t].on] EXCEPT !.result = Outcome(v), !.fs = (Id(v) # 0),
                             !.lockId = Id(v), !.key = IF Id(v) = 0 THEN None ELSE f,
                             !.write = (w /\ Id(v) # 0) ]
<1>1. call[t].on \in Objects /\ obj[call[t].on] \in Object
  BY Parts DEF OpenBody, Inside
<1>2. PICK v \in FindVolume :
        /\ mounted' = v.mounted
        /\ slots' = IF Id(v) = 0 THEN v.slots ELSE IncFileLock(v.slots, f, w)
        /\ obj' = [ obj EXCEPT ![call[t].on] = Opened1(v) ]
        /\ Unlock(t, Outcome(v))
        /\ LeaveLocalDir(t, "localDir", Outcome(v))
  BY <1>1, Parts DEF OpenBody
<1>3. v.result \in Results /\ v.mounted \in BOOLEAN /\ v.slots \in SlotTable
  BY FindVolumeType DEF Inv
<1>4. Id(v) \in LockIds \cup { 0 }
  BY FileLockIdType
<1>5. Outcome(v) \in Results
  BY <1>3 DEF CheckFileLock, Results
<1>6. f \in Keys /\ None \in Keys
  BY DEF Keys
<1>7. Opened1(v) \in Object
  <2>1. Id(v) \in 0 .. FS_LOCK
    BY <1>4, LockAssumption DEF LockIds
  <2>2. (IF Id(v) = 0 THEN None ELSE f) \in Keys
    BY <1>6
  <2> HIDE DEF Id, Outcome
  <2> QED
    BY <1>1, <1>5, <2>1, <2>2 DEF Object
<1> HIDE DEF Opened1, Outcome, Id
<1>8. obj' \in [ Objects -> Object ]
  BY <1>2, <1>7, ObjectsType
<1>9. slots' \in SlotTable
  BY <1>2, <1>3, <1>6, TableType
<1>10. "localDir" \in Calls \ { "innerDir" } /\ "localDir" \in NotAnObjectCall
  BY DEF Calls, LocalDirs, NotAnObjectCall
<1>11. kept' \in BOOLEAN /\ mResult' \in Results /\ mounted' \in BOOLEAN
  BY <1>2, <1>3, Parts DEF OpenBody
<1> QED
  BY <1>2, <1>5, <1>8, <1>9, <1>10, <1>11, EnterStep DEF LeaveLocalDir

\* cDirectory's constructor.
LEMMA OpenDirBodyKeepsInv ==
  ASSUME Inv, stopped = "no", NEW t \in Threads, NEW d \in Dirs \cup { None }, OpenDirBody(t, d)
  PROVE  Inv'
<1> DEFINE Walked(v, x) == IF v.result = "OK" THEN x ELSE v.result
           Id(v, x) == IF Walked(v, x) = "OK" /\ d # None THEN FileLockId(v.slots, d, FALSE) ELSE 0
           Outcome(v, x) == IF Walked(v, x) # "OK" THEN Walked(v, x)
                            ELSE IF d # None /\ Id(v, x) = 0 THEN "TOO_MANY_OPEN_FILES" ELSE "OK"
           Opened1(v, x) == [ obj[call[t].on] EXCEPT !.result = Outcome(v, x),
                                !.fs = (Outcome(v, x) = "OK"), !.lockId = Id(v, x),
                                !.key = IF Id(v, x) = 0 THEN None ELSE d ]
<1>1. call[t].on \in Objects /\ obj[call[t].on] \in Object
  BY Parts DEF OpenDirBody, Inside
<1>2. PICK v \in FindVolume, x \in WalkResults :
        /\ mounted' = v.mounted
        /\ slots' = IF Id(v, x) = 0 THEN v.slots ELSE IncFileLock(v.slots, d, FALSE)
        /\ obj' = [ obj EXCEPT ![call[t].on] = Opened1(v, x) ]
        /\ Unlock(t, Outcome(v, x))
        /\ Returns(t, Outcome(v, x))
  BY <1>1, Parts DEF OpenDirBody
<1>3. v.result \in Results /\ v.mounted \in BOOLEAN /\ v.slots \in SlotTable
  BY FindVolumeType DEF Inv
<1>4. Id(v, x) \in LockIds \cup { 0 }
  BY FileLockIdType
<1>5. Outcome(v, x) \in Results
  BY <1>3 DEF WalkResults, Results
<1>6. d \in Keys /\ None \in Keys
  BY DEF Keys
<1>7. Opened1(v, x) \in Object
  <2> HIDE DEF Id, Outcome
  <2>1. Id(v, x) \in 0 .. FS_LOCK
    BY <1>4, LockAssumption DEF LockIds
  <2>2. (IF Id(v, x) = 0 THEN None ELSE d) \in Keys
    BY <1>6
  <2> QED
    BY <1>1, <1>5, <2>1, <2>2 DEF Object
<1> HIDE DEF Opened1, Outcome, Id
<1>8. obj' \in [ Objects -> Object ]
  BY <1>2, <1>7, ObjectsType
<1>9. slots' \in SlotTable
  BY <1>2, <1>3, <1>6, TableType
<1>10. kept' \in BOOLEAN /\ mResult' \in Results /\ mounted' \in BOOLEAN
  BY <1>2, <1>3, Parts DEF OpenDirBody
<1> QED
  BY <1>2, <1>5, <1>8, <1>9, <1>10, ReturnStep

\* The body of a method of cFatFs: it keeps the mutex.
LEMMA VolumeBodyKeepsInv ==
  ASSUME Inv, stopped = "no", NEW t \in Threads, VolumeBody(t)
  PROVE  Inv'
<1> DEFINE Outcome(v, fine) == IF v.result = "OK" /\ ~fine THEN "DISK_ERR" ELSE v.result
           After(v, fine) == IF call[t].op = "nested" /\ v.result = "OK"
              THEN [ call[t] EXCEPT !.at = "take", !.op = "innerDir", !.result = Outcome(v, fine) ]
              ELSE [ call[t] EXCEPT !.at = "leave", !.result = Outcome(v, fine) ]
<1>1. call[t] \in CallRecord /\ holder = t
  BY Parts DEF VolumeBody, Inside, At, Holds, HasMutex
<1>2. PICK v \in FindVolume, fine \in BOOLEAN :
        /\ mounted' = v.mounted /\ slots' = v.slots
        /\ mResult' = Outcome(v, fine)
        /\ call' = [ call EXCEPT ![t] = After(v, fine) ]
  BY Parts DEF VolumeBody, Outcomes
<1>3. v.result \in Results /\ v.mounted \in BOOLEAN /\ v.slots \in SlotTable
  BY FindVolumeType DEF Inv
<1>4. Outcome(v, fine) \in Results
  BY <1>3 DEF Results
<1>5. call[t].op \in VolumeCalls
  BY DEF VolumeBody, Inside
<1>6. After(v, fine) \in CallRecord /\ After(v, fine).op \in VolumeCalls \cup { "innerDir" }
  <2> HIDE DEF Outcome
  <2>1. [ call[t] EXCEPT !.at = "take", !.op = "innerDir", !.result = Outcome(v, fine) ]
           \in [ at : Points, op : { "innerDir" }, on : Objects \cup { None }, result : Results ]
    BY <1>1, <1>4 DEF CallRecord, Points
  <2>2. [ call[t] EXCEPT !.at = "leave", !.result = Outcome(v, fine) ]
           \in [ at : Points, op : VolumeCalls, on : Objects \cup { None }, result : Results ]
    BY <1>1, <1>4, <1>5 DEF CallRecord, Points
  <2> QED
    BY <2>1, <2>2 DEF CallRecord, Calls, LocalDirs
<1> HIDE DEF After, Outcome
<1>7. After(v, fine).op \notin ObjectCalls \cup { "open", "openDir" }
  BY <1>6 DEF VolumeCalls, ObjectCalls, Methods, FileCalls, Destructors
<1>8. UNCHANGED << holder, stopped, kept, obj >>
  BY DEF VolumeBody
<1> QED
  BY <1>1, <1>2, <1>3, <1>4, <1>6, <1>7, <1>8, Parts, StepOfOneThread

\* The unlock of a method of cFatFs.
LEMMA VolumeLeaveKeepsInv ==
  ASSUME Inv, stopped = "no", NEW t \in Threads, VolumeLeave(t)
  PROVE  Inv'
<1> DEFINE r == [ call[t] EXCEPT !.at = "return" ]
<1>1. /\ r \in CallRecord /\ r.at = "return" /\ r.op = call[t].op /\ r.on = call[t].on
      /\ call' = [ call EXCEPT ![t] = r ]
  BY Parts DEF VolumeLeave, Goes, CallRecord, Points
<1>2. \E x \in Results : Unlock(t, x)
  BY Parts DEF VolumeLeave
<1>4. /\ kept' \in BOOLEAN /\ mResult' \in Results /\ mounted' \in BOOLEAN /\ slots' \in SlotTable
      /\ obj' \in [ Objects -> Object ]
  BY Parts DEF VolumeLeave
<1>5. r.op \notin ObjectCalls \cup { "open", "openDir" }
  BY <1>1 DEF VolumeLeave, VolumeCalls, ObjectCalls, Methods, FileCalls, Destructors
<1>3. r.op # "innerDir"
  BY <1>1 DEF VolumeLeave, VolumeCalls
<1> HIDE DEF r
<1> QED
  BY <1>1, <1>2, <1>3, <1>4, <1>5, StepOutside
LEMMA BodyStepKeepsInv ==
  ASSUME Inv, stopped = "no", NEW t \in Threads, BodyStep(t)
  PROVE  Inv'
<1>1. ASSUME NEW f \in Files, NEW w \in OpenModes, OpenBody(t, f, w)
      PROVE  Inv'
  BY <1>1, OpenBodyKeepsInv DEF OpenModes
<1>2. ASSUME NEW d \in Dirs \cup { None }, OpenDirBody(t, d)
      PROVE  Inv'
  BY <1>2, OpenDirBodyKeepsInv
<1>3. CASE VolumeBody(t)
  BY <1>3, VolumeBodyKeepsInv
<1>4. CASE VolumeLeave(t)
  BY <1>4, VolumeLeaveKeepsInv
<1>5. CASE VolumeReturn(t)
  <2>1. PICK dir \in { "nullDir", "localDir" } : LeaveLocalDir(t, dir, mResult)
    BY <1>5 DEF VolumeReturn
  <2>2. dir \in Calls \ { "innerDir" } /\ dir \in NotAnObjectCall
    BY DEF Calls, LocalDirs, NotAnObjectCall
  <2>3. /\ UNCHANGED << holder, stopped >> /\ kept' \in BOOLEAN /\ mResult \in Results
        /\ kept' \in BOOLEAN /\ mResult' \in Results /\ mounted' \in BOOLEAN /\ slots' \in SlotTable
        /\ obj' \in [ Objects -> Object ]
    BY <1>5, Parts DEF VolumeReturn
  <2> QED
    BY <2>1, <2>2, <2>3, EnterStep DEF LeaveLocalDir
<1>6. CASE MethodBody(t)
  <2>1. call[t].op \in Methods /\ obj[call[t].on] \in Object
    BY <1>6, Parts DEF MethodBody, Inside, ObjectCalls
  <2>2. PICK m \in MethodOutcomes(call[t].op, obj[call[t].on]) : Finish(t, m)
    BY <1>6 DEF MethodBody
  <2>3. m.object \in Object /\ m.result \in Results
    BY <2>1, MethodType
  <2> QED
    BY <1>6, <2>2, <2>3, FinishKeepsInv DEF MethodBody
<1>7. CASE CloseSyncBody(t)
  <2>1. call[t].op = "closeSync" /\ obj[call[t].on] \in Object
    BY <1>7, Parts DEF CloseSyncBody, Inside, ObjectCalls, Destructors
  <2>2. PICK s \in SyncOutcomes(obj[call[t].on]) : Unlock(t, s.result) /\ AfterSync(t, s)
    BY <1>7 DEF CloseSyncBody
  <2>3. s \in Object
    BY <2>1, SyncType
  <2> QED
    BY <1>7, <2>1, <2>2, <2>3, AfterSyncKeepsInv DEF CloseSyncBody
<1>8. CASE DestructorBody(t)
  <2>1. call[t].result \in Results
    BY Parts DEF CallRecord
  <2>2. obj' \in [ Objects -> Object ]
    BY <1>8, AfterDestructorType DEF DestructorBody
  <2>3. slots' \in SlotTable
    <3>1. CASE call[t].op = "localDir" \/ obj[call[t].on].lockId = 0
      BY <1>8, <3>1, Parts DEF DestructorBody
    <3>2. CASE ~ (call[t].op = "localDir" \/ obj[call[t].on].lockId = 0)
      <4>1. call[t].op \in ObjectCalls
        BY <1>8, <3>2 DEF DestructorBody, Inside, ObjectCalls, Destructors
      <4>2. obj[call[t].on].lockId \in 0 .. FS_LOCK
        BY <4>1, Parts DEF Object
      <4>3. obj[call[t].on].lockId \in LockIds
        BY <3>2, <4>2, LockAssumption DEF LockIds
      <4>4. slots' = DecFileLock(slots, obj[call[t].on].lockId)
        BY <1>8, <3>2 DEF DestructorBody
      <4> QED
        BY <4>3, <4>4, Parts, TableType DEF Keys
    <3> QED
      BY <3>1, <3>2
  <2> QED
    BY <1>8, <2>1, <2>2, <2>3, Parts, ReturnStep DEF DestructorBody
<1> QED
  BY <1>1, <1>2, <1>3, <1>4, <1>5, <1>6, <1>7, <1>8 DEF BodyStep

-----------------------------------------------------------------------------
(* The specification. *)

LEMMA InitInv == Init => Inv
<1> SUFFICES ASSUME Init PROVE Inv
  OBVIOUS
<1>1. TypeOK
  <2>1. "UNUSED" \in Results /\ Back("UNUSED") \in CallRecord
    BY DEF Results, Back, CallRecord, Points, Calls
  <2>2. BlankSlot \in [ key : Keys, ctr : Nat ]
    BY DEF BlankSlot, Keys
  <2>3. slots \in [ LockIds -> [ key : Keys, ctr : Nat ] ]
    BY <2>2 DEF Init
  <2>4. obj \in [ Objects -> Object ]
    BY NoObjectType DEF Init
  <2>5. call \in [ Threads -> CallRecord ]
    BY <2>1 DEF Init
  <2> QED
    BY <2>1, <2>3, <2>4, <2>5 DEF Init, TypeOK, CallRecord, Stops
<1>2. \A t \in Threads : call[t].at = "idle" /\ call[t].op = "none"
  BY DEF Init, Back
<1> QED
  BY <1>1, <1>2 DEF Inv, CallsHaveObjects, HoldersHold, Holds, HasMutex,
                    ObjectCalls, Methods, FileCalls, Destructors

\* Nothing is followed any more once the system has stopped.
LEMMA StepsWhileRunning ==
  ASSUME NEW t \in Threads, Start(t) \/ LockStep(t) \/ FailStep(t) \/ BodyStep(t)
  PROVE  stopped = "no"
<1>1. CASE Start(t)
  BY <1>1 DEF Start, Construct, Call, CallVolume, At
<1>2. CASE LockStep(t)
  BY <1>2 DEF LockStep, LockTake, LockBlock, LockTimeout, LockDecide, LockDecideLate,
              LockNull, Asking, At
<1>3. CASE FailStep(t)
  BY <1>3 DEF FailStep, OpenFails, OpenDirFails, VolumeFails, InnerDirFails, MethodFails,
              CloseSyncFails, DestructorFails, Failed, At
<1>4. CASE BodyStep(t)
  BY <1>4 DEF BodyStep, OpenBody, OpenDirBody, VolumeBody, VolumeLeave, VolumeReturn,
              MethodBody, CloseSyncBody, DestructorBody, Inside, At
<1> QED
  BY <1>1, <1>2, <1>3, <1>4

LEMMA NextKeepsInv == Inv /\ [Next]_vars => Inv'
<1> SUFFICES ASSUME Inv, [Next]_vars PROVE Inv'
  OBVIOUS
<1>1. CASE Next
  BY <1>1, StepsWhileRunning, StartKeepsInv, LockStepKeepsInv, FailStepKeepsInv,
     BodyStepKeepsInv DEF Next
<1>2. CASE UNCHANGED vars
  BY <1>2 DEF vars, Inv, TypeOK, CallsHaveObjects, HoldersHold, Holds, HasMutex
<1> QED
  BY <1>1, <1>2

\* The state keeps its types: whatever the faults, a lock id stays an index of
\* mFileLock, and a result stays one that the code names.
THEOREM TypeCorrect == Spec => []TypeOK
<1>1. Spec => []Inv
  BY InitInv, NextKeepsInv, PTL DEF Spec
<1>2. Inv => TypeOK
  BY DEF Inv
<1> QED
  BY <1>1, <1>2, PTL

\* The mutex does its work for any number of tasks and objects and under all faults:
\* no two threads are between a lock() that said yes and their unlock, unless a lock()
\* that timed out has read the result that another one wrote after it (stopped is then
\* "overlap").
THEOREM MutexSafe == Spec => []MutualExclusion
<1>1. Spec => []Inv
  BY InitInv, NextKeepsInv, PTL DEF Spec
<1>2. Inv => MutualExclusion
  BY DEF Inv, HoldersHold, Holds, MutualExclusion
<1> QED
  BY <1>1, <1>2, PTL

-----------------------------------------------------------------------------
(* Objects and their callers. *)

Opens == { "open", "openDir" }

\* The points of a call whose lock() has had its answer from the mutex.
Decided == { "took", "late", "in", "failed" }

\* A call works on an object of its own thread: a fresh one if it opens, one that has
\* opened if it has been through lock().
OwnCall(t) ==
  call[t].op \in ObjectCalls \cup Opens =>
    LET o == obj[call[t].on]
    IN /\ o.owner = t /\ o.kind # "none"
       /\ call[t].op = "open" => o.kind = "file"
       /\ call[t].op = "openDir" => o.kind = "dir"
       /\ call[t].op \in Opens => ~o.fs /\ o.lockId = 0 /\ ~o.write
       /\ call[t].op \in ObjectCalls /\ call[t].at \in Decided => o.fs

\* Only an object that did not open has a timeout for its result.
Untimed(o) == o.result = "TIMEOUT" => ~o.fs

OwnInv ==
  /\ \A t \in Threads : OwnCall(t)
  /\ \A o \in Objects : Untimed(obj[o])

\* What a method leaves of the object it was called on.
Kept(o, p) ==
  /\ p.kind = o.kind /\ p.owner = o.owner /\ p.fs = o.fs
  /\ p.lockId = o.lockId /\ p.key = o.key /\ p.write = o.write
  /\ Untimed(p)

LEMMA SyncKeeps ==
  ASSUME NEW o \in Object, Untimed(o), NEW s \in SyncOutcomes(o)
  PROVE  Kept(o, s)
BY DEF SyncOutcomes, Kept, Untimed, Object

LEMMA MethodKeeps ==
  ASSUME NEW c \in Methods, NEW o \in Object, Untimed(o),
         NEW m \in MethodOutcomes(c, o) \cup FailedOutcomes(c, o)
  PROVE  Kept(o, m.object)
<1> DEFINE Good(S) == \A x \in S : Kept(o, x.object)
<1>1. ASSUME NEW p, Kept(o, p), NEW r
      PROVE  Good(Only(p, r))
  BY <1>1 DEF Only
<1>2. Kept(o, o)
  BY DEF Kept
<1>3. \A r \in { "DISK_ERR", "OK", "DENIED" } : Kept(o, [ o EXCEPT !.result = r ])
  BY DEF Kept, Object, Untimed
<1>4. Kept(o, [ o EXCEPT !.written = TRUE ])
  BY DEF Kept, Object, Untimed
<1>5. ASSUME NEW S, Good(S)
      PROVE  Good(OrError(S, o))
  BY <1>3, <1>5 DEF OrError
<1>6. Good(TruncateOutcomes(o))
  <2>1. Good(Only(o, "OK") \cup Only([ o EXCEPT !.written = TRUE ], "OK"))
    BY <1>1, <1>2, <1>4
  <2> QED
    BY <1>5, <2>1 DEF TruncateOutcomes
<1>7. Good(FailedOutcomes(c, o))
  BY <1>1, <1>2, <1>6 DEF FailedOutcomes
<1>8. Kept(o, [ [ o EXCEPT !.result = "OK" ] EXCEPT !.result = "DISK_ERR" ])
  BY DEF Kept, Object, Untimed
<1>9. Good(MethodOutcomes(c, o))
  <2>1. CASE c = "read"
    BY <2>1, <1>1, <1>2, <1>5 DEF MethodOutcomes
  <2>2. CASE c = "write"
    BY <2>2, <1>1, <1>2, <1>4, <1>5 DEF MethodOutcomes
  <2>3. CASE c = "seek"
    BY <2>3, <1>1, <1>2, <1>5 DEF MethodOutcomes
  <2>4. CASE c = "truncate"
    BY <2>4, <1>1, <1>2, <1>3, <1>6 DEF MethodOutcomes
  <2>5. CASE c = "sync"
    BY <2>5, SyncKeeps DEF MethodOutcomes
  <2>6. CASE c = "find"
    <3>1. Good(Only([ o EXCEPT !.result = "OK" ], "OK"))
      BY <1>1, <1>3
    <3> QED
      BY <2>6, <3>1, <1>5 DEF MethodOutcomes
  <2> QED
    BY <2>1, <2>2, <2>3, <2>4, <2>5, <2>6 DEF Methods, FileCalls
<1> QED
  BY <1>7, <1>9

\* A step of t that opens nothing: at most the object of its call changes, or goes.
Quiet(t) ==
  /\ \A u \in Threads \ { t } : call'[u] = call[u]
  /\ \/ obj' = obj
     \/ /\ call[t].op \in ObjectCalls \cup Opens
        /\ \E n : /\ obj' = [ obj EXCEPT ![call[t].on] = n ]
                  /\ Kept(obj[call[t].on], n) \/ n = NoObject
  /\ OwnCall(t)'
  /\ call'[t].op \in Opens => call[t].op \in Opens

LEMMA QuietObjects ==
  ASSUME Inv, OwnInv, NEW t \in Threads, Quiet(t)
  PROVE  /\ \A o \in Objects : Kept(obj[o], obj'[o]) \/ obj'[o] = NoObject
         /\ \A o \in Objects : obj[o].owner # t => obj'[o] = obj[o]
<1>1. \A o \in Objects : Kept(obj[o], obj[o])
  BY DEF OwnInv, Kept
<1>2. CASE obj' = obj
  BY <1>1, <1>2
<1>3. ASSUME call[t].op \in ObjectCalls \cup Opens, NEW n,
             obj' = [ obj EXCEPT ![call[t].on] = n ],
             Kept(obj[call[t].on], n) \/ n = NoObject
      PROVE  /\ \A o \in Objects : Kept(obj[o], obj'[o]) \/ obj'[o] = NoObject
             /\ \A o \in Objects : obj[o].owner # t => obj'[o] = obj[o]
  <2>1. call[t].on \in Objects /\ obj[call[t].on].owner = t
    BY <1>3, Parts DEF OwnInv, OwnCall, Opens
  <2>2. obj'[call[t].on] = n /\ \A o \in Objects \ { call[t].on } : obj'[o] = obj[o]
    BY <1>3, <2>1, Parts
  <2> QED
    BY <1>1, <1>3, <2>1, <2>2
<1> QED
  BY <1>2, <1>3 DEF Quiet

\* The calls of the other threads are not concerned.
LEMMA OthersOwn ==
  ASSUME Inv, OwnInv, NEW t \in Threads,
         \A u \in Threads \ { t } : call'[u] = call[u],
         \A o \in Objects : obj[o].owner # t /\ obj[o].kind # "none" => obj'[o] = obj[o],
         OwnCall(t)', \A o \in Objects : Untimed(obj'[o])
  PROVE  OwnInv'
<1> SUFFICES ASSUME NEW u \in Threads, u # t, call[u].op \in ObjectCalls \cup Opens
             PROVE  OwnCall(u)'
  BY DEF OwnInv, OwnCall
<1>1. call'[u] = call[u] /\ call[u].on \in Objects
  BY Parts DEF Opens
<1>2. obj'[call[u].on] = obj[call[u].on]
  BY <1>1 DEF OwnInv, OwnCall
<1> QED
  BY <1>1, <1>2 DEF OwnInv, OwnCall

LEMMA QuietKeepsOwn ==
  ASSUME Inv, OwnInv, NEW t \in Threads, Quiet(t)
  PROVE  OwnInv'
<1>1. \A o \in Objects : Untimed(obj'[o])
  BY QuietObjects DEF Kept, NoObject, Untimed
<1> QED
  BY <1>1, QuietObjects, OthersOwn DEF Quiet

\* A step that moves t on in its call, or makes the call another.
LEMMA QuietMove ==
  ASSUME Inv, OwnInv, NEW t \in Threads, NEW r \in CallRecord,
         call' = [ call EXCEPT ![t] = r ], obj' = obj,
         \/ r.op \notin ObjectCalls \cup Opens
         \/ /\ r.op = call[t].op /\ r.on = call[t].on
            /\ r.op \in ObjectCalls /\ r.at \in Decided => obj[r.on].fs
  PROVE  Quiet(t)
<1>1. call'[t] = r /\ \A u \in Threads \ { t } : call'[u] = call[u]
  BY Parts
<1>2. OwnCall(t)'
  BY <1>1 DEF OwnInv, OwnCall
<1> QED
  BY <1>1, <1>2 DEF Quiet

LEMMA NoCall ==
  /\ \A r : Back(r).op \notin ObjectCalls \cup Opens
  /\ \A c \in VolumeCalls \cup LocalDirs \cup { "noVolume" } : c \notin ObjectCalls \cup Opens
  /\ \A c \in ObjectCalls : c \notin Opens
BY DEF Back, ObjectCalls, Opens, Methods, FileCalls, Destructors, VolumeCalls, LocalDirs

LEMMA LockStepIsQuiet ==
  ASSUME Inv, OwnInv, NEW t \in Threads, LockStep(t), call' # call
  PROVE  Quiet(t)
<1>1. PICK p \in Points :
        /\ Goes(t, p) /\ obj' = obj
        /\ p \in Decided => ~NullFileSystem(t) \/ call[t].at \in Decided
  BY DEF LockStep, LockTake, LockBlock, LockTimeout, LockDecide, LockDecideLate, LockNull,
         Asking, At, Points, Decided
<1> DEFINE r == [ call[t] EXCEPT !.at = p ]
<1>2. /\ r \in CallRecord /\ r.op = call[t].op /\ r.on = call[t].on /\ r.at = p
      /\ call' = [ call EXCEPT ![t] = r ]
  BY <1>1, Parts DEF CallRecord, Goes
<1> HIDE DEF r
<1>3. r.op \in ObjectCalls /\ r.at \in Decided => obj[r.on].fs
  BY <1>1, <1>2 DEF NullFileSystem, OwnInv, OwnCall
<1> QED
  BY <1>1, <1>2, <1>3, QuietMove

\* A call on an object ends, or the destructor goes on; the object is left as n.
LEMMA QuietEnd ==
  ASSUME Inv, OwnInv, NEW t \in Threads, call[t].op \in ObjectCalls \cup Opens, NEW n,
         obj' = [ obj EXCEPT ![call[t].on] = n ], NEW r,
         call' = [ call EXCEPT ![t] = r ],
         \/ r.op \notin ObjectCalls \cup Opens /\ (Kept(obj[call[t].on], n) \/ n = NoObject)
         \/ r.op = "close" /\ r.on = call[t].on /\ r.at = "take" /\ Kept(obj[call[t].on], n)
  PROVE  Quiet(t)
<1>1. call[t].on \in Objects /\ obj[call[t].on].owner = t /\ obj[call[t].on].kind # "none"
  BY Parts DEF OwnInv, OwnCall, Opens
<1>2. call'[t] = r /\ obj'[call[t].on] = n /\ \A u \in Threads \ { t } : call'[u] = call[u]
  BY <1>1, Parts
<1>3. "close" \in ObjectCalls /\ "close" \notin Opens
  BY DEF ObjectCalls, Destructors, Opens
<1>4. OwnCall(t)'
  BY <1>1, <1>2, <1>3 DEF OwnCall, Kept, Opens, Decided
<1>5. call'[t].op \notin Opens
  BY <1>2, <1>3
<1> QED
  BY <1>2, <1>4, <1>5 DEF Quiet

LEMMA AfterSyncIsQuiet ==
  ASSUME Inv, OwnInv, NEW t \in Threads, call[t].op = "closeSync",
         NEW s, Kept(obj[call[t].on], s), AfterSync(t, s)
  PROVE  Quiet(t)
<1>1. call[t].op \in ObjectCalls
  BY DEF ObjectCalls, Destructors
<1>2. CASE s.result = "OK"
  BY <1>1, <1>2, QuietEnd DEF AfterSync, Enters
<1>3. CASE s.result # "OK"
  BY <1>1, <1>3, NoCall, QuietEnd DEF AfterSync, Returns
<1> QED
  BY <1>2, <1>3

LEMMA FinishIsQuiet ==
  ASSUME Inv, OwnInv, NEW t \in Threads, call[t].op \in Methods,
         NEW m, Kept(obj[call[t].on], m.object), Finish(t, m)
  PROVE  Quiet(t)
BY NoCall, QuietEnd DEF Finish, Returns, ObjectCalls

\* A destructor is done.
LEMMA DestructorIsQuiet ==
  ASSUME Inv, OwnInv, NEW t \in Threads, call[t].op \in { "localDir", "close", "closeDir" },
         obj' = AfterDestructor(t), Returns(t, call[t].result)
  PROVE  Quiet(t)
<1>1. CASE call[t].op = "localDir"
  BY <1>1, Parts, RecordTypes, NoCall, QuietMove DEF AfterDestructor, Returns, CallRecord
<1>2. CASE call[t].op # "localDir"
  <2>1. call[t].op \in ObjectCalls
    BY <1>2 DEF ObjectCalls, Destructors
  <2> QED
    BY <1>2, <2>1, NoCall, QuietEnd DEF AfterDestructor, Returns
<1> QED
  BY <1>1, <1>2

\* An object that could not be opened.
LEMMA TimedOutIsKept ==
  ASSUME Inv, OwnInv, NEW t \in Threads, call[t].op \in Opens
  PROVE  /\ [ obj EXCEPT ![call[t].on].result = "TIMEOUT" ]
              = [ obj EXCEPT ![call[t].on] = [ @ EXCEPT !.result = "TIMEOUT" ] ]
         /\ Kept(obj[call[t].on], [ obj[call[t].on] EXCEPT !.result = "TIMEOUT" ])
<1>1. obj[call[t].on] \in Object /\ ~obj[call[t].on].fs
  BY Parts DEF OwnInv, OwnCall, Opens
<1> QED
  BY <1>1 DEF Kept, Object, Untimed

LEMMA FailStepIsQuiet ==
  ASSUME Inv, OwnInv, NEW t \in Threads, FailStep(t)
  PROVE  Quiet(t)
<1>1. "TIMEOUT" \in Results
  BY DEF Results
<1>2. CASE OpenFails(t)
  <2>1. /\ call[t].op \in Opens
        /\ call' = [ call EXCEPT ![t] = [ at |-> "take", op |-> "nullDir", on |-> None,
                                          result |-> "TIMEOUT" ] ]
        /\ obj' = [ obj EXCEPT ![call[t].on].result = "TIMEOUT" ]
    BY <1>2 DEF OpenFails, Failed, LeaveLocalDir, Opens
  <2> QED
    BY <2>1, NoCall, TimedOutIsKept, QuietEnd DEF LocalDirs
<1>3. CASE OpenDirFails(t)
  <2>1. /\ call[t].op \in Opens /\ call' = [ call EXCEPT ![t] = Back("TIMEOUT") ]
        /\ obj' = [ obj EXCEPT ![call[t].on].result = "TIMEOUT" ]
    BY <1>3 DEF OpenDirFails, Failed, Returns, Opens
  <2> QED
    BY <2>1, NoCall, TimedOutIsKept, QuietEnd
<1>4. CASE VolumeFails(t)
  <2> DEFINE r == [ call[t] EXCEPT !.at = "leave", !.op = "noVolume", !.result = "TIMEOUT" ]
  <2>1. r \in CallRecord /\ r.op = "noVolume"
    BY <1>1, Parts DEF CallRecord, Points, Calls
  <2>2. call' = [ call EXCEPT ![t] = r ] /\ obj' = obj
    BY <1>4, Parts DEF VolumeFails
  <2> HIDE DEF r
  <2> QED
    BY <2>1, <2>2, NoCall, QuietMove
<1>5. CASE InnerDirFails(t)
  <2> DEFINE r == [ call[t] EXCEPT !.at = "leave", !.op = "nested" ]
  <2>1. r \in CallRecord /\ r.op \in VolumeCalls
    BY Parts DEF CallRecord, Points, Calls, VolumeCalls
  <2>2. call' = [ call EXCEPT ![t] = r ] /\ obj' = obj
    BY <1>5, Parts DEF InnerDirFails
  <2> HIDE DEF r
  <2> QED
    BY <2>1, <2>2, NoCall, QuietMove
<1>6. CASE MethodFails(t)
  <2>1. call[t].op \in Methods /\ obj[call[t].on] \in Object /\ Untimed(obj[call[t].on])
    BY <1>6, Parts DEF MethodFails, Failed, ObjectCalls, OwnInv
  <2>2. PICK m \in FailedOutcomes(call[t].op, obj[call[t].on]) : Finish(t, m)
    BY <1>6 DEF MethodFails
  <2> QED
    BY <2>1, <2>2, MethodKeeps, FinishIsQuiet
<1>7. CASE CloseSyncFails(t)
  <2>1. call[t].op = "closeSync" /\ Kept(obj[call[t].on], obj[call[t].on])
    BY <1>7, Parts DEF CloseSyncFails, Failed, ObjectCalls, Destructors, OwnInv, Kept
  <2> QED
    BY <1>7, <2>1, AfterSyncIsQuiet DEF CloseSyncFails
<1>8. CASE DestructorFails(t)
  BY <1>8, DestructorIsQuiet DEF DestructorFails, Failed
<1> QED
  BY <1>2, <1>3, <1>4, <1>5, <1>6, <1>7, <1>8 DEF FailStep

LEMMA BodyIsQuiet ==
  ASSUME Inv, OwnInv, NEW t \in Threads,
         \/ VolumeBody(t) \/ VolumeLeave(t) \/ VolumeReturn(t)
         \/ MethodBody(t) \/ CloseSyncBody(t) \/ DestructorBody(t)
  PROVE  Quiet(t)
<1>1. CASE VolumeBody(t)
  <2>1. /\ call[t] \in CallRecord /\ call[t].op \in VolumeCalls /\ obj' = obj
        /\ \E v \in FindVolume, fine \in Outcomes("diskError") :
             LET result == IF v.result = "OK" /\ ~fine THEN "DISK_ERR" ELSE v.result
             IN call' = [ call EXCEPT ![t] =
                  IF call[t].op = "nested" /\ v.result = "OK"
                    THEN [ @ EXCEPT !.at = "take", !.op = "innerDir", !.result = result ]
                    ELSE [ @ EXCEPT !.at = "leave", !.result = result ] ]
    BY <1>1, Parts DEF VolumeBody, Inside
  <2>2. /\ call'[t].op \in VolumeCalls \cup { "innerDir" }
        /\ \A u \in Threads \ { t } : call'[u] = call[u]
    <3>1. PICK x :
            \/ call' = [ call EXCEPT ![t] = [ @ EXCEPT !.at = "take", !.op = "innerDir", !.result = x ] ]
            \/ call' = [ call EXCEPT ![t] = [ @ EXCEPT !.at = "leave", !.result = x ] ]
      BY <2>1
    <3> QED
      BY <2>1, <3>1, Parts DEF CallRecord
  <2>3. call'[t].op \notin ObjectCalls \cup Opens
    BY <2>2, NoCall DEF LocalDirs
  <2> QED
    BY <2>1, <2>2, <2>3 DEF Quiet, OwnCall
<1>2. CASE VolumeLeave(t)
  <2>1. /\ \A u \in Threads \ { t } : call'[u] = call[u]
        /\ call'[t].op = call[t].op /\ obj' = obj
    BY <1>2, Parts DEF VolumeLeave, Goes, CallRecord
  <2>2. call'[t].op \notin ObjectCalls \cup Opens
    BY <1>2, <2>1, NoCall DEF VolumeLeave
  <2> QED
    BY <2>1, <2>2 DEF Quiet, OwnCall
<1>3. CASE VolumeReturn(t)
  <2>1. /\ \A u \in Threads \ { t } : call'[u] = call[u]
        /\ call'[t].op \in LocalDirs /\ obj' = obj
    BY <1>3, Parts DEF VolumeReturn, LeaveLocalDir, LocalDirs
  <2>2. call'[t].op \notin ObjectCalls \cup Opens
    BY <2>1, NoCall
  <2> QED
    BY <2>1, <2>2 DEF Quiet, OwnCall
<1>4. CASE MethodBody(t)
  <2>1. call[t].op \in Methods /\ obj[call[t].on] \in Object /\ Untimed(obj[call[t].on])
    BY <1>4, Parts DEF MethodBody, Inside, ObjectCalls, OwnInv
  <2>2. PICK m \in MethodOutcomes(call[t].op, obj[call[t].on]) : Finish(t, m)
    BY <1>4 DEF MethodBody
  <2> QED
    BY <2>1, <2>2, MethodKeeps, FinishIsQuiet
<1>5. CASE CloseSyncBody(t)
  <2>1. call[t].op = "closeSync" /\ obj[call[t].on] \in Object /\ Untimed(obj[call[t].on])
    BY <1>5, Parts DEF CloseSyncBody, Inside, ObjectCalls, Destructors, OwnInv
  <2>2. PICK s \in SyncOutcomes(obj[call[t].on]) : AfterSync(t, s)
    BY <1>5 DEF CloseSyncBody
  <2> QED
    BY <2>1, <2>2, SyncKeeps, AfterSyncIsQuiet
<1>6. CASE DestructorBody(t)
  BY <1>6, DestructorIsQuiet DEF DestructorBody, Inside
<1> QED
  BY <1>1, <1>2, <1>3, <1>4, <1>5, <1>6

\* A method is called on an object that has opened, a destructor on any.
LEMMA CallIsQuiet ==
  ASSUME Inv, OwnInv, NEW t \in Threads, NEW c, NEW o,
         Call(t, c, o) \/ (c \in VolumeCalls /\ CallVolume(t, c))
  PROVE  Quiet(t)
<1>1. CASE Call(t, c, o)
  <2>1. /\ \A u \in Threads \ { t } : call'[u] = call[u]
        /\ call'[t] = [ at |-> "take", op |-> c, on |-> o, result |-> "UNUSED" ] /\ obj' = obj
    BY <1>1, Parts DEF Call, Enters
  <2>2. obj[o].owner = t /\ obj[o].kind # "none" /\ c \notin Opens
    BY <1>1 DEF Call, FileCalls, Opens
  <2> QED
    BY <2>1, <2>2 DEF Quiet, OwnCall, Opens, Decided
<1>2. CASE c \in VolumeCalls /\ CallVolume(t, c)
  <2>1. /\ \A u \in Threads \ { t } : call'[u] = call[u]
        /\ call'[t].op = c /\ obj' = obj
    BY <1>2, Parts DEF CallVolume, Enters
  <2> QED
    BY <1>2, <2>1, NoCall DEF Quiet, OwnCall
<1> QED
  BY <1>1, <1>2

-----------------------------------------------------------------------------
(* The table and the objects that are open. *)

\* The tasks and objects are finitely many, and so few files are open at a time that
\* the count of readers does not reach the mark of a writer.
FewOpens ==
  /\ IsFiniteSet(Threads) /\ IsFiniteSet(Objects)
  /\ MaxCtr + Cardinality(Threads) < WriteOpen

\* The card that was mounted stays ready.
StaysMounted == "notReady" \notin Faults

\* The threads that open an object.
Opening == { t \in Threads : call[t].op \in Opens }

\* An entry is blank or counts somebody, there is one for a file, and a writer's is a
\* file's; nothing is open on a volume that is not mounted.
SlotsInv ==
  /\ \A i \in LockIds : slots[i].key = None <=> slots[i].ctr = 0
  /\ \A i, j \in LockIds : slots[i].key = slots[j].key /\ slots[i].key # None => i = j
  /\ \A i \in LockIds : slots[i].ctr = WriteOpen => slots[i].key \in Files
  /\ ~mounted => \A i \in LockIds : slots[i] = BlankSlot

\* An object that has an entry has its key.
ObjectsInv ==
  \A o \in Objects :
    /\ obj[o].lockId = 0 <=> obj[o].key = None
    /\ obj[o].lockId # 0 => obj[o].key = slots[obj[o].lockId].key
    /\ obj[o].write => obj[o].lockId # 0 /\ slots[obj[o].lockId].ctr = WriteOpen
    /\ obj[o].kind = "dir" => ~obj[o].write

\* An entry counts the objects it is open in, one if that writes, and what threads
\* still open does not bring its count to the mark of a writer.
CountInv ==
  \A i \in LockIds :
    /\ Cardinality(Opened(i)) <= slots[i].ctr
    /\ slots[i].ctr = WriteOpen => \A o, p \in Opened(i) : o = p
    /\ slots[i].ctr # WriteOpen =>
         slots[i].ctr + Cardinality(Opening) <= MaxCtr + Cardinality(Threads)

TableInv == SlotsInv /\ ObjectsInv /\ CountInv

LEMMA FiniteSets ==
  ASSUME FewOpens
  PROVE  /\ \A S : S \subseteq Objects => IsFiniteSet(S) /\ Cardinality(S) \in Nat
         /\ \A S : S \subseteq Threads =>
              IsFiniteSet(S) /\ Cardinality(S) \in Nat /\ Cardinality(S) <= Cardinality(Threads)
         /\ Cardinality(Threads) \in Nat /\ MaxCtr \in Nat
<1>1. IsFiniteSet(Objects) /\ IsFiniteSet(Threads)
  BY DEF FewOpens
<1>2. ASSUME NEW S, S \subseteq Objects
      PROVE  IsFiniteSet(S) /\ Cardinality(S) \in Nat
  BY <1>1, <1>2, FS_Subset, FS_CardinalityType
<1>3. ASSUME NEW S, S \subseteq Threads
      PROVE  IsFiniteSet(S) /\ Cardinality(S) \in Nat /\ Cardinality(S) <= Cardinality(Threads)
  BY <1>1, <1>3, FS_Subset, FS_CardinalityType
<1>4. Cardinality(Threads) \in Nat /\ MaxCtr \in Nat
  BY <1>1, FS_CardinalityType, LockAssumption
<1> QED
  BY <1>2, <1>3, <1>4

LEMMA FewerObjects ==
  ASSUME FewOpens, NEW S, S \subseteq Objects, NEW T, T \subseteq S
  PROVE  Cardinality(T) <= Cardinality(S)
BY FiniteSets, FS_Subset

LEMMA FewerThreads ==
  ASSUME FewOpens, NEW S, S \subseteq Threads, NEW T, T \subseteq S
  PROVE  Cardinality(T) <= Cardinality(S)
BY FiniteSets, FS_Subset

\* A volume that stays mounted keeps its table.
LEMMA FindVolumeKeeps ==
  ASSUME Inv, SlotsInv, StaysMounted, NEW v \in FindVolume
  PROVE  /\ v.slots = slots /\ (mounted => v.mounted /\ v.result = "OK")
         /\ v.result = "OK" => v.mounted
         /\ v.result \in { "OK", "DISK_ERR" }
<1>1. CASE mounted
  BY <1>1 DEF FindVolume, StaysMounted, Volume
<1>2. CASE ~mounted
  <2>1. ClearFileLock(slots) = slots
    <3>1. \A i \in LockIds : [ slots[i] EXCEPT !.key = None ] = slots[i]
      BY <1>2 DEF SlotsInv, BlankSlot
    <3> QED
      BY <3>1 DEF ClearFileLock, Inv, TypeOK
  <2> QED
    BY <1>2, <2>1 DEF FindVolume, StaysMounted, Volume
<1> QED
  BY <1>1, <1>2

\* Nothing is opened, perhaps an object goes, and the table is left alone.
LEMMA QuietTable ==
  ASSUME Inv, Inv', OwnInv, TableInv, FewOpens, NEW t \in Threads, Quiet(t),
         slots' = slots, mounted => mounted'
  PROVE  TableInv'
<1>1. \A o \in Objects : Kept(obj[o], obj'[o]) \/ obj'[o] = NoObject
  BY QuietObjects
<1>2. SlotsInv'
  BY DEF TableInv, SlotsInv
<1>3. ObjectsInv'
  BY <1>1 DEF TableInv, ObjectsInv, Kept, NoObject
<1>4. \A i \in LockIds : Opened(i)' \subseteq Opened(i) /\ Opened(i) \subseteq Objects
  BY <1>1, LockAssumption DEF Opened, Kept, NoObject, LockIds
<1>5. Opening' \subseteq Opening /\ Opening \subseteq Threads
  BY DEF Quiet, Opening
<1>6. CountInv'
  <2> SUFFICES ASSUME NEW i \in LockIds
               PROVE  /\ Cardinality(Opened(i)') <= slots[i].ctr
                      /\ slots[i].ctr = WriteOpen => \A o, p \in Opened(i)' : o = p
                      /\ slots[i].ctr # WriteOpen =>
                           slots[i].ctr + Cardinality(Opening') <= MaxCtr + Cardinality(Threads)
    BY DEF CountInv
  <2>1. /\ Cardinality(Opened(i)) <= slots[i].ctr
        /\ slots[i].ctr = WriteOpen => \A o, p \in Opened(i) : o = p
        /\ slots[i].ctr # WriteOpen =>
             slots[i].ctr + Cardinality(Opening) <= MaxCtr + Cardinality(Threads)
    BY DEF TableInv, CountInv
  <2>2. /\ Cardinality(Opened(i)') <= Cardinality(Opened(i)) /\ Cardinality(Opened(i)') \in Nat
        /\ Cardinality(Opened(i)) \in Nat
    BY <1>4, FewerObjects, FiniteSets
  <2>3. /\ Cardinality(Opening') <= Cardinality(Opening) /\ Cardinality(Opening') \in Nat
        /\ Cardinality(Opening) \in Nat
    BY <1>5, FewerThreads, FiniteSets
  <2>4. slots[i].ctr \in Nat
    BY Parts DEF SlotTable
  <2> QED
    BY <1>4, <2>1, <2>2, <2>3, <2>4, FiniteSets
<1> QED
  BY <1>2, <1>3, <1>6 DEF TableInv

\* A new object.
LEMMA ConstructEffect ==
  ASSUME Inv, OwnInv, NEW t \in Threads, NEW o \in Objects, NEW c \in Opens, Construct(t, c, o)
  PROVE  /\ OwnInv'
         /\ \A p \in Objects \ { o } : obj'[p] = obj[p]
         /\ obj'[o].lockId = 0 /\ obj'[o].key = None /\ ~obj'[o].write
<1> DEFINE kind == IF c = "open" THEN "file" ELSE "dir"
           n == [ NoObject EXCEPT !.kind = kind, !.owner = t ]
<1>1. /\ n.kind = kind /\ n.owner = t /\ ~n.fs /\ n.lockId = 0 /\ n.key = None /\ ~n.write
      /\ n.result = "UNUSED"
  BY DEF NoObject
<1>2. obj' = [ obj EXCEPT ![o] = n ] /\ obj[o].kind = "none"
  BY DEF Construct
<1> HIDE DEF n
<1>3. obj'[o] = n /\ \A p \in Objects \ { o } : obj'[p] = obj[p]
  BY <1>2, Parts
<1>4. /\ \A u \in Threads \ { t } : call'[u] = call[u]
      /\ call'[t] = [ at |-> "take", op |-> c, on |-> o, result |-> "UNUSED" ]
  BY Parts DEF Construct, Enters
<1>5. OwnCall(t)'
  BY <1>1, <1>3, <1>4, NoCall DEF OwnCall, Opens
<1>6. \A p \in Objects : Untimed(obj'[p])
  BY <1>1, <1>3 DEF OwnInv, Untimed
<1>7. \A p \in Objects : obj[p].owner # t /\ obj[p].kind # "none" => obj'[p] = obj[p]
  BY <1>2, <1>3
<1>8. OwnInv'
  BY <1>4, <1>5, <1>6, <1>7, OthersOwn
<1> QED
  BY <1>1, <1>3, <1>8

\* Object o has no entry after the step, and the table is left alone.
LEMMA NoEntryTable ==
  ASSUME Inv, Inv', TableInv, FewOpens, NEW o \in Objects,
         \A p \in Objects \ { o } : obj'[p] = obj[p],
         obj'[o].lockId = 0, obj'[o].key = None, ~obj'[o].write,
         slots' = slots, mounted => mounted',
         \A i \in LockIds : slots[i].ctr # WriteOpen =>
           slots[i].ctr + Cardinality(Opening') <= MaxCtr + Cardinality(Threads)
  PROVE  TableInv'
<1>1. SlotsInv'
  BY DEF TableInv, SlotsInv
<1>2. ObjectsInv'
  BY DEF TableInv, ObjectsInv
<1>3. \A i \in LockIds : Opened(i)' \subseteq Opened(i) /\ Opened(i) \subseteq Objects
  BY LockAssumption DEF Opened, LockIds
<1>4. CountInv'
  <2> SUFFICES ASSUME NEW i \in LockIds
               PROVE  /\ Cardinality(Opened(i)') <= slots[i].ctr
                      /\ slots[i].ctr = WriteOpen => \A x, y \in Opened(i)' : x = y
    BY DEF CountInv
  <2>1. /\ Cardinality(Opened(i)) <= slots[i].ctr
        /\ slots[i].ctr = WriteOpen => \A x, y \in Opened(i) : x = y
    BY DEF TableInv, CountInv
  <2>2. /\ Cardinality(Opened(i)') <= Cardinality(Opened(i)) /\ Cardinality(Opened(i)') \in Nat
        /\ Cardinality(Opened(i)) \in Nat
    BY <1>3, FewerObjects, FiniteSets
  <2>3. slots[i].ctr \in Nat
    BY Parts DEF SlotTable, Inv, TypeOK
  <2> QED
    BY <1>3, <2>1, <2>2, <2>3
<1> QED
  BY <1>1, <1>2, <1>4 DEF TableInv

LEMMA ConstructTable ==
  ASSUME Inv, Inv', OwnInv, TableInv, FewOpens,
         NEW t \in Threads, NEW o \in Objects, NEW c \in Opens, Construct(t, c, o)
  PROVE  TableInv'
<1>1. /\ \A p \in Objects \ { o } : obj'[p] = obj[p]
      /\ obj'[o].lockId = 0 /\ obj'[o].key = None /\ ~obj'[o].write
  BY ConstructEffect
<1>2. /\ slots' = slots /\ mounted' = mounted
      /\ \A i \in LockIds : slots[i].ctr = WriteOpen \/ slots[i].ctr <= MaxCtr
  BY DEF Construct
<1>3. \A i \in LockIds : slots[i].ctr # WriteOpen =>
        slots[i].ctr + Cardinality(Opening') <= MaxCtr + Cardinality(Threads)
  <2>1. Cardinality(Opening') <= Cardinality(Threads) /\ Cardinality(Opening') \in Nat
    <3>1. Opening' \subseteq Threads
      BY DEF Opening
    <3> QED
      BY <3>1, FiniteSets
  <2>2. \A i \in LockIds : slots[i].ctr \in Nat
    BY Parts DEF SlotTable
  <2> QED
    BY <1>2, <2>1, <2>2, FiniteSets
<1> QED
  BY <1>1, <1>2, <1>3, NoEntryTable

-----------------------------------------------------------------------------
(* An object is registered in the table, and released. *)

\* Where incFileLock puts a key: in its own entry, which it may not write if it is open,
\* or in a blank one when it has none.
LEMMA FileLockIdFacts ==
  ASSUME NEW s \in SlotTable, NEW k \in Keys \ { None }, NEW w \in BOOLEAN, FileLockId(s, k, w) # 0
  PROVE  LET i == FileLockId(s, k, w)
         IN /\ i \in LockIds
            /\ \/ s[i].key = k /\ (w => s[i].ctr = 0)
                  /\ (CheckFileLock(s, k, w) = "OK" => s[i].ctr # WriteOpen)
               \/ s[i].key = None /\ \A j \in LockIds : s[j].key # k
<1>1. SlotsOf(s, k) \subseteq LockIds /\ SlotsOf(s, None) \subseteq LockIds
  BY DEF SlotsOf
<1>2. CASE SlotsOf(s, k) # {}
  <2>1. LowestOf(SlotsOf(s, k)) \in SlotsOf(s, k)
    BY <1>1, <1>2, LowestIsMember
  <2>2. FileLockId(s, k, w) = LowestOf(SlotsOf(s, k)) /\ (w => s[LowestOf(SlotsOf(s, k))].ctr = 0)
    BY <1>2 DEF FileLockId
  <2>3. CheckFileLock(s, k, w) = "OK" => s[LowestOf(SlotsOf(s, k))].ctr # WriteOpen
    BY <1>2 DEF CheckFileLock
  <2> QED
    BY <1>1, <2>1, <2>2, <2>3 DEF SlotsOf
<1>3. CASE SlotsOf(s, k) = {}
  <2>1. SlotsOf(s, None) # {} /\ FileLockId(s, k, w) = LowestOf(SlotsOf(s, None))
    BY <1>3 DEF FileLockId
  <2>2. LowestOf(SlotsOf(s, None)) \in SlotsOf(s, None)
    BY <1>1, <2>1, LowestIsMember
  <2>3. \A j \in LockIds : s[j].key # k
    BY <1>3 DEF SlotsOf
  <2> QED
    BY <1>1, <2>1, <2>2, <2>3 DEF SlotsOf
<1> QED
  BY <1>2, <1>3

\* Entry id now names k and counts m more; object x of the key has it.
Registers(t, x, id, k, w) ==
  /\ id \in LockIds /\ k \in Keys \ { None } /\ (w => k \in Files)
  /\ \/ slots[id].key = k /\ slots[id].ctr # WriteOpen /\ ~w
     \/ slots[id].key = None /\ \A j \in LockIds : slots[j].key # k
  /\ slots' = [ slots EXCEPT ![id] = [ key |-> k, ctr |-> IF w THEN WriteOpen ELSE slots[id].ctr + 1 ] ]
  /\ \A o \in Objects \ { x } : obj'[o] = obj[o]
  /\ x \in Objects /\ obj[x].lockId = 0 /\ (obj[x].kind = "dir" => ~w)
  /\ obj'[x].lockId = id /\ obj'[x].key = k /\ obj'[x].write = w /\ obj'[x].kind = obj[x].kind
  /\ mounted'
  /\ call[t].op \in Opens /\ call'[t].op \notin Opens
  /\ \A u \in Threads \ { t } : call'[u] = call[u]

LEMMA RegisterTable ==
  ASSUME Inv, Inv', TableInv, FewOpens, NEW t \in Threads, NEW x, NEW id, NEW k, NEW w \in BOOLEAN,
         Registers(t, x, id, k, w)
  PROVE  TableInv'
<1> DEFINE m == IF w THEN WriteOpen ELSE slots[id].ctr + 1
<1>1. /\ id \in LockIds /\ id # 0 /\ k \in Keys \ { None } /\ (w => k \in Files)
      /\ x \in Objects /\ obj[x].lockId = 0
  BY LockAssumption DEF Registers, LockIds
<1>2. /\ slots'[id].key = k /\ slots'[id].ctr = m
      /\ \A i \in LockIds \ { id } : slots'[i] = slots[i]
  BY <1>1, Parts DEF Registers, SlotTable
<1>3. slots[id].ctr \in Nat /\ slots'[id].ctr \in Nat
  BY <1>1, Parts DEF SlotTable, Inv, TypeOK
<1>4. slots[id].key = None <=> slots[id].ctr = 0
  BY <1>1 DEF TableInv, SlotsInv
<1>5. /\ \A i \in LockIds \ { id } : Opened(i)' = Opened(i)
      /\ Opened(id)' = Opened(id) \cup { x } /\ x \notin Opened(id)
      /\ \A i \in LockIds : Opened(i) \subseteq Objects
  BY <1>1, LockAssumption DEF Registers, Opened, LockIds
<1>6. slots[id].key = None => Opened(id) = {}
  BY <1>1 DEF TableInv, ObjectsInv, Opened
<1>7. /\ Opening' = Opening \ { t } /\ t \in Opening /\ Opening \subseteq Threads
  BY DEF Registers, Opening
<1>8. /\ Cardinality(Opening') = Cardinality(Opening) - 1
      /\ Cardinality(Opening) \in Nat \ {0} /\ Cardinality(Opening') \in Nat
      /\ Cardinality(Opening) <= Cardinality(Threads)
  <2>1. IsFiniteSet(Opening) /\ Cardinality(Opening) \in Nat /\ Cardinality(Opening) <= Cardinality(Threads)
    BY <1>7, FiniteSets
  <2>2. Cardinality(Opening \ { t }) = Cardinality(Opening) - 1
    BY <1>7, <2>1, FS_RemoveElement
  <2>3. Cardinality(Opening) # 0
    BY <1>7, <2>1, FS_EmptySet
  <2> QED
    BY <1>7, <2>1, <2>2, <2>3
<1>9. /\ slots[id].ctr # WriteOpen
      /\ slots[id].ctr + Cardinality(Opening) <= MaxCtr + Cardinality(Threads)
  <2>1. slots[id].ctr # WriteOpen
    BY <1>4 DEF Registers, WriteOpen
  <2> QED
    BY <1>1, <2>1 DEF TableInv, CountInv
<1>10. slots[id].ctr + 1 < WriteOpen
  BY <1>3, <1>8, <1>9, FiniteSets DEF FewOpens, WriteOpen
<1>11. m # 0 /\ (m = WriteOpen => w)
  BY <1>3, <1>10 DEF WriteOpen
<1>12. SlotsInv'
  <2>1. \A i \in LockIds : slots'[i].key = None <=> slots'[i].ctr = 0
    BY <1>1, <1>2, <1>11 DEF TableInv, SlotsInv
  <2>2. \A i \in LockIds \ { id } : slots[i].key # k
    BY <1>1 DEF Registers, TableInv, SlotsInv
  <2>3. \A i, j \in LockIds : slots'[i].key = slots'[j].key /\ slots'[i].key # None => i = j
    BY <1>2, <2>2 DEF TableInv, SlotsInv
  <2>4. \A i \in LockIds : slots'[i].ctr = WriteOpen => slots'[i].key \in Files
    BY <1>1, <1>2, <1>11 DEF TableInv, SlotsInv
  <2> QED
    BY <2>1, <2>3, <2>4 DEF SlotsInv, Registers
<1>13. ObjectsInv'
  <2> SUFFICES ASSUME NEW o \in Objects
               PROVE  /\ obj'[o].lockId = 0 <=> obj'[o].key = None
                      /\ obj'[o].lockId # 0 => obj'[o].key = slots'[obj'[o].lockId].key
                      /\ obj'[o].write => obj'[o].lockId # 0 /\ slots'[obj'[o].lockId].ctr = WriteOpen
                      /\ obj'[o].kind = "dir" => ~obj'[o].write
    BY DEF ObjectsInv
  <2>1. CASE o = x
    BY <1>1, <1>2, <2>1 DEF Registers
  <2>2. CASE o # x
    <3>1. obj'[o] = obj[o]
      BY <2>2 DEF Registers
    <3>2. CASE obj[o].lockId = id
      <4>1. slots[id].key = k
        BY <1>1, <1>6, <3>2 DEF Opened, Registers
      <4>2. ~obj[o].write
        BY <1>1, <1>9, <3>2 DEF TableInv, ObjectsInv
      <4> QED
        BY <1>1, <1>2, <3>1, <3>2, <4>1, <4>2 DEF TableInv, ObjectsInv
    <3>3. CASE obj[o].lockId # id
      <4>1. obj[o].lockId # 0 => obj[o].lockId \in LockIds \ { id }
        BY <3>3, Parts, LockAssumption DEF Object, LockIds
      <4> QED
        BY <1>2, <3>1, <4>1 DEF TableInv, ObjectsInv
    <3> QED
      BY <3>2, <3>3
  <2> QED
    BY <2>1, <2>2
<1>14. CountInv'
  <2> SUFFICES ASSUME NEW i \in LockIds
               PROVE  /\ Cardinality(Opened(i)') <= slots'[i].ctr
                      /\ slots'[i].ctr = WriteOpen => \A o, p \in Opened(i)' : o = p
                      /\ slots'[i].ctr # WriteOpen =>
                           slots'[i].ctr + Cardinality(Opening') <= MaxCtr + Cardinality(Threads)
    BY DEF CountInv
  <2>1. CASE i # id
    <3>1. /\ Cardinality(Opened(i)) <= slots[i].ctr
          /\ slots[i].ctr = WriteOpen => \A o, p \in Opened(i) : o = p
          /\ slots[i].ctr # WriteOpen =>
               slots[i].ctr + Cardinality(Opening) <= MaxCtr + Cardinality(Threads)
      BY DEF TableInv, CountInv
    <3>2. slots'[i] = slots[i] /\ Opened(i)' = Opened(i) /\ slots[i].ctr \in Nat
      BY <1>2, <1>5, <2>1, Parts DEF SlotTable
    <3> QED
      BY <1>8, <3>1, <3>2, FiniteSets
  <2>2. CASE i = id
    <3>1. /\ IsFiniteSet(Opened(id)) /\ Cardinality(Opened(id)) \in Nat
          /\ Cardinality(Opened(id)') = Cardinality(Opened(id)) + 1
      BY <1>1, <1>5, FiniteSets, FS_AddElement
    <3>2. Cardinality(Opened(id)) <= slots[id].ctr
      BY <1>1 DEF TableInv, CountInv
    <3>3. CASE w
      <4>1. Opened(id) = {} /\ m = WriteOpen
        BY <1>6, <3>3 DEF Registers
      <4>2. Cardinality(Opened(id)') = 1
        BY <3>1, <4>1, FS_EmptySet
      <4> QED
        BY <1>2, <1>5, <2>2, <4>1, <4>2 DEF WriteOpen
    <3>4. CASE ~w
      <4>1. slots'[id].ctr = slots[id].ctr + 1
        BY <1>2, <3>4
      <4> QED
        BY <1>3, <1>8, <1>9, <1>10, <2>2, <3>1, <3>2, <4>1, FiniteSets
    <3> QED
      BY <3>3, <3>4
  <2> QED
    BY <2>1, <2>2
<1> QED
  BY <1>12, <1>13, <1>14 DEF TableInv

\* The thread is done with opening.
LEMMA OpenedTable ==
  ASSUME Inv, Inv', TableInv, FewOpens, NEW t \in Threads, NEW o \in Objects,
         \A p \in Objects \ { o } : obj'[p] = obj[p],
         obj'[o].lockId = 0, obj'[o].key = None, ~obj'[o].write,
         slots' = slots, mounted => mounted',
         \A u \in Threads \ { t } : call'[u] = call[u], call'[t].op \notin Opens
  PROVE  TableInv'
<1>1. \A i \in LockIds : slots[i].ctr # WriteOpen =>
        slots[i].ctr + Cardinality(Opening') <= MaxCtr + Cardinality(Threads)
  <2>1. Opening' \subseteq Opening /\ Opening \subseteq Threads
    BY DEF Opening
  <2>2. /\ Cardinality(Opening') <= Cardinality(Opening) /\ Cardinality(Opening') \in Nat
        /\ Cardinality(Opening) \in Nat
    BY <2>1, FewerThreads, FiniteSets
  <2>3. \A i \in LockIds : slots[i].ctr \in Nat
    BY Parts DEF SlotTable, Inv, TypeOK
  <2>4. \A i \in LockIds : slots[i].ctr # WriteOpen =>
          slots[i].ctr + Cardinality(Opening) <= MaxCtr + Cardinality(Threads)
    BY DEF TableInv, CountInv
  <2> QED
    BY <2>2, <2>3, <2>4, FiniteSets
<1> QED
  BY <1>1, NoEntryTable

\* What a constructor does to its object and its call, and to nobody else's.
Opener(t, x, n) ==
  /\ x = call[t].on /\ call[t].op \in Opens
  /\ obj' = [ obj EXCEPT ![x] = n ]
  /\ n.kind = obj[x].kind /\ Untimed(n)
  /\ \A u \in Threads \ { t } : call'[u] = call[u]
  /\ call'[t].op \notin ObjectCalls \cup Opens

LEMMA OpenerEffect ==
  ASSUME Inv, OwnInv, NEW t \in Threads, NEW x, NEW n, Opener(t, x, n)
  PROVE  /\ OwnInv' /\ x \in Objects /\ obj[x].lockId = 0
         /\ obj'[x] = n /\ \A p \in Objects \ { x } : obj'[p] = obj[p]
<1>1. x \in Objects /\ obj[x].lockId = 0 /\ obj[x].owner = t
  BY Parts DEF Opener, OwnInv, OwnCall, Opens
<1>2. obj'[x] = n /\ \A p \in Objects \ { x } : obj'[p] = obj[p]
  BY <1>1, Parts DEF Opener
<1>3. OwnCall(t)'
  BY DEF Opener, OwnCall
<1>4. \A p \in Objects : Untimed(obj'[p])
  BY <1>2 DEF Opener, OwnInv
<1>5. OwnInv'
  BY <1>1, <1>2, <1>3, <1>4, OthersOwn DEF Opener
<1> QED
  BY <1>1, <1>2, <1>5

\* What a constructor leaves: object x as n, with entry id of the key k or none, on the
\* volume v.
OpensAs(t, x, n, v, id, k, w) ==
  /\ Opener(t, x, n) /\ v \in FindVolume /\ mounted' = v.mounted
  /\ n.lockId = id /\ n.key = (IF id = 0 THEN None ELSE k)
  /\ n.write <=> w /\ id # 0
  /\ slots' = IF id = 0 THEN v.slots ELSE IncFileLock(v.slots, k, w)
  /\ id # 0 => /\ v.result = "OK" /\ id = FileLockId(v.slots, k, w) /\ k # None
               /\ k \in Files => CheckFileLock(v.slots, k, w) = "OK"

LEMMA OpenBodyEffect ==
  ASSUME Inv, OwnInv, NEW t \in Threads, NEW f \in Files, NEW w \in BOOLEAN, OpenBody(t, f, w)
  PROVE  \E n, v, id : OpensAs(t, call[t].on, n, v, id, f, w) /\ n.write \in BOOLEAN
<1> DEFINE Checked(v) == IF v.result # "OK" THEN v.result ELSE CheckFileLock(v.slots, f, w)
           Id(v) == IF Checked(v) = "OK" THEN FileLockId(v.slots, f, w) ELSE 0
           Outcome(v) == IF Checked(v) = "OK" /\ Id(v) = 0 THEN "INT_ERR" ELSE Checked(v)
           After(v) == [ obj[call[t].on] EXCEPT !.result = Outcome(v), !.fs = (Id(v) # 0),
                             !.lockId = Id(v), !.key = IF Id(v) = 0 THEN None ELSE f,
                             !.write = (w /\ Id(v) # 0) ]
<1>1. call[t].op \in Opens /\ call[t].on \in Objects /\ obj[call[t].on] \in Object
  BY Parts DEF OpenBody, Inside, Opens
<1>2. PICK v \in FindVolume :
        /\ mounted' = v.mounted
        /\ slots' = IF Id(v) = 0 THEN v.slots ELSE IncFileLock(v.slots, f, w)
        /\ obj' = [ obj EXCEPT ![call[t].on] = After(v) ]
        /\ LeaveLocalDir(t, "localDir", Outcome(v))
  BY <1>1, Parts DEF OpenBody
<1>3. /\ Id(v) # 0 => /\ Checked(v) = "OK" /\ Id(v) = FileLockId(v.slots, f, w)
                      /\ Outcome(v) = "OK"
      /\ Checked(v) = "OK" => v.result = "OK" /\ CheckFileLock(v.slots, f, w) = "OK"
  <2>1. \A r : (IF v.result # "OK" THEN v.result ELSE r) = "OK" => v.result = "OK" /\ r = "OK"
    OBVIOUS
  <2> QED
    BY <2>1
<1> HIDE DEF Checked, Id, Outcome
<1>4. /\ After(v).kind = obj[call[t].on].kind /\ After(v).fs = (Id(v) # 0)
      /\ After(v).result = Outcome(v) /\ After(v).lockId = Id(v)
      /\ After(v).key = (IF Id(v) = 0 THEN None ELSE f) /\ After(v).write = (w /\ Id(v) # 0)
  BY <1>1 DEF Object
<1> HIDE DEF After
<1>5. /\ \A u \in Threads \ { t } : call'[u] = call[u]
      /\ call'[t].op = "localDir"
  BY <1>2, Parts DEF LeaveLocalDir
<1>6. Opener(t, call[t].on, After(v))
  BY <1>1, <1>2, <1>3, <1>4, <1>5, NoCall DEF Opener, Untimed, LocalDirs
<1>7. f # None
  BY LockAssumption
<1>8. OpensAs(t, call[t].on, After(v), v, Id(v), f, w)
  BY <1>2, <1>3, <1>4, <1>6, <1>7 DEF OpensAs
<1> QED
  BY <1>4, <1>8

LEMMA OpenDirBodyEffect ==
  ASSUME Inv, OwnInv, NEW t \in Threads, NEW d \in Dirs \cup { None }, OpenDirBody(t, d)
  PROVE  \E n, v, id : OpensAs(t, call[t].on, n, v, id, d, FALSE) /\ n.write \in BOOLEAN
<1> DEFINE Walked(v, x) == IF v.result = "OK" THEN x ELSE v.result
           Id(v, x) == IF Walked(v, x) = "OK" /\ d # None THEN FileLockId(v.slots, d, FALSE) ELSE 0
           Outcome(v, x) == IF Walked(v, x) # "OK" THEN Walked(v, x)
                            ELSE IF d # None /\ Id(v, x) = 0 THEN "TOO_MANY_OPEN_FILES" ELSE "OK"
           After(v, x) == [ obj[call[t].on] EXCEPT !.result = Outcome(v, x),
                                !.fs = (Outcome(v, x) = "OK"), !.lockId = Id(v, x),
                                !.key = IF Id(v, x) = 0 THEN None ELSE d ]
<1>1. /\ call[t].op \in Opens /\ call[t].on \in Objects /\ obj[call[t].on] \in Object
      /\ ~obj[call[t].on].write
  BY Parts DEF OpenDirBody, Inside, Opens, OwnInv, OwnCall
<1>2. PICK v \in FindVolume, x \in WalkResults :
        /\ mounted' = v.mounted
        /\ slots' = IF Id(v, x) = 0 THEN v.slots ELSE IncFileLock(v.slots, d, FALSE)
        /\ obj' = [ obj EXCEPT ![call[t].on] = After(v, x) ]
        /\ Returns(t, Outcome(v, x))
  BY <1>1, Parts DEF OpenDirBody
<1>3. Id(v, x) # 0 => v.result = "OK" /\ d # None /\ Id(v, x) = FileLockId(v.slots, d, FALSE)
  <2>1. \A r : (IF v.result = "OK" THEN r ELSE v.result) = "OK" => v.result = "OK"
    OBVIOUS
  <2> QED
    BY <2>1
<1> HIDE DEF Walked, Id, Outcome
<1>4. /\ After(v, x).kind = obj[call[t].on].kind /\ After(v, x).fs = (Outcome(v, x) = "OK")
      /\ After(v, x).result = Outcome(v, x) /\ After(v, x).lockId = Id(v, x)
      /\ After(v, x).key = (IF Id(v, x) = 0 THEN None ELSE d)
      /\ After(v, x).write = obj[call[t].on].write
  BY <1>1 DEF Object
<1> HIDE DEF After
<1>5. /\ \A u \in Threads \ { t } : call'[u] = call[u]
      /\ call'[t] = Back(Outcome(v, x))
  BY <1>2, Parts DEF Returns
<1>6. Opener(t, call[t].on, After(v, x))
  BY <1>1, <1>2, <1>4, <1>5, NoCall DEF Opener, Untimed
<1>7. d \in Files => d = None
  BY LockAssumption
<1>8. OpensAs(t, call[t].on, After(v, x), v, Id(v, x), d, FALSE)
  BY <1>1, <1>2, <1>3, <1>4, <1>6, <1>7 DEF OpensAs
<1> QED
  BY <1>1, <1>4, <1>8 DEF Object

\* An object that is opened is registered, or has no entry.
LEMMA OpensTable ==
  ASSUME Inv, Inv', OwnInv, TableInv, FewOpens, StaysMounted,
         NEW t \in Threads, NEW n, NEW v, NEW id, NEW k \in Keys, NEW w \in BOOLEAN,
         OpensAs(t, call[t].on, n, v, id, k, w), n.write \in BOOLEAN,
         w => k \in Files, obj[call[t].on].kind = "dir" => ~w
  PROVE  TableInv'
<1> DEFINE x == call[t].on
<1>1. Opener(t, x, n)
  BY DEF OpensAs
<1>2. /\ x \in Objects /\ obj[x].lockId = 0 /\ obj'[x] = n
      /\ \A p \in Objects \ { x } : obj'[p] = obj[p]
  BY <1>1, OpenerEffect
<1>3. /\ call[t].op \in Opens /\ \A u \in Threads \ { t } : call'[u] = call[u]
      /\ call'[t].op \notin Opens /\ n.kind = obj[x].kind
  BY <1>1 DEF Opener
<1>4. /\ v.slots = slots /\ (mounted => v.mounted) /\ (v.result = "OK" => v.mounted)
      /\ mounted' = v.mounted
  BY FindVolumeKeeps DEF OpensAs, TableInv
<1> HIDE DEF x
<1>5. CASE id = 0
  <2>1. n.lockId = 0 /\ n.key = None /\ ~n.write /\ slots' = slots
    BY <1>4, <1>5 DEF OpensAs
  <2> QED
    BY <1>2, <1>3, <1>4, <2>1, OpenedTable
<1>6. CASE id # 0
  <2>1. /\ n.lockId = id /\ n.key = k /\ n.write = w /\ slots' = IncFileLock(slots, k, w)
        /\ v.result = "OK" /\ id = FileLockId(slots, k, w) /\ k \in Keys \ { None }
        /\ k \in Files => CheckFileLock(slots, k, w) = "OK"
    BY <1>4, <1>6 DEF OpensAs
  <2>2. slots \in SlotTable
    BY Parts
  <2>3. /\ id \in LockIds
        /\ \/ slots[id].key = k /\ (w => slots[id].ctr = 0)
              /\ (k \in Files => slots[id].ctr # WriteOpen)
           \/ slots[id].key = None /\ \A j \in LockIds : slots[j].key # k
    BY <1>6, <2>1, <2>2, FileLockIdFacts
  <2>4. /\ slots[id].ctr = WriteOpen => slots[id].key \in Files
        /\ slots[id].key = None <=> slots[id].ctr = 0
        /\ slots[id].ctr \in Nat
    BY <2>2, <2>3 DEF TableInv, SlotsInv, SlotTable
  <2>5. \/ slots[id].key = k /\ slots[id].ctr # WriteOpen /\ ~w
        \/ slots[id].key = None /\ \A j \in LockIds : slots[j].key # k
    BY <2>1, <2>3, <2>4
  <2>6. slots' = [ slots EXCEPT ![id] = [ key |-> k, ctr |-> IF w THEN WriteOpen ELSE slots[id].ctr + 1 ] ]
    <3>1. slots' = [ slots EXCEPT ![id] =
                       [ key |-> k, ctr |-> IF w THEN WriteOpen
                                            ELSE (IF slots[id].key = k THEN slots[id].ctr ELSE 0) + 1 ] ]
      BY <1>6, <2>1 DEF IncFileLock
    <3>2. (IF slots[id].key = k THEN slots[id].ctr ELSE 0) = slots[id].ctr
      BY <2>4, <2>5
    <3> QED
      BY <3>1, <3>2
  <2>7. Registers(t, x, id, k, w)
    <3>1. w => k \in Files
      OBVIOUS
    <3>2. obj[x].kind = "dir" => ~w
      BY DEF x
    <3> QED
      BY <1>2, <1>3, <1>4, <2>1, <2>3, <2>5, <2>6, <3>1, <3>2 DEF Registers
  <2> QED
    BY <2>7, RegisterTable
<1> QED
  BY <1>5, <1>6

\* The destructor releases the entry of its object.
LEMMA ReleaseTable ==
  ASSUME Inv, Inv', OwnInv, TableInv, FewOpens, NEW t \in Threads, DestructorBody(t),
         call[t].op # "localDir", NEW x, x = call[t].on, NEW id, id = obj[x].lockId, id # 0
  PROVE  TableInv'
<1> DEFINE c == slots[id].ctr
           m == IF c \in { 0, WriteOpen } THEN 0 ELSE c - 1
           key == IF m = 0 THEN None ELSE slots[id].key
<1>1. /\ call[t].op \in ObjectCalls /\ slots' = DecFileLock(slots, id)
      /\ obj' = [ obj EXCEPT ![x] = NoObject ] /\ mounted' = mounted /\ Quiet(t)
  <2>1. Quiet(t)
    BY BodyIsQuiet
  <2> QED
    BY <2>1 DEF DestructorBody, Inside, AfterDestructor, ObjectCalls, Destructors
<1>2. x \in Objects /\ id \in LockIds
  <2>1. x \in Objects
    BY <1>1, Parts
  <2>2. obj[x].lockId \in 0 .. FS_LOCK
    BY <2>1, Parts DEF Object
  <2> QED
    BY <2>1, <2>2, LockAssumption DEF LockIds
<1>3. /\ slots' = [ slots EXCEPT ![id] = [ key |-> key, ctr |-> m ] ]
  BY <1>1 DEF DecFileLock
<1>4. /\ obj'[x] = NoObject /\ \A o \in Objects \ { x } : obj'[o] = obj[o]
  BY <1>1, <1>2, Parts
<1>5. c \in Nat /\ id # 0
  BY <1>2, Parts DEF SlotTable
<1>6. x \in Opened(id) /\ \A i \in LockIds : Opened(i) \subseteq Objects
  BY <1>2 DEF Opened
<1> HIDE DEF c
<1>7. /\ \A i \in LockIds \ { id } : Opened(i)' = Opened(i)
      /\ Opened(id)' = Opened(id) \ { x }
  <2>1. NoObject.lockId = 0 /\ 0 \notin LockIds
    BY LockAssumption DEF NoObject, LockIds
  <2> QED
    BY <1>2, <1>4, <1>5, <2>1 DEF Opened
<1>8. /\ slots'[id].key = key /\ slots'[id].ctr = m
      /\ \A i \in LockIds \ { id } : slots'[i] = slots[i]
  BY <1>2, <1>3, Parts DEF SlotTable
<1>9. /\ IsFiniteSet(Opened(id)) /\ Cardinality(Opened(id)) \in Nat \ {0}
      /\ Cardinality(Opened(id)') = Cardinality(Opened(id)) - 1
      /\ IsFiniteSet(Opened(id)') /\ Cardinality(Opened(id)') \in Nat
  <2>1. IsFiniteSet(Opened(id)) /\ Cardinality(Opened(id)) \in Nat
    BY <1>2, <1>6, FiniteSets
  <2>2. Cardinality(Opened(id)) # 0
    BY <1>6, <2>1, FS_EmptySet
  <2>3. IsFiniteSet(Opened(id)') /\ Cardinality(Opened(id)') = Cardinality(Opened(id)) - 1
    BY <1>6, <1>7, <2>1, FS_RemoveElement
  <2> QED
    BY <2>1, <2>2, <2>3
<1>10. /\ Cardinality(Opened(id)) <= c
       /\ c = WriteOpen => \A o, p \in Opened(id) : o = p
       /\ c # WriteOpen => c + Cardinality(Opening) <= MaxCtr + Cardinality(Threads)
  BY <1>2 DEF TableInv, CountInv, c
<1>11. /\ Cardinality(Opening') <= Cardinality(Opening) /\ Cardinality(Opening') \in Nat
       /\ Cardinality(Opening) \in Nat /\ Cardinality(Opening') <= Cardinality(Threads)
  <2>1. Opening' \subseteq Opening /\ Opening \subseteq Threads
    BY <1>1 DEF Quiet, Opening
  <2> QED
    BY <2>1, FewerThreads, FiniteSets
<1>12. c # WriteOpen => c < WriteOpen
  BY <1>5, <1>10, <1>11, FiniteSets DEF FewOpens, WriteOpen
<1>13. m \in Nat /\ m # WriteOpen /\ (m # 0 => c # WriteOpen /\ m = c - 1)
  BY <1>5, <1>12 DEF WriteOpen
<1>14. Cardinality(Opened(id)') <= m
  <2>1. CASE c = WriteOpen
    <3>1. Opened(id)' = {}
      BY <1>6, <1>7, <1>10, <2>1
    <3> QED
      BY <3>1, <1>13, FS_EmptySet
  <2>2. CASE c # WriteOpen
    <3>1. m = c - 1
      BY <1>5, <1>9, <1>10, <2>2
    <3> QED
      BY <1>5, <1>9, <1>10, <3>1
  <2> QED
    BY <2>1, <2>2
<1>15. m = 0 => Opened(id)' = {}
  BY <1>9, <1>14, FS_EmptySet
<1>16. c # 0
  BY <1>5, <1>9, <1>10
<1>17. slots[id].key # None /\ slots[id].ctr = c
  BY <1>2, <1>16 DEF TableInv, SlotsInv, c
<1> HIDE DEF m
<1>18. SlotsInv'
  <2>1. \A i \in LockIds : slots'[i].key = None <=> slots'[i].ctr = 0
    BY <1>8, <1>17 DEF TableInv, SlotsInv
  <2>2. \A i, j \in LockIds : slots'[i].key = slots'[j].key /\ slots'[i].key # None => i = j
    BY <1>2, <1>8 DEF TableInv, SlotsInv
  <2>3. \A i \in LockIds : slots'[i].ctr = WriteOpen => slots'[i].key \in Files
    BY <1>8, <1>13 DEF TableInv, SlotsInv
  <2>4. mounted
    BY <1>2, <1>17 DEF TableInv, SlotsInv, BlankSlot
  <2> QED
    BY <1>1, <2>1, <2>2, <2>3, <2>4 DEF SlotsInv
<1>19. ObjectsInv'
  <2> SUFFICES ASSUME NEW o \in Objects
               PROVE  /\ obj'[o].lockId = 0 <=> obj'[o].key = None
                      /\ obj'[o].lockId # 0 => obj'[o].key = slots'[obj'[o].lockId].key
                      /\ obj'[o].write => obj'[o].lockId # 0 /\ slots'[obj'[o].lockId].ctr = WriteOpen
                      /\ obj'[o].kind = "dir" => ~obj'[o].write
    BY DEF ObjectsInv
  <2>1. CASE o = x
    BY <1>4, <2>1 DEF NoObject
  <2>2. CASE o # x
    <3>1. obj'[o] = obj[o]
      BY <1>4, <2>2
    <3>2. CASE obj[o].lockId = id
      <4>1. o \in Opened(id)' /\ o \in Opened(id)
        BY <3>1, <3>2 DEF Opened
      <4>2. m # 0 /\ c # WriteOpen
        BY <1>6, <1>10, <1>15, <2>2, <4>1
      <4>3. ~obj[o].write
        BY <1>17, <3>2, <4>2 DEF TableInv, ObjectsInv
      <4> QED
        BY <1>8, <3>1, <3>2, <4>2, <4>3 DEF TableInv, ObjectsInv
    <3>3. CASE obj[o].lockId # id
      <4>1. obj[o].lockId # 0 => obj[o].lockId \in LockIds \ { id }
        BY <3>3, Parts, LockAssumption DEF Object, LockIds
      <4> QED
        BY <1>8, <3>1, <4>1 DEF TableInv, ObjectsInv
    <3> QED
      BY <3>2, <3>3
  <2> QED
    BY <2>1, <2>2
<1>20. CountInv'
  <2> SUFFICES ASSUME NEW i \in LockIds
               PROVE  /\ Cardinality(Opened(i)') <= slots'[i].ctr
                      /\ slots'[i].ctr = WriteOpen => \A o, p \in Opened(i)' : o = p
                      /\ slots'[i].ctr # WriteOpen =>
                           slots'[i].ctr + Cardinality(Opening') <= MaxCtr + Cardinality(Threads)
    BY DEF CountInv
  <2>1. CASE i # id
    <3>1. /\ Cardinality(Opened(i)) <= slots[i].ctr
          /\ slots[i].ctr = WriteOpen => \A o, p \in Opened(i) : o = p
          /\ slots[i].ctr # WriteOpen =>
               slots[i].ctr + Cardinality(Opening) <= MaxCtr + Cardinality(Threads)
      BY DEF TableInv, CountInv
    <3>2. slots'[i] = slots[i] /\ Opened(i)' = Opened(i) /\ slots[i].ctr \in Nat
      BY <1>7, <1>8, <2>1, Parts DEF SlotTable
    <3> QED
      BY <1>11, <3>1, <3>2, FiniteSets
  <2>2. CASE i = id
    <3>1. m + Cardinality(Opening') <= MaxCtr + Cardinality(Threads)
      <4>1. CASE m = 0
        BY <1>11, <4>1, FiniteSets
      <4>2. CASE m # 0
        <5>1. c + Cardinality(Opening) <= MaxCtr + Cardinality(Threads) /\ m = c - 1
          BY <1>10, <1>13, <4>2
        <5> QED
          BY <1>5, <1>11, <1>13, <5>1, FiniteSets
      <4> QED
        BY <4>1, <4>2
    <3> QED
      BY <1>8, <1>13, <1>14, <2>2, <3>1
  <2> QED
    BY <2>1, <2>2
<1> QED
  BY <1>18, <1>19, <1>20 DEF TableInv

-----------------------------------------------------------------------------
(* Every step keeps the owners, and the table. *)

\* What thread t does is quiet, or it constructs or opens an object.
LEMMA StepCases ==
  ASSUME Inv, OwnInv, NEW t \in Threads, Start(t) \/ LockStep(t) \/ FailStep(t) \/ BodyStep(t)
  PROVE  \/ Quiet(t) \/ LockNull(t)
         \/ \E o \in Objects, c \in Opens : Construct(t, c, o)
         \/ \E f \in Files, w \in BOOLEAN : OpenBody(t, f, w)
         \/ \E d \in Dirs \cup { None } : OpenDirBody(t, d)
<1>1. CASE Start(t)
  BY <1>1, CallIsQuiet DEF Start, Opens
<1>2. CASE LockStep(t) /\ ~LockNull(t)
  <2>1. call' # call
    <3>1. \A p \in Points : call[t].at # p /\ Goes(t, p) => call' # call
      BY Parts DEF Goes, CallRecord
    <3> QED
      BY <1>2, <3>1 DEF LockStep, LockTake, LockBlock, LockTimeout, LockDecide,
                          LockDecideLate, Asking, At, Points
  <2> QED
    BY <1>2, <2>1, LockStepIsQuiet
<1>3. CASE FailStep(t)
  BY <1>3, FailStepIsQuiet
<1>4. CASE BodyStep(t)
  BY <1>4, BodyIsQuiet DEF BodyStep, OpenModes
<1> QED
  BY <1>1, <1>2, <1>3, <1>4

LEMMA NextKeepsOwn == Inv /\ OwnInv /\ [Next]_vars => OwnInv'
<1> SUFFICES ASSUME Inv, OwnInv, [Next]_vars PROVE OwnInv'
  OBVIOUS
<1>1. CASE UNCHANGED vars
  BY <1>1 DEF vars, OwnInv, OwnCall
<1>2. ASSUME NEW t \in Threads, Start(t) \/ LockStep(t) \/ FailStep(t) \/ BodyStep(t)
      PROVE  OwnInv'
  <2>1. CASE Quiet(t)
    BY <2>1, QuietKeepsOwn
  <2>2. CASE LockNull(t)
    BY <2>2 DEF LockNull, OwnInv, OwnCall
  <2>3. ASSUME NEW o \in Objects, NEW c \in Opens, Construct(t, c, o)
        PROVE  OwnInv'
    BY <2>3, ConstructEffect
  <2>4. ASSUME NEW f \in Files, NEW w \in BOOLEAN, OpenBody(t, f, w)
        PROVE  OwnInv'
    BY <2>4, OpenBodyEffect, OpenerEffect DEF OpensAs
  <2>5. ASSUME NEW d \in Dirs \cup { None }, OpenDirBody(t, d)
        PROVE  OwnInv'
    BY <2>5, OpenDirBodyEffect, OpenerEffect DEF OpensAs
  <2> QED
    BY <1>2, <2>1, <2>2, <2>3, <2>4, <2>5, StepCases
<1> QED
  BY <1>1, <1>2 DEF Next

\* The steps that touch the table are those of the constructors and destructors.
LEMMA QuietTableCases ==
  ASSUME Inv, OwnInv, TableInv, StaysMounted, NEW t \in Threads,
         Start(t) \/ LockStep(t) \/ FailStep(t) \/ BodyStep(t),
         \A f \in Files, w \in BOOLEAN : ~OpenBody(t, f, w),
         \A d \in Dirs \cup { None } : ~OpenDirBody(t, d),
         ~(DestructorBody(t) /\ call[t].op # "localDir" /\ obj[call[t].on].lockId # 0)
  PROVE  slots' = slots /\ (mounted => mounted')
<1>1. CASE Start(t) \/ LockStep(t) \/ FailStep(t)
  <2>1. CASE Start(t)
    <3>1. \A o, c : Construct(t, c, o) => UNCHANGED << slots, mounted >>
      BY DEF Construct
    <3>2. \A o, c : Call(t, c, o) \/ CallVolume(t, c) => UNCHANGED << slots, mounted >>
      BY DEF Call, CallVolume
    <3> QED
      BY <2>1, <3>1, <3>2 DEF Start
  <2>2. CASE LockStep(t)
    BY <2>2 DEF LockStep, LockTake, LockBlock, LockTimeout, LockDecide, LockDecideLate, LockNull
  <2>3. CASE FailStep(t)
    BY <2>3 DEF FailStep, OpenFails, OpenDirFails, VolumeFails, InnerDirFails, MethodFails,
       CloseSyncFails, DestructorFails
  <2> QED
    BY <1>1, <2>1, <2>2, <2>3
<1>2. CASE VolumeBody(t)
  BY <1>2, FindVolumeKeeps DEF VolumeBody, TableInv
<1>3. CASE VolumeLeave(t) \/ VolumeReturn(t) \/ MethodBody(t) \/ CloseSyncBody(t) \/ DestructorBody(t)
  BY <1>3 DEF VolumeLeave, VolumeReturn, MethodBody, CloseSyncBody, DestructorBody
<1>4. CASE BodyStep(t)
  <2>1. OpenModes \subseteq BOOLEAN
    BY DEF OpenModes
  <2>2. ~\E f \in Files, w \in OpenModes : OpenBody(t, f, w)
    BY <2>1
  <2>3. ~\E d \in Dirs \cup { None } : OpenDirBody(t, d)
    OBVIOUS
  <2> QED
    BY <1>2, <1>3, <1>4, <2>2, <2>3 DEF BodyStep
<1> QED
  BY <1>1, <1>4

LEMMA NextKeepsTable ==
  ASSUME Inv, Inv', OwnInv, TableInv, [Next]_vars, FewOpens, StaysMounted
  PROVE  TableInv'
<1>1. CASE UNCHANGED vars
  BY <1>1 DEF vars, TableInv, SlotsInv, ObjectsInv, CountInv, Opened, Opening
<1>2. ASSUME NEW t \in Threads, Start(t) \/ LockStep(t) \/ FailStep(t) \/ BodyStep(t)
      PROVE  TableInv'
  <2>1. ASSUME NEW o \in Objects, NEW c \in Opens, Construct(t, c, o)
        PROVE  TableInv'
    BY <2>1, ConstructTable
  <2>2. ASSUME NEW f \in Files, NEW w \in BOOLEAN, OpenBody(t, f, w)
        PROVE  TableInv'
    <3>1. obj[call[t].on].kind # "dir"
      BY <2>2 DEF OpenBody, Inside, OwnInv, OwnCall, Opens
    <3>2. \E n, v, id : OpensAs(t, call[t].on, n, v, id, f, w) /\ n.write \in BOOLEAN
      BY <2>2, OpenBodyEffect
    <3>3. f \in Keys
      BY DEF Keys
    <3> QED
      BY <3>1, <3>2, <3>3, OpensTable
  <2>3. ASSUME NEW d \in Dirs \cup { None }, OpenDirBody(t, d)
        PROVE  TableInv'
    <3>1. \E n, v, id : OpensAs(t, call[t].on, n, v, id, d, FALSE) /\ n.write \in BOOLEAN
      BY <2>3, OpenDirBodyEffect
    <3>2. d \in Keys
      BY DEF Keys
    <3> QED
      BY <3>1, <3>2, OpensTable
  <2>4. CASE DestructorBody(t) /\ call[t].op # "localDir" /\ obj[call[t].on].lockId # 0
    BY <2>4, ReleaseTable
  <2>5. CASE /\ \A f \in Files, w \in BOOLEAN : ~OpenBody(t, f, w)
             /\ \A d \in Dirs \cup { None } : ~OpenDirBody(t, d)
             /\ ~(DestructorBody(t) /\ call[t].op # "localDir" /\ obj[call[t].on].lockId # 0)
             /\ \A o \in Objects, c \in Opens : ~Construct(t, c, o)
    <3>1. slots' = slots /\ (mounted => mounted')
      BY <1>2, <2>5, QuietTableCases
    <3>2. CASE Quiet(t)
      BY <3>1, <3>2, QuietTable
    <3>3. CASE LockNull(t)
      BY <3>3 DEF LockNull, TableInv, SlotsInv, ObjectsInv, CountInv, Opened, Opening
    <3> QED
      BY <1>2, <2>5, <3>2, <3>3, StepCases
  <2> QED
    BY <2>1, <2>2, <2>3, <2>4, <2>5
<1> QED
  BY <1>1, <1>2 DEF Next

LEMMA InitTable ==
  ASSUME Init
  PROVE  OwnInv /\ (FewOpens => TableInv)
<1>1. /\ slots = [ i \in LockIds |-> BlankSlot ] /\ mounted = FALSE
      /\ \A o \in Objects : obj[o] = NoObject
      /\ \A t \in Threads : call[t] = Back("UNUSED")
  BY DEF Init
<1>2. OwnInv
  <2>1. \A t \in Threads : call[t].op \notin ObjectCalls \cup Opens
    BY <1>1, NoCall
  <2> QED
    BY <1>1, <2>1 DEF OwnInv, OwnCall, Untimed, NoObject
<1>3. SlotsInv
  BY <1>1 DEF SlotsInv, BlankSlot, WriteOpen
<1>4. ObjectsInv
  BY <1>1 DEF ObjectsInv, NoObject
<1>5. FewOpens => CountInv
  <2> SUFFICES ASSUME FewOpens, NEW i \in LockIds
               PROVE  /\ Cardinality(Opened(i)) <= slots[i].ctr
                      /\ slots[i].ctr = WriteOpen => \A o, p \in Opened(i) : o = p
                      /\ slots[i].ctr # WriteOpen =>
                           slots[i].ctr + Cardinality(Opening) <= MaxCtr + Cardinality(Threads)
    BY DEF CountInv
  <2>1. slots[i].ctr = 0
    BY <1>1 DEF BlankSlot
  <2>2. Opened(i) = {}
    BY <1>1, LockAssumption DEF Opened, NoObject, LockIds
  <2>3. Cardinality(Opening) \in Nat /\ Cardinality(Opening) <= Cardinality(Threads)
    <3>1. Opening \subseteq Threads
      BY DEF Opening
    <3> QED
      BY <3>1, FiniteSets
  <2> QED
    BY <2>1, <2>2, <2>3, FS_EmptySet, FiniteSets DEF WriteOpen
<1> QED
  BY <1>2, <1>3, <1>4, <1>5 DEF TableInv

LEMMA OwnInvariant == Spec => [](Inv /\ OwnInv)
<1>1. Init => Inv /\ OwnInv
  BY InitInv, InitTable
<1>2. Inv /\ OwnInv /\ [Next]_vars => Inv' /\ OwnInv'
  BY NextKeepsInv, NextKeepsOwn
<1> QED
  BY <1>1, <1>2, PTL DEF Spec

LEMMA TableInvariant ==
  ASSUME FewOpens, StaysMounted
  PROVE  Spec => []TableInv
<1>1. Init => TableInv
  BY InitTable
<1>2. Inv /\ Inv' /\ OwnInv /\ TableInv /\ [Next]_vars => TableInv'
  BY NextKeepsTable
<1> QED
  BY <1>1, <1>2, OwnInvariant, PTL DEF Spec

\* The table never forgets an open object, whatever times out or fails, as long as the
\* card stays ready and fewer than 256 readers have a file open.
THEOREM TableCountsOpenObjects ==
  ASSUME FewOpens, StaysMounted
  PROVE  Spec => []OpenObjectsCounted
<1>1. Inv /\ TableInv => OpenObjectsCounted
  <2> SUFFICES ASSUME Inv, TableInv, NEW i \in LockIds
               PROVE  /\ \A o \in Opened(i) : /\ obj[o].key = slots[i].key
                                              /\ obj[o].write => slots[i].ctr = WriteOpen
                      /\ slots[i].ctr >= Cardinality(Opened(i))
    BY DEF OpenObjectsCounted
  <2>1. i # 0
    BY LockAssumption DEF LockIds
  <2>2. slots[i].ctr >= Cardinality(Opened(i))
    <3>1. Cardinality(Opened(i)) \in Nat /\ slots[i].ctr \in Nat
      <4>1. Opened(i) \subseteq Objects
        BY DEF Opened
      <4> QED
        BY <4>1, FiniteSets, Parts DEF Inv, TypeOK
    <3> QED
      BY <3>1 DEF TableInv, CountInv
  <2> QED
    BY <2>1, <2>2 DEF TableInv, ObjectsInv, Opened
<1> QED
  BY <1>1, OwnInvariant, TableInvariant, PTL

\* While a file is open for writing nobody else has it open, for any number of tasks,
\* objects and entries, under the same conditions.
THEOREM WritersAreAlone ==
  ASSUME FewOpens, StaysMounted
  PROVE  Spec => []WriterIsAlone
<1>1. Inv /\ TableInv => WriterIsAlone
  <2> SUFFICES ASSUME Inv, TableInv, NEW o \in Objects, NEW p \in Objects, o # p, obj[o].write,
                      obj[p].key = obj[o].key
               PROVE  FALSE
    BY DEF WriterIsAlone
  <2>1. /\ obj[o].lockId # 0 /\ slots[obj[o].lockId].ctr = WriteOpen
        /\ obj[o].key = slots[obj[o].lockId].key /\ obj[o].key # None
    BY DEF TableInv, ObjectsInv
  <2>2. obj[p].lockId # 0 /\ obj[p].key = slots[obj[p].lockId].key
    BY <2>1 DEF TableInv, ObjectsInv
  <2>3. obj[o].lockId \in LockIds /\ obj[p].lockId \in LockIds
    BY <2>1, <2>2, LockAssumption DEF Inv, TypeOK, Object, LockIds
  <2>4. obj[o].lockId = obj[p].lockId
    BY <2>1, <2>2, <2>3 DEF TableInv, SlotsInv
  <2> QED
    BY <2>1, <2>3, <2>4 DEF TableInv, CountInv, Opened
<1> QED
  BY <1>1, OwnInvariant, TableInvariant, PTL

-----------------------------------------------------------------------------
(* Nothing is left behind. *)

\* The tasks only use files and directories: no method of cFatFs itself.
FilesOnly == Used \cap VolumeCalls = {}

\* Whoever holds the mutex is in lock() or runs a body, if lock() did not say no to the
\* thread that took it, and no thread is in a method of cFatFs, whose unlock looks at a
\* result that other threads write.
LeakInv ==
  \A t \in Threads :
    /\ holder = t => call[t].at \in { "took", "in" } \/ kept
    /\ call[t].op \notin VolumeCalls \cup { "innerDir", "noVolume" }

\* A body of an object that has opened does not end in a timeout.
LEMMA NoLateResult ==
  ASSUME NEW c \in Methods, NEW o \in Object, Untimed(o), o.fs,
         NEW m \in MethodOutcomes(c, o)
  PROVE  m.result # "TIMEOUT"
<1> DEFINE Good(S) == \A x \in S : x.result # "TIMEOUT"
<1>1. ASSUME NEW p, NEW r, r # "TIMEOUT"
      PROVE  Good(Only(p, r))
  BY <1>1 DEF Only
<1>2. ASSUME NEW p, NEW S, Good(S)
      PROVE  Good(OrError(S, p))
  BY <1>2 DEF OrError
<1>3. o.result # "TIMEOUT"
  BY DEF Untimed
<1>4. Good(TruncateOutcomes(o))
  <2>1. Good(Only(o, "OK") \cup Only([ o EXCEPT !.written = TRUE ], "OK"))
    BY <1>1
  <2> QED
    BY <1>2, <2>1 DEF TruncateOutcomes
<1>5. \A s \in SyncOutcomes(o) : s.result # "TIMEOUT"
  BY SyncKeeps DEF Kept, Untimed
<1>6. Good(MethodOutcomes(c, o))
  <2>1. CASE c = "read"
    BY <2>1, <1>1, <1>2 DEF MethodOutcomes
  <2>2. CASE c = "write"
    BY <2>2, <1>1, <1>2 DEF MethodOutcomes
  <2>3. CASE c = "seek"
    BY <2>3, <1>1, <1>2, <1>3 DEF MethodOutcomes
  <2>4. CASE c = "truncate"
    BY <2>4, <1>1, <1>3, <1>4 DEF MethodOutcomes
  <2>5. CASE c = "sync"
    BY <2>5, <1>5 DEF MethodOutcomes
  <2>6. CASE c = "find"
    BY <2>6, <1>1, <1>2 DEF MethodOutcomes
  <2> QED
    BY <2>1, <2>2, <2>3, <2>4, <2>5, <2>6 DEF Methods, FileCalls
<1> QED
  BY <1>6

\* What a step of thread t owes to the invariant.
Clean(t) ==
  /\ \A u \in Threads \ { t } : call'[u] = call[u]
  /\ holder' = t => call'[t].at \in { "took", "in" } \/ kept'
  /\ holder' \in { t, None } \/ (holder' = holder /\ kept' = kept)
  /\ call'[t].op \notin VolumeCalls \cup { "innerDir", "noVolume" }

LEMMA CleanStep ==
  ASSUME LeakInv, NEW t \in Threads, Clean(t)
  PROVE  LeakInv'
<1>1. ASSUME NEW u \in Threads, u # t
      PROVE  /\ holder' = u => call'[u].at \in { "took", "in" } \/ kept'
             /\ call'[u].op \notin VolumeCalls \cup { "innerDir", "noVolume" }
  BY <1>1, LockAssumption DEF Clean, LeakInv
<1> QED
  BY <1>1 DEF Clean, LeakInv

\* The thread leaves the body with a result that gives the mutex, or had none to give.
LEMMA CleanUnlock ==
  ASSUME Inv, LeakInv, NEW t \in Threads, NEW r, call' = [ call EXCEPT ![t] = r ],
         r.op \notin VolumeCalls \cup { "innerDir", "noVolume" }, kept' = kept,
         \/ call[t].at = "in" /\ (Give(t) \/ \E x : x # "TIMEOUT" /\ Unlock(t, x))
         \/ call[t].at \notin { "took", "in" } /\ (UNCHANGED holder \/ Give(t) \/ \E x : Unlock(t, x))
  PROVE  Clean(t)
<1>1. call'[t] = r /\ \A u \in Threads \ { t } : call'[u] = call[u]
  BY Parts
<1>2. holder' = t => kept'
  BY LockAssumption DEF LeakInv, Unlock, Give
<1>3. holder' = holder \/ holder' = None
  BY DEF Unlock, Give
<1> QED
  BY <1>1, <1>2, <1>3 DEF Clean

\* The records a thread goes on with name no method of cFatFs.
LEMMA CleanRecords ==
  /\ \A r : Back(r).op \notin VolumeCalls \cup { "innerDir", "noVolume" }
  /\ \A c \in ObjectCalls \cup Opens \cup { "localDir", "nullDir" } :
       c \notin VolumeCalls \cup { "innerDir", "noVolume" }
BY DEF Back, ObjectCalls, Methods, FileCalls, Destructors, Opens, VolumeCalls

LEMMA StartIsClean ==
  ASSUME Inv, LeakInv, FilesOnly, NEW t \in Threads, Start(t)
  PROVE  Clean(t)
<1>1. \E o, c : /\ Enters(t, c, o) /\ c \in ObjectCalls \cup Opens
                /\ call[t].at = "idle" /\ UNCHANGED << holder, kept >>
  <2>1. \A o, c : Construct(t, c, o) => Enters(t, c, o) /\ call[t].at = "idle" /\ UNCHANGED << holder, kept >>
    BY DEF Construct, At
  <2>2. \A o, c : Call(t, c, o) => Enters(t, c, o) /\ call[t].at = "idle" /\ UNCHANGED << holder, kept >>
    BY DEF Call, At
  <2> QED
    BY <2>1, <2>2 DEF Start, FilesOnly, Opens, ObjectCalls, Destructors
<1>2. PICK o, c : Enters(t, c, o) /\ c \in ObjectCalls \cup Opens
  BY <1>1
<1> QED
  BY <1>1, <1>2, CleanUnlock, CleanRecords DEF Enters

LEMMA LockStepIsClean ==
  ASSUME Inv, LeakInv, NEW t \in Threads, LockStep(t)
  PROVE  Clean(t)
<1>1. CASE LockTake(t)
  <2>1. holder' = t /\ Goes(t, "took")
    BY <1>1 DEF LockTake
  <2> QED
    BY <2>1, Parts DEF Clean, Goes, CallRecord, LeakInv
<1>2. CASE LockBlock(t) \/ LockTimeout(t) \/ LockDecideLate(t)
  <2>1. PICK p : Goes(t, p)
    BY <1>2 DEF LockBlock, LockTimeout, LockDecideLate
  <2>2. UNCHANGED << holder, kept >> /\ call[t].at \notin { "took", "in" }
    BY <1>2 DEF LockBlock, LockTimeout, LockDecideLate, Asking, At
  <2> QED
    BY <2>1, <2>2, Parts DEF Clean, Goes, CallRecord, LeakInv
<1>3. CASE LockDecide(t)
  <2>1. PICK p \in { "in", "failed" } : Goes(t, p) /\ (p = "failed" => kept')
    BY <1>3 DEF LockDecide
  <2>2. holder' = t
    BY <1>3, Parts DEF LockDecide, At, Holds
  <2> QED
    BY <2>1, <2>2, Parts DEF Clean, Goes, CallRecord, LeakInv
<1>4. CASE LockNull(t)
  BY <1>4 DEF LockNull, Clean, LeakInv
<1> QED
  BY <1>1, <1>2, <1>3, <1>4 DEF LockStep

LEMMA AfterSyncIsClean ==
  ASSUME Inv, LeakInv, NEW t \in Threads, NEW s, AfterSync(t, s), Unlock(t, s.result),
         (call[t].at = "in" /\ s.result # "TIMEOUT") \/ call[t].at = "failed", kept' = kept
  PROVE  Clean(t)
<1>1. \E r : /\ call' = [ call EXCEPT ![t] = r ]
            /\ r.op \notin VolumeCalls \cup { "innerDir", "noVolume" }
  <2>1. "close" \in ObjectCalls
    BY DEF ObjectCalls, Destructors
  <2> QED
    BY <2>1, CleanRecords DEF AfterSync, Enters, Returns
<1> QED
  BY <1>1, CleanUnlock

LEMMA FailStepIsClean ==
  ASSUME Inv, LeakInv, NEW t \in Threads, FailStep(t)
  PROVE  Clean(t)
<1>1. call[t].at = "failed"
  BY DEF FailStep, OpenFails, OpenDirFails, VolumeFails, InnerDirFails, MethodFails,
     CloseSyncFails, DestructorFails, Failed, At
<1>2. ~VolumeFails(t) /\ ~InnerDirFails(t)
  BY DEF VolumeFails, InnerDirFails, Failed, LeakInv
<1>3. CASE OpenFails(t)
  <2>1. LeaveLocalDir(t, "nullDir", "TIMEOUT") /\ UNCHANGED << holder, kept >>
    BY <1>3 DEF OpenFails
  <2> QED
    BY <1>1, <2>1, CleanUnlock, CleanRecords DEF LeaveLocalDir
<1>4. CASE OpenDirFails(t) \/ DestructorFails(t)
  <2>1. UNCHANGED << holder, kept >> /\ \E x : Returns(t, x)
    BY <1>4 DEF OpenDirFails, DestructorFails
  <2> QED
    BY <1>1, <2>1, CleanUnlock, CleanRecords DEF Returns
<1>5. CASE MethodFails(t)
  <2>1. PICK m : Finish(t, m) /\ kept' = kept
    BY <1>5 DEF MethodFails
  <2> QED
    BY <1>1, <2>1, CleanUnlock, CleanRecords DEF Finish, Returns
<1>6. CASE CloseSyncFails(t)
  BY <1>1, <1>6, AfterSyncIsClean DEF CloseSyncFails
<1> QED
  BY <1>2, <1>3, <1>4, <1>5, <1>6 DEF FailStep

LEMMA BodyStepIsClean ==
  ASSUME Inv, OwnInv, LeakInv, NEW t \in Threads, BodyStep(t)
  PROVE  Clean(t)
<1>1. ~VolumeBody(t) /\ ~VolumeLeave(t)
  BY DEF VolumeBody, VolumeLeave, Inside, LeakInv
<1>2. CASE VolumeReturn(t)
  <2>1. /\ LeaveLocalDir(t, "localDir", mResult) /\ UNCHANGED << holder, kept >>
        /\ call[t].at = "return"
    BY <1>2 DEF VolumeReturn, LeakInv, At
  <2> QED
    BY <2>1, CleanUnlock, CleanRecords DEF LeaveLocalDir
<1>3. ASSUME NEW f, NEW w, OpenBody(t, f, w)
      PROVE  Clean(t)
  <2>1. \A v \in FindVolume : v.result # "TIMEOUT"
    BY DEF FindVolume, Volume
  <2>2. \A v : CheckFileLock(v.slots, f, w) # "TIMEOUT"
    BY DEF CheckFileLock
  <2>3. /\ kept' = kept
        /\ \E x : x # "TIMEOUT" /\ Unlock(t, x) /\ LeaveLocalDir(t, "localDir", x)
    BY <1>3, <2>1, <2>2 DEF OpenBody
  <2>4. call[t].at = "in"
    BY <1>3 DEF OpenBody, Inside, At
  <2> QED
    BY <2>3, <2>4, CleanUnlock, CleanRecords DEF LeaveLocalDir
<1>4. ASSUME NEW d, OpenDirBody(t, d)
      PROVE  Clean(t)
  <2>1. \A v \in FindVolume : v.result # "TIMEOUT"
    BY DEF FindVolume, Volume
  <2>2. \A walk \in WalkResults : walk # "TIMEOUT"
    BY DEF WalkResults
  <2>3. /\ kept' = kept
        /\ \E x : x # "TIMEOUT" /\ Unlock(t, x) /\ Returns(t, x)
    BY <1>4, <2>1, <2>2 DEF OpenDirBody
  <2>4. call[t].at = "in"
    BY <1>4 DEF OpenDirBody, Inside, At
  <2> QED
    BY <2>3, <2>4, CleanUnlock, CleanRecords DEF Returns
<1>5. CASE MethodBody(t)
  <2>1. call[t].at = "in" /\ call[t].op \in Methods
    BY <1>5 DEF MethodBody, Inside, At
  <2>2. /\ obj[call[t].on] \in Object /\ Untimed(obj[call[t].on])
        /\ obj[call[t].on].fs
    BY <2>1, Parts DEF ObjectCalls, OwnInv, OwnCall, Decided
  <2>3. PICK m \in MethodOutcomes(call[t].op, obj[call[t].on]) : Finish(t, m) /\ kept' = kept
    BY <1>5 DEF MethodBody
  <2>4. m.result # "TIMEOUT"
    BY <2>1, <2>2, <2>3, NoLateResult
  <2> QED
    BY <2>1, <2>3, <2>4, CleanUnlock, CleanRecords DEF Finish, Returns
<1>6. CASE CloseSyncBody(t)
  <2>1. call[t].at = "in" /\ call[t].op = "closeSync"
    BY <1>6 DEF CloseSyncBody, Inside, At
  <2>2. /\ obj[call[t].on] \in Object /\ Untimed(obj[call[t].on])
        /\ obj[call[t].on].fs
    BY <2>1, Parts DEF ObjectCalls, Destructors, OwnInv, OwnCall, Decided
  <2>3. PICK s \in SyncOutcomes(obj[call[t].on]) : Unlock(t, s.result) /\ AfterSync(t, s) /\ kept' = kept
    BY <1>6 DEF CloseSyncBody
  <2>4. s.result # "TIMEOUT"
    BY <2>2, <2>3, SyncKeeps DEF Kept, Untimed
  <2> QED
    BY <2>1, <2>3, <2>4, AfterSyncIsClean
<1>7. CASE DestructorBody(t)
  BY <1>7, CleanUnlock, CleanRecords DEF DestructorBody, Inside, At, Returns
<1> QED
  BY <1>1, <1>2, <1>3, <1>4, <1>5, <1>6, <1>7 DEF BodyStep

LEMMA LeakInvariant ==
  ASSUME FilesOnly
  PROVE  Spec => []LeakInv
<1>1. Init => LeakInv
  <2> SUFFICES ASSUME Init, NEW t \in Threads
               PROVE  /\ holder # t
                      /\ call[t].op \notin VolumeCalls \cup { "innerDir", "noVolume" }
    BY DEF LeakInv
  <2>1. holder = None /\ call[t] = Back("UNUSED")
    BY DEF Init
  <2> QED
    BY <2>1, CleanRecords, LockAssumption
<1>2. Inv /\ OwnInv /\ LeakInv /\ [Next]_vars => LeakInv'
  <2> SUFFICES ASSUME Inv, OwnInv, LeakInv, [Next]_vars PROVE LeakInv'
    OBVIOUS
  <2>1. CASE UNCHANGED vars
    BY <2>1 DEF vars, LeakInv
  <2>2. ASSUME NEW t \in Threads, Start(t) \/ LockStep(t) \/ FailStep(t) \/ BodyStep(t)
        PROVE  LeakInv'
    <3>1. Clean(t)
      BY <2>2, StartIsClean, LockStepIsClean, FailStepIsClean, BodyStepIsClean
    <3> QED
      BY <3>1, CleanStep
  <2> QED
    BY <2>1, <2>2 DEF Next
<1> QED
  BY <1>1, <1>2, OwnInvariant, PTL DEF Spec

\* Whatever times out, fails on the disk or is not ready, tasks that call no method of
\* cFatFs leave the mutex held in one way only: a lock() that has taken it says no,
\* because the card did not answer or because it reads the FR_TIMEOUT that another one
\* wrote after it.  Every other lock() that took the mutex meets an unlock() that gives it.
THEOREM MutexComesBack ==
  ASSUME FilesOnly
  PROVE  Spec => []NothingLeaked
<1>1. LeakInv => NothingLeaked
  BY DEF LeakInv, NothingLeaked
<1> QED
  BY <1>1, LeakInvariant, PTL

=============================================================================
