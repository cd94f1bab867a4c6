------------------------------- MODULE FatFile -------------------------------
(***************************************************************************)
(* cFile of src/fatfs/fatFs.cpp on top of FatVolume: open files with their *)
(* one-sector cache, the data path between caller, cache and clusters, and *)
(* the volume they share with the methods of cFatFs.                       *)
(*                                                                         *)
(* A step is one call of a method, from lock to unlock (FatFsLock is about *)
(* calls that get in each other's way), with at most one fault in it: an   *)
(* access to the card fails, or the power goes and the volume is mounted   *)
(* anew.  A caller whose call failed does nothing more to that file than   *)
(* close it, as the players in src/main/main.cpp do.                       *)
(*                                                                         *)
(* Files are read and written in units, of which a sector has a few.       *)
(***************************************************************************)
EXTENDS FatVolume

CONSTANTS
  UnitsPerSector,  \* SECTOR_SIZE
  Files,           \* the files that are opened, each by one object at a time
  PathOf,          \* their paths
  OtherPaths,      \* further paths that are named in calls, existing or not
  NewPaths,        \* the new paths of rename
  Disk,            \* what the card holds at first
  NullSectors,     \* what mFatFs->mWindowSector may read through the null mFatFs of the constructor
  LowHalf,         \* 2^16: the clusters that DIR_FstClusLO alone can name are below it
  Lengths,         \* the numbers of units that are read or written at once
  Positions,       \* the positions sought
  Used,            \* the calls that are made
  Faults,          \* a subset of { "error", "late", "cut" }
  MaxCalls,        \* bound of the model: the number of calls
  MaxNameCalls,    \* bound of the model: the number of those that are methods of cFatFs
  NamesWithin      \* bound of the model: these are among the first so many calls

VARIABLES
  vol,     \* the card and cFatFs
  obj,     \* the cFile objects, by file
  call,    \* the last call: operation, file or path, argument, result, the units read
  health,  \* history: what became of the volume, see Healths
  calls,   \* the number of calls so far
  names,   \* the number of those that were methods of cFatFs
  view     \* history: what there is to see, see View

vars == << vol, obj, call, health, calls, names, view >>

\* "good": no fault so far; "hurt": a fault, or a call that failed.  Nothing is followed
\* after "damaged" (a cut, or a failed close, while an entry names clusters that truncate
\* freed; a close after a truncate that failed, whose cached sector may be somebody else's
\* by now; a fault while a directory grows; or an open for reading that brings the count,
\* where a close that failed leaves its one, to that of a writer), "misled" (a call went on
\* with an entry it had not found), "spoilt" (an entry written where the null pointer
\* said) and "halved" (an open took the low half of a first cluster that has a high one).
Healths == { "good", "hurt", "damaged", "misled", "spoilt", "halved" }
Followed == { "good", "hurt" }

FS_LOCK == 2        \* the entries of the table of open files
WriteOpen == 256    \* the count of a file open for writing

\* The units that are written to file f: no two that the model writes are alike by chance.
NewUnits(f, n) == [ i \in 1 .. n |-> << f, 10 + i >> ]

NoFile == "none"
NoUnits == [ i \in 1 .. UnitsPerSector |-> << NoFile, 0 >> ]
\* The units in a sector; one that held links or entries shows some bytes.
UnitsOf(content) == IF content.units = << >> THEN NoUnits ELSE content.units

Closed ==
  [ open |-> FALSE, write |-> FALSE, key |-> << 0, 0 >>, start |-> 0, size |-> 0, position |-> 0,
    cluster |-> 0, cached |-> NoSector, units |-> NoUnits, dirty |-> FALSE, written |-> FALSE,
    dirSector |-> NoSector, ownSector |-> NoSector, slot |-> 0, result |-> "OK", shortened |-> FALSE ]

UnitsPerCluster == UnitsPerSector * SectorsPerCluster
SmallerOf(a, b) == IF a < b THEN a ELSE b
LargerOf(a, b) == IF a > b THEN a ELSE b

-----------------------------------------------------------------------------
(* A volume in order, as far as types go.                                            *)

\* A record with the fields in F, and others.
HasFields(r, F) == r = [ x \in DOMAIN r |-> r[x] ] /\ F \subseteq DOMAIN r

EntryOK(e) ==
  /\ HasFields(e, { "kind", "name", "start", "size", "readOnly" })
  /\ e.start \in Clusters \cup { 0 } /\ e.size \in Nat

DataSectors == DataBase .. DataBase + (NumFatEntries - 2) * SectorsPerCluster - 1
UnitsOK == [ 1 .. UnitsPerSector -> (Files \cup { NoFile }) \X Nat ]

\* b is what belongs into sector s.
Belongs(s, b) ==
  /\ HasFields(b, { "links", "entries", "units" })
  /\ b.entries = [ i \in DOMAIN b.entries |-> b.entries[i] ]
  /\ \A i \in DOMAIN b.entries : EntryOK(b.entries[i])
  /\ s \in FatSectors => b.links \in [ 1 .. LinksPerSector -> Clusters \cup { 0, LastLink } ]
  /\ s \in DataSectors => b.units \in UnitsOK \cup { << >> }
  /\ s = FsInfoSector => b.units[1] \in 0 .. Ones

VolumeOK(v) ==
  /\ IsVolume(v)
  /\ HasFields(v, { "dir", "locks", "o", "data", "found", "misled", "unclean" })
  /\ v.fsInfoDirty \in BOOLEAN
  /\ v.sector \in Sectors \cup { NoSector }
  /\ Belongs(v.sector, v.buffer)
  /\ \A s \in Sectors : Belongs(s, v.disk[s])

ObjectOK(o) ==
  /\ HasFields(o, DOMAIN Closed)
  /\ o.start \in Clusters \cup { 0 }
  /\ o.position \in Nat /\ o.size \in Nat
  /\ o.cached \in DataSectors \cup { NoSector }
  /\ o.units \in UnitsOK
  /\ o.dirty \in BOOLEAN /\ o.write \in BOOLEAN /\ o.open \in BOOLEAN
  /\ o.result = "OK" => o.position <= o.size

\* The volume in the slot at start-up: in order, and its free count right, or one that
\* mount replaces.
ASSUME FileAssumption ==
  /\ UnitsPerSector \in Nat \ {0}
  /\ NoFile \notin Files
  /\ \A f \in Files : PathOf[f] \in Seq(STRING)
  /\ OtherPaths \subseteq Seq(STRING) /\ NewPaths \subseteq Seq(STRING)
  /\ LowHalf \in Nat \ {0}
  /\ Lengths \subseteq Nat \ {0} /\ Positions \subseteq Nat
  /\ Faults \subseteq { "error", "late", "cut" }
  /\ MaxCalls \in Nat /\ MaxNameCalls \in Nat

ASSUME DiskAssumption ==
  /\ Disk = [ s \in Sectors |-> Disk[s] ]
  /\ \A s \in Sectors : Belongs(s, Disk[s])
  /\ Disk[FsInfoSector].units[1] \in { ZeroLinks(Disk) } \cup NumFatEntries - 1 .. Ones

-----------------------------------------------------------------------------
(* The data path.  v.o is the object of the call, v.data what it has read. *)

Aligned(position) == position % UnitsPerSector = 0
SectorInFile(position) == (position \div UnitsPerSector) % SectorsPerCluster
UnitIndex(position) == (position % UnitsPerSector) + 1

\* Write the cached sector back if it is dirty.
WriteBack(v) ==
  IF ~v.o.dirty THEN Fails(v, "OK")
  ELSE Then(DiskWrite(v, v.o.cached, Units(v.o.units)), LAMBDA w : [ w EXCEPT !.o.dirty = FALSE ])

\* Where the data of the current position are: 0 if the cluster is out of range.
CurrentSector(o) ==
  IF o.cluster \in Clusters THEN ClusterToSector(o.cluster) + SectorInFile(o.position) ELSE 0

\* A number from getFat or createChain becomes the current cluster.
EnterCluster(v) ==
  CASE v.value < 2    -> Fails(v, "INT_ERR")
    [] v.value = Ones -> Fails(v, "DISK_ERR")
    [] OTHER          -> [ v EXCEPT !.o.cluster = v.value, !.result = "OK" ]

ReadCluster(v) ==
  IF SectorInFile(v.o.position) # 0 THEN Fails(v, "OK")
  ELSE EnterCluster(IF v.o.position = 0 THEN Gives(v, v.o.start) ELSE GetFat(v, v.o.cluster))

Fill(v, s) ==
  Then(DiskRead(v, s), LAMBDA w : [ w EXCEPT !.o.units = UnitsOf(v.disk[s]), !.o.cached = s ])

\* Mutant: a dirty cached sector is passed by.
ReadSectorsPast(v, s, n) ==
  LET Unit(k) == UnitsOf(v.disk[s + (k - 1) \div UnitsPerSector])[UnitIndex(k - 1)]
      Move(w) == [ w EXCEPT !.data = @ \o [ k \in 1 .. n * UnitsPerSector |-> Unit(k) ],
                            !.o.position = @ + n * UnitsPerSector ]
  IN  Then(DiskRead(v, s), Move)

\* n sectors straight to the caller; a dirty cached sector among them is newer.
ReadSectors(v, s, n) ==
  LET Cached(t) == v.o.dirty /\ v.o.cached = t
      At(t) == IF Cached(t) THEN v.o.units ELSE UnitsOf(v.disk[t])
      Unit(k) == At(s + (k - 1) \div UnitsPerSector)[UnitIndex(k - 1)]
      Move(w) == [ w EXCEPT !.data = @ \o [ k \in 1 .. n * UnitsPerSector |-> Unit(k) ],
                            !.o.position = @ + n * UnitsPerSector ]
  IN  Then(DiskRead(v, s), Move)

\* The rest of a sector, or less, out of the cache.
ReadPart(v, n) ==
  LET from == UnitIndex(v.o.position)
      count == SmallerOf(UnitsPerSector - from + 1, n)
  IN  [ v EXCEPT !.data = @ \o SubSeq(v.o.units, from, from + count - 1), !.o.position = @ + count ]

\* Whole sectors of a transfer of n units, up to the end of the cluster.
WholeSectors(o, n) ==
  SmallerOf(n \div UnitsPerSector, SectorsPerCluster - SectorInFile(o.position))

ReadAligned(v, n) ==
  LET s == CurrentSector(v.o)
      whole == WholeSectors(v.o, n)
  IN  IF s = 0 THEN Fails(v, "INT_ERR")
      ELSE IF whole > 0 THEN ReadSectors(v, s, whole)
      ELSE IF s = v.o.cached THEN ReadPart(v, n)
      ELSE Then(Then(WriteBack(v), LAMBDA w : Fill(w, s)), LAMBDA w : ReadPart(w, n))

\* A pass of the loop of read, up to the position end; each moves a unit at least.
MovePass(v, end, k) ==
  LET n == end - v.o.position
  IN  IF v.result # "OK" \/ n = 0 THEN v
      ELSE IF Aligned(v.o.position) THEN Then(ReadCluster(v), LAMBDA w : ReadAligned(w, n))
      ELSE ReadPart(v, n)

Moving == INSTANCE Iteration WITH Step <- MovePass

\* A failure in the loops of read, write and seek is ABORT: it stays in the object.
Abort(v) == IF v.result = "OK" THEN v ELSE [ v EXCEPT !.o.result = v.result ]

Read(v, n) == Abort(Moving!Passes(v, v.o.position + SmallerOf(n, v.o.size - v.o.position))[n])

-----------------------------------------------------------------------------
(* write: v.data holds the units that are still to be written. *)

\* createChain finds no cluster: the loop ends, and the call succeeds with what it has.
WriteCluster(v) ==
  LET First(u) == IF u.o.start = 0 THEN [ u EXCEPT !.o.start = u.value ] ELSE u
  IN  IF SectorInFile(v.o.position) # 0 THEN Fails(v, "OK")
      ELSE With(IF v.o.position = 0 /\ v.o.start # 0 THEN Gives(v, v.o.start)
                ELSE CreateChain(v, IF v.o.position = 0 THEN 0 ELSE v.o.cluster),
                LAMBDA w : IF w.value = 0 THEN Fails(w, "FULL") ELSE Then(EnterCluster(w), First))

\* One diskWrite of n sectors; it may stop after any of them.
SectorPass(v, s, k) ==
  LET units == SubSeq(v.data, 1, UnitsPerSector)
      Onward(w) == [ w EXCEPT !.data = SubSeq(@, UnitsPerSector + 1, Len(@)) ]
  IN  Then(v, LAMBDA u : Then(DiskWrite(u, s + k - 1, Units(units)), Onward))

Sending == INSTANCE Iteration WITH Step <- SectorPass
WriteSectorsFrom(v, s, n) == Sending!Passes(Fails(v, "OK"), s)[n]

WriteSectors(v, s, n) ==
  LET at == (v.o.cached - s) * UnitsPerSector
      Refill(w) ==
        IF v.o.cached \in s .. s + n - 1
          THEN [ w EXCEPT !.o.units = SubSeq(v.data, at + 1, at + UnitsPerSector), !.o.dirty = FALSE ]
          ELSE w
      written == Then(WriteSectorsFrom(v, s, n), Refill)
  IN  Then(written, LAMBDA w : [ w EXCEPT !.o.position = @ + n * UnitsPerSector ])

WritePart(v) ==
  LET from == UnitIndex(v.o.position)
      count == SmallerOf(UnitsPerSector - from + 1, Len(v.data))
      patched == [ i \in 1 .. UnitsPerSector |->
                     IF i \in from .. from + count - 1 THEN v.data[i - from + 1] ELSE v.o.units[i] ]
  IN  [ v EXCEPT !.o.units = patched, !.o.dirty = TRUE, !.o.position = @ + count,
                 !.data = SubSeq(@, count + 1, Len(@)) ]

\* A sector beyond the end of the file is not read: what was cached stays in its tail.
WriteAligned(v) ==
  LET s == CurrentSector(v.o)
      whole == WholeSectors(v.o, Len(v.data))
      filled == IF v.o.cached # s /\ v.o.position < v.o.size THEN Fill(v, s)
                ELSE [ v EXCEPT !.o.cached = s, !.result = "OK" ]
  IN  IF s = 0 THEN Fails(v, "INT_ERR")
      ELSE IF whole > 0 THEN WriteSectors(v, s, whole)
      ELSE Then(filled, WritePart)

\* A pass of the loop of write; each takes a unit at least.
WritePass(v, p, k) ==
  IF v.result # "OK" \/ v.data = << >> THEN v
  ELSE IF Aligned(v.o.position) THEN Then(Then(WriteCluster(v), WriteBack), WriteAligned)
  ELSE WritePart(v)

Writing == INSTANCE Iteration WITH Step <- WritePass

\* The size is brought up to date at the end only: not when the loop was aborted.
Write(v, units) ==
  With(Writing!Passes([ v EXCEPT !.data = units ], 0)[Len(units)], LAMBDA w :
         IF w.result \in { "OK", "FULL" }
           THEN [ w EXCEPT !.o.size = LargerOf(@, w.o.position), !.o.written = TRUE, !.result = "OK" ]
           ELSE Abort(w))

-----------------------------------------------------------------------------
(* seek, truncate, sync. *)

\* A pass of the loop of seek, from one cluster to the next.  Writing stretches the chain,
\* until the volume is full.
SeekPass(v, p, k) ==
  LET Onward(w) == [ w EXCEPT !.o.cluster = w.value, !.o.position = @ + UnitsPerCluster, !.result = "OK" ]
  IN  IF v.result # "OK" THEN v
      ELSE With(IF v.o.write THEN CreateChain(v, v.o.cluster) ELSE GetFat(v, v.o.cluster), LAMBDA c :
                  IF v.o.write /\ c.value = 0 THEN Fails(c, "FULL")
                  ELSE IF c.value = Ones THEN Fails(c, "DISK_ERR")
                  ELSE IF c.value \notin Clusters THEN Fails(c, "INT_ERR")
                  ELSE Onward(c))

Seeking == INSTANCE Iteration WITH Step <- SeekPass

\* rest units to go from the start of the current cluster.
SeekOn(v, rest) ==
  LET clusters == (rest - 1) \div UnitsPerCluster
      last == rest - clusters * UnitsPerCluster
      Here(w) ==
        IF last % UnitsPerSector = 0 THEN [ w EXCEPT !.o.position = @ + last, !.value = NoSector ]
        ELSE IF w.o.cluster \notin Clusters
          THEN [ w EXCEPT !.o.position = @ + last, !.result = "INT_ERR" ]
        ELSE [ w EXCEPT !.o.position = @ + last,
                        !.value = ClusterToSector(w.o.cluster) + last \div UnitsPerSector ]
  IN  With(Seeking!Passes(Fails(v, "OK"), 0)[clusters], LAMBDA w :
             CASE w.result = "OK"   -> Here(w)
               [] w.result = "FULL" -> [ w EXCEPT !.o.position = @ + UnitsPerCluster, !.result = "OK", !.value = NoSector ]
               [] OTHER             -> w)

\* The target lies in the current cluster or after it.
SeekForward(o, target) ==
  o.position > 0 /\ (target - 1) \div UnitsPerCluster >= (o.position - 1) \div UnitsPerCluster

\* Mutant: the number that stands for a disk error becomes the first cluster.
SeekFromStartAnyway(v, target) ==
  LET Begin(c) == [ c EXCEPT !.o.start = c.value, !.o.cluster = c.value, !.o.position = 0 ]
  IN  With(IF v.o.start = 0 THEN CreateChain(v, 0) ELSE Gives(v, v.o.start), LAMBDA c :
             IF c.value = 1 THEN [ c EXCEPT !.o.position = 0, !.result = "INT_ERR" ]
             ELSE IF c.value = 0 THEN [ Begin(c) EXCEPT !.result = "OK", !.value = NoSector ]
             ELSE SeekOn(Begin(c), target))

\* From the first cluster on, which is made if there is none.
SeekFromStart(v, target) ==
  LET Begin(c) == [ c EXCEPT !.o.start = c.value, !.o.cluster = c.value, !.o.position = 0 ]
  IN  With(IF v.o.start = 0 THEN CreateChain(v, 0) ELSE Gives(v, v.o.start), LAMBDA c :
             IF c.value \in { 1, Ones }
               THEN [ c EXCEPT !.o.position = 0, !.result = IF c.value = 1 THEN "INT_ERR" ELSE "DISK_ERR" ]
             ELSE IF c.value = 0 THEN [ Begin(c) EXCEPT !.result = "OK", !.value = NoSector ]
             ELSE SeekOn(Begin(c), target))

SeekFromHere(v, target) ==
  LET base == ((v.o.position - 1) \div UnitsPerCluster) * UnitsPerCluster
  IN  SeekOn([ v EXCEPT !.o.position = base ], target - base)

\* seek returns what the object had as its result, unless it aborts.
Seek(v, position) ==
  LET target == IF position > v.o.size /\ ~v.o.write THEN v.o.size ELSE position
      moved == IF target = 0 THEN [ v EXCEPT !.o.position = 0, !.value = NoSector ]
               ELSE IF SeekForward(v.o, target) THEN SeekFromHere(v, target)
               ELSE SeekFromStart(v, target)
      Cache(w) ==
        IF Aligned(w.o.position) \/ w.value = w.o.cached THEN w
        ELSE Then(WriteBack(w), LAMBDA u : Fill(u, w.value))
      Grow(w) ==
        IF w.o.position > w.o.size THEN [ w EXCEPT !.o.size = w.o.position, !.o.written = TRUE ] ELSE w
  IN  With(Abort(Then(Then(moved, Cache), Grow)), LAMBDA w : Fails(w, w.o.result))

\* truncate: free the clusters after the position.
CutOff(v) ==
  IF v.o.position = 0 THEN [ RemoveChain(v, v.o.start) EXCEPT !.o.start = 0 ]
  ELSE With(GetFat(v, v.o.cluster), LAMBDA w :
              IF w.value \in { 1, Ones } THEN Fails(w, IF w.value = 1 THEN "INT_ERR" ELSE "DISK_ERR")
              ELSE IF w.value >= NumFatEntries THEN Fails(w, "OK")
              ELSE Then(PutFat(w, v.o.cluster, LastLink), LAMBDA u : RemoveChain(u, u.value)))

KeepResult(v) == [ v EXCEPT !.o.result = v.result ]

\* truncate does nothing, and returns the old error, once a call has failed.
Truncate(v) ==
  LET o == [ v.o EXCEPT !.size = v.o.position, !.written = TRUE, !.shortened = TRUE ]
      done == IF v.o.size > v.o.position
                THEN Then(CutOff([ v EXCEPT !.o = o ]), WriteBack)
                ELSE Fails(v, "OK")
  IN  IF ~v.o.write THEN [ v EXCEPT !.o.result = "DENIED", !.result = "DENIED" ]
      ELSE IF v.o.result # "OK" THEN Fails(v, v.o.result)
      ELSE KeepResult(done)

\* What sync writes into the entry, through a pointer into the window.
Update(v) ==
  IF v.o.slot \in DOMAIN v.buffer.entries
    THEN LET e == [ v.buffer.entries[v.o.slot] EXCEPT !.size = v.o.size, !.start = v.o.start ]
         IN  [ v EXCEPT !.buffer.entries[v.o.slot] = e, !.dirty = TRUE, !.o.written = FALSE ]
    ELSE [ v EXCEPT !.dirty = TRUE, !.o.written = FALSE ]

\* sync: the cached sector, the entry, the window and FSINFO.
Sync(v) ==
  LET moved == Then(WriteBack(v), LAMBDA w : MoveWindow(w, w.o.dirSector))
  IN  IF v.o.written THEN KeepResult(Then(Then(moved, Update), SyncFs)) ELSE Fails(v, v.o.result)

-----------------------------------------------------------------------------
(* The constructor.  mDirSectorNum comes from the null pointer, and so does the type *)
(* of the FAT by which loadCluster takes the first cluster whole or its low half     *)
(* only.  An open that did not find its file takes the entry where the walk stopped, *)
(* a blank one even.                                                                 *)

\* The table of open files with this count under key.
Entered(locks, key, count) == [ k \in DOMAIN locks \cup { key } |-> IF k = key THEN count ELSE locks[k] ]

\* loadCluster, where the null pointer reads the type FS_FAT32 (whole) or another.
LoadCluster(e, whole) == IF whole THEN e.start ELSE e.start % LowHalf

Open(v, path, write, dirSector, whole) ==
  LET w == [ Walk(v, path) EXCEPT !.o = Closed ]
      e == Shown(w)
      opens == IF Key(w) \in DOMAIN w.locks THEN w.locks[Key(w)] ELSE 0
      o == [ Closed EXCEPT !.open = TRUE, !.write = write, !.key = Key(w),
                           !.start = LoadCluster(e, whole), !.size = e.size, !.dirSector = dirSector,
                           !.ownSector = w.sector, !.slot = w.dir.slot ]
  IN  IF opens = WriteOpen \/ (write /\ opens > 0) THEN Fails(w, "LOCKED")
      ELSE IF opens = 0 /\ Cardinality(DOMAIN w.locks) >= FS_LOCK THEN Fails(w, "TOO_MANY_OPEN_FILES")
      ELSE IF e.kind = "dir" THEN Fails(w, "NO_FILE")
      ELSE IF write /\ e.readOnly THEN Fails(w, "DENIED")
      ELSE [ w EXCEPT !.o = o, !.misled = ~w.found, !.locks = Entered(@, Key(w), IF write THEN WriteOpen ELSE opens + 1) ]

\* The destructor.  The object is gone even when its sync has failed; then its entry in
\* the table of open files stays.
Close(v) ==
  LET opens == v.locks[v.o.key]
      left == IF opens \in { 1, WriteOpen } THEN [ k \in DOMAIN v.locks \ { v.o.key } |-> v.locks[k] ]
              ELSE [ v.locks EXCEPT ![v.o.key] = opens - 1 ]
  IN  [ Then(Sync(v), LAMBDA w : [ w EXCEPT !.locks = left ]) EXCEPT !.o.open = FALSE ]

-----------------------------------------------------------------------------
(* What there is to see: d is the card, or the card with the window over it. *)

Paths == { PathOf[f] : f \in Files } \cup OtherPaths

\* The clusters of a chain; 0 at the end says that it is broken.
Chain(d, start) ==
  LET from[c \in Nat, n \in Nat] ==
        IF c \notin Clusters \/ n = 0 THEN << 0 >>
        ELSE IF LinkOn(d, c) = LastLink THEN << c >> ELSE << c >> \o from[LinkOn(d, c), n - 1]
  IN  IF start = 0 THEN << >> ELSE from[start, NumFatEntries]

\* The entries of the directory that starts in cluster c.
EntriesOn(d, c) ==
  LET chain == Chain(d, c)
      count == Len(chain) * EntriesPerCluster
      At(i) == d[ClusterToSector(chain[(i - 1) \div EntriesPerCluster + 1]) + SectorInCluster(i - 1)]
  IN  [ i \in 1 .. count |-> At(i).entries[SlotOf(i - 1)] ]

\* The entry of that name in the directory that the entry e names, Blank if there is none.
EntryPass(e, p, k) ==
  LET es == EntriesOn(p.card, e.start)
      Matches(i) == /\ es[i].name = p.path[k] /\ es[i].kind \in { "file", "dir" }
                    /\ \A j \in 1 .. i : es[j].kind # "blank"
      found == { i \in DOMAIN es : Matches(i) }
  IN  IF e = Blank \/ found = {} THEN Blank ELSE es[CHOOSE i \in found : TRUE]

Naming == INSTANCE Iteration WITH Step <- EntryPass
EntryOn(d, path) ==
  Naming!Passes(Entry("dir", "none", RootCluster, 0), [ card |-> d, path |-> path ])[Len(path)]

\* A file whose chain is broken, or too short for its size.
Broken == << << "broken", 0 >> >>

\* The units of a file, where At gives those of a sector.
UnitsOn(d, start, size, At(_)) ==
  LET chain == Chain(d, start)
      Sector(i) == ClusterToSector(chain[i \div UnitsPerCluster + 1]) + SectorInFile(i)
  IN  IF Len(chain) * UnitsPerCluster < size \/ \E i \in DOMAIN chain : chain[i] = 0 THEN Broken
      ELSE [ i \in 1 .. size |-> At(Sector(i - 1))[UnitIndex(i - 1)] ]

Absent == << << "absent", 0 >> >>
Unsettled == << << "unsettled", 0 >> >>

ContentOn(d, f) ==
  LET e == EntryOn(d, PathOf[f])
  IN  IF e.kind # "file" THEN Absent ELSE UnitsOn(d, e.start, e.size, LAMBDA s : UnitsOf(d[s]))

\* What a reader of f finds: its object o, if open, has a size, a first cluster and a cache.
Content(v, o, f) ==
  LET At(s) == IF o.dirty /\ o.cached = s THEN o.units ELSE UnitsOf(v.disk[s])
  IN  IF o.open THEN UnitsOn(Logical(v), o.start, o.size, At) ELSE ContentOn(Logical(v), f)

Kept(v, o, f) == IF o.shortened THEN Unsettled ELSE ContentOn(v.disk, f)

\* The first cluster of what a path names, as its object has it if it is open.
Start(v, os, p) ==
  LET opened == { f \in Files : PathOf[f] = p /\ os[f].open }
  IN  IF opened # {} THEN os[CHOOSE f \in opened : TRUE].start ELSE EntryOn(Logical(v), p).start

\* All of it together, for the volume v and the objects os.
View(v, os) ==
  [ content |-> [ f \in Files |-> Content(v, os[f], f) ],
    kept |-> [ f \in Files |-> Kept(v, os[f], f) ],
    root |-> Chain(Logical(v), RootCluster),
    chains |-> [ p \in Paths |-> Chain(Logical(v), Start(v, os, p)) ],
    used |-> { c \in Clusters : LinkOn(Logical(v), c) # 0 } ]

FileAt(path) == IF \E f \in Files : PathOf[f] = path THEN CHOOSE f \in Files : PathOf[f] = path ELSE NoFile

-----------------------------------------------------------------------------
(* The calls. *)

\* What is left of a volume between two calls.
AtRest(v) ==
  [ v EXCEPT !.dir = NoDir, !.o = << >>, !.data = << >>, !.fuse = 0, !.fault = "none",
             !.result = "OK", !.value = 0, !.found = FALSE ]

\* Body done on v without a fault, or with one at any of the accesses it makes; only one
\* fault in a behaviour.
Far == 1000
Outcomes(v, Body(_)) ==
  LET Accesses(k) == Far - Body([ v EXCEPT !.fuse = Far, !.fault = k ]).fuse
      FaultAt(k) == { Body([ v EXCEPT !.fuse = n, !.fault = k ]) : n \in 1 .. Accesses(k) }
  IN  { Body(v) } \cup (IF health = "good" THEN UNION { FaultAt(k) : k \in Faults } ELSE {})

\* An entry that names clusters which truncate has freed.
Stale(w, f) == IF f # NoFile THEN w.o.shortened ELSE FALSE
Exposed(w, on) == Stale(w, on) \/ \E f \in Files \ { on } : obj[f].shortened

HealthAfter(op, on, w) ==
  LET lost == w.dead /\ Exposed(w, on)
      unclosed == op = "close" /\ w.result # "OK" /\ Stale(w, on)
      stray == on # NoFile /\ op = "close" /\ obj[on].result # "OK" /\ obj[on].shortened /\ obj[on].dirty
      crowded == op = "open" /\ w.result = "OK" /\ ~w.o.write /\ w.locks[w.o.key] = WriteOpen
      astray == on # NoFile /\ op \in { "sync", "close" } /\ obj[on].written
                /\ w.o.dirSector \in Sectors \ { w.o.ownSector }
      halved == op = "open" /\ w.result = "OK" /\ w.o.start # Shown(w).start
  IN  IF halved THEN "halved"
      ELSE IF w.misled THEN "misled"
      ELSE IF astray THEN "spoilt"
      ELSE IF lost \/ unclosed \/ stray \/ crowded \/ w.unclean THEN "damaged"
      ELSE IF w.fault # "none" \/ w.result \in { "DISK_ERR", "INT_ERR" } THEN "hurt"
      ELSE health

\* The object after the call: a sync that succeeds takes a shortening to the card.
After(op, w) ==
  IF ~w.o.open THEN Closed
  ELSE [ w.o EXCEPT !.shortened = @ /\ ~(op = "sync" /\ w.result = "OK") ]

\* A call of op on the file on, or on a path; it ends with w, or in a cut.
Ends(op, on, path, arg, w) ==
  /\ call' = [ op |-> op, on |-> on, path |-> path, arg |-> arg,
               result |-> IF w.dead THEN "CUT" ELSE w.result, data |-> CASE op = "read"  -> w.data
                           [] op = "write" -> NewUnits(on, arg)
                           [] OTHER        -> << >> ]
  /\ health' = HealthAfter(op, on, w)
  /\ calls' = calls + 1
  /\ names' = names + (IF on = NoFile THEN 1 ELSE 0)
  /\ vol' = IF w.dead THEN Mount(w.disk) ELSE AtRest(w)
  /\ obj' = IF w.dead THEN [ f \in Files |-> Closed ]
            ELSE IF on = NoFile THEN obj
            ELSE [ obj EXCEPT ![on] = After(op, w) ]
  /\ view' = IF health' \in Followed THEN View(vol', obj') ELSE view

\* No call after one that has kept the mutex.
May(op) == op \in Used /\ calls < MaxCalls /\ health \in Followed /\ call.result # "TIMEOUT"

OpenFile(f) ==
  /\ May("open")
  /\ ~obj[f].open
  /\ \E write, whole \in BOOLEAN, s \in NullSectors :
       \E w \in Outcomes(vol, LAMBDA v : Open(v, PathOf[f], write, s, whole)) :
         Ends("open", f, PathOf[f], 0, w)

\* The method op of the open file f, with argument arg.
FileCall(op, f, arg, Body(_)) ==
  /\ May(op)
  /\ obj[f].open
  /\ obj[f].result = "OK"
  /\ \E w \in Outcomes([ vol EXCEPT !.o = obj[f] ], Body) : Ends(op, f, PathOf[f], arg, w)

ReadFile(f) == \E n \in Lengths : FileCall("read", f, n, LAMBDA v : Read(v, n))
WriteFile(f) ==
  /\ obj[f].write
  /\ \E n \in Lengths : FileCall("write", f, n, LAMBDA v : Write(v, NewUnits(f, n)))
SeekFile(f) == \E p \in Positions : FileCall("seek", f, p, LAMBDA v : Seek(v, p))
TruncateFile(f) == FileCall("truncate", f, 0, Truncate)
SyncFile(f) == FileCall("sync", f, 0, Sync)

CloseFile(f) ==
  /\ May("close")
  /\ obj[f].open
  /\ \E w \in Outcomes([ vol EXCEPT !.o = obj[f] ], Close) : Ends("close", f, PathOf[f], 0, w)

\* The method op of cFatFs on path.
PathCall(op, path, arg, Body(_)) ==
  /\ May(op)
  /\ names < MaxNameCalls /\ calls < NamesWithin
  /\ \E w \in Outcomes(vol, Body) : Ends(op, NoFile, path, arg, w)

UnlinkPath == \E p \in Paths : PathCall("unlink", p, 0, LAMBDA v : Unlink(v, p))
ChangePath == \E p \in Paths : PathCall("attributes", p, 0, LAMBDA v : ChangeAttributes(v, p, TRUE))
TouchPath == \E p \in Paths : PathCall("utime", p, 0, LAMBDA v : Utime(v, p))
MakePath == \E p \in Paths : PathCall("mkdir", p, 0, LAMBDA v : MakeSubDirectory(v, p))
RenamePath ==
  \E p \in Paths, q \in NewPaths : PathCall("rename", p, 0, LAMBDA v : Rename(v, p, q))
LabelVolume ==
  \E set \in BOOLEAN : PathCall("label", << >>, 0, LAMBDA v : SetLabel(v, set))

Init ==
  /\ vol = Mount(Disk)
  /\ obj = [ f \in Files |-> Closed ]
  /\ call = [ op |-> "mount", on |-> NoFile, path |-> << >>, arg |-> 0, result |-> "OK", data |-> << >> ]
  /\ health = "good"
  /\ calls = 0
  /\ names = 0
  /\ view = View(vol, obj)

FileStep ==
  \E f \in Files : OpenFile(f) \/ ReadFile(f) \/ WriteFile(f) \/ SeekFile(f) \/ TruncateFile(f)
                   \/ SyncFile(f) \/ CloseFile(f)
PathStep ==
  UnlinkPath \/ ChangePath \/ TouchPath \/ MakePath \/ RenamePath \/ LabelVolume

Next == FileStep \/ PathStep
Spec == Init /\ [][Next]_vars

-----------------------------------------------------------------------------
(* Properties. *)

\* The state of the abstract store.
Store == INSTANCE FileStore
  WITH content <- view.content,
       kept <- view.kept,
       position <- [ f \in Files |-> IF obj[f].open THEN obj[f].position ELSE 1000 ],
       answer <- [ call EXCEPT !.on = FileAt(call.path) ]

InChain(p) == { view.chains[p][i] : i \in DOMAIN view.chains[p] }
InRoot == { view.root[i] : i \in DOMAIN view.root }

Settled == health \in Followed

\* The first two entries of a sub-directory name directories that others name.
Dots == { ".", ".." }
NamesChain(e) == e.start # 0 /\ ~(e.kind = "dir" /\ e.name \in Dots)

\* The root directory starts in a cluster that no entry names.
RootPlace == << NoSector, 0 >>
RootClaim == << RootPlace, RootCluster >>

\* The first clusters that are named on card d, each with the place of the entry.
Heads(d) ==
  { RootClaim } \cup
  UNION { { << << s, i >>, d[s].entries[i].start >> :
              i \in { j \in DOMAIN d[s].entries : NamesChain(d[s].entries[j]) } } : s \in DataSectors }

\* Of the claims in K, each is to the start of a chain, and no two are to the same one.
HeadsApart(d, K) ==
  \A h \in K :
    /\ h[2] \in Clusters /\ LinkOn(d, h[2]) # 0
    /\ \A c \in Clusters : LinkOn(d, c) # h[2]
    /\ \A g \in K : g[2] = h[2] => g[1] = h[1]

\* A card that may be mounted.
Mountable(d) == TableSound(d) /\ HeadsApart(d, Heads(d))

\* The place of the entry of an open file.
Own(o) == << o.ownSector, o.slot >>

\* The first clusters that are named, by an entry that is not stale or by an object that
\* writes its file.
Writers(os) == { f \in Files : os[f].open /\ os[f].write }
Named(v, os) ==
  { h \in Heads(Logical(v)) : \A f \in Writers(os) : os[f].shortened => h[1] # Own(os[f]) }
  \cup { << Own(os[f]), os[f].start >> : f \in { g \in Writers(os) : os[g].start # 0 } }

\* A path with the names of files and directories.
Names(path) == path \in Seq(STRING) /\ Len(path) # 0 /\ \A k \in 1 .. Len(path) : path[k] \notin Dots

\* Files are opened in the root directory of a card in order.
Flat ==
  /\ IsFiniteSet(Files)
  /\ Mountable(Disk)
  /\ \A f \in Files : Len(PathOf[f]) = 1
  /\ \A p \in Paths \cup NewPaths : Names(p)

\* All states: sectors hold what belongs into them, and the fields are in range, but for an
\* object that has half of a first cluster.
TypeOK ==
  /\ VolumeOK(vol)
  /\ DOMAIN obj = Files /\ (health # "halved" => \A f \in Files : ObjectOK(obj[f]))
  /\ health \in Healths
  /\ calls \in 0 .. MaxCalls /\ names \in 0 .. MaxNameCalls

\* No cluster is in two chains or twice in one, every chain ends, and it is long enough
\* for the size of its file: whatever createChain, removeChain, truncate and unlink did,
\* and wherever an access failed or the power went (fatFs.cpp:1708, 1772).  As long as
\* nothing has failed, every cluster that is not free is in some chain.
EveryClusterOnce ==
  /\ Settled =>
       /\ 0 \notin InRoot
       /\ \A p \in Paths :
            /\ 0 \notin InChain(p)
            /\ Cardinality(InChain(p)) = Len(view.chains[p])
            /\ InChain(p) \cap InRoot = {}
            /\ \A q \in Paths \ {p} : InChain(p) \cap InChain(q) = {}
       /\ \A f \in Files : view.content[f] # Broken
  /\ health = "good" => view.used = InRoot \cup UNION { InChain(p) : p \in Paths }

\* Every first cluster that is named starts a chain, and nobody else names it: whoever frees
\* a chain frees only his own (fatFs.cpp:1708).  And as long as no entry is stale the same
\* holds of the card alone: the power may go (fatFs.cpp:3245).
FirstClustersApart ==
  Settled =>
    /\ TableInv(vol)
    /\ HeadsApart(Logical(vol), Named(vol, obj))
    /\ (\A f \in Files : ~obj[f].shortened) => Mountable(vol.disk)

\* As long as nothing has failed, the count of free clusters is right, and so is the one
\* that FSINFO keeps once the flag says that it is up to date (fatFs.cpp:1558).
FreeCountRight ==
  health = "good" =>
    /\ vol.free \in { NumFatEntries - 2 - Cardinality(view.used), Ones }
    /\ ~vol.fsInfoDirty => vol.disk[FsInfoSector].units[1] \in { vol.free, Ones }

\* The volume is the store of FileStore: no call on one file, failed or cut short, touches
\* what another holds or keeps; a sync that succeeds keeps everything; reads return what
\* was written.
IsFileStore == Store!Init /\ [][~Settled' \/ Store!Next]_vars

Exists(v, path) == EntryOn(Logical(v), path).kind \in { "file", "dir" }

\* fatFs.h calls FR_OK "Succeeded" (line 59), mkDir "Create a sub directory" (134) and unlink
\* "Delete an existing file or directory" (139): a directory whose making succeeds is there,
\* and what was deleted with success existed.
OkMeansDone ==
  [][ call'.result = "OK" /\ Settled' =>
        /\ call'.op = "mkdir" => Exists(vol', call'.path)
        /\ call'.op = "unlink" => Exists(vol, call'.path) ]_vars
=============================================================================
