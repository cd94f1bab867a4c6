------------------------------ MODULE FatVolume ------------------------------
(***************************************************************************)
(* The structures of a FAT32 volume as src/fatfs/fatFs.cpp keeps them on   *)
(* top of the allocation table: FSINFO, the directories, the methods of    *)
(* cFatFs that work on names, and the mount.                               *)
(*                                                                         *)
(* Names are model values, a long name has one entry.                      *)
(***************************************************************************)
EXTENDS FatTable, Sequences, FiniteSets

CONSTANT EntriesPerSector    \* SECTOR_SIZE / SZ_DIRE

ASSUME EntriesAssumption == EntriesPerSector \in Nat \ {0, 1}

EntriesPerCluster == EntriesPerSector * SectorsPerCluster

\* Directory entries.  kind "blank" is a name that starts with 0, "deleted" one that
\* starts with DDEM, "long" a part of a long name, "label" the volume's.
Entry(kind, name, start, size) ==
  [ kind |-> kind, name |-> name, start |-> start, size |-> size, readOnly |-> FALSE ]
Blank == Entry("blank", "none", 0, 0)
Deleted == Entry("deleted", "none", 0, 0)
BlankEntries == [ i \in 1 .. EntriesPerSector |-> Blank ]

-----------------------------------------------------------------------------
(* FSINFO. *)

\* The result of writing FSINFO is not looked at; CTRL_SYNC does nothing on this card.
SyncFs(v) ==
  LET info == Units(<< v.free, v.last >>)
      Update(w) ==
        IF ~w.fsInfoDirty THEN w
        ELSE [ DiskWrite(w, FsInfoSector, info) EXCEPT !.sector = FsInfoSector, !.buffer = info,
                                                       !.fsInfoDirty = FALSE, !.result = "OK" ]
  IN  Then(SyncWindow(v), Update)

-----------------------------------------------------------------------------
(* Directories: v.dir is the cDirectory that the method works with.  Its slot points *)
(* into the window, wherever the window is by then.                                  *)

NoDir == [ start |-> 0, index |-> 0, cluster |-> 0, sector |-> NoSector, slot |-> 0, long |-> Ones ]

SlotOf(index) == (index % EntriesPerSector) + 1
SectorInCluster(index) == (index % EntriesPerCluster) \div EntriesPerSector

\* setIndex: follow the chain of the table from cluster c over n whole clusters.
TablePass(v, p, k) ==
  Then(v, LAMBDA u :
         With(GetFat(u, u.value), LAMBDA w :
                IF w.value = Ones THEN Fails(w, "DISK_ERR")
                ELSE IF w.value \notin Clusters THEN Fails(w, "INT_ERR")
                ELSE w))

Following == INSTANCE Iteration WITH Step <- TablePass
TableCluster(v, c, n) == Following!Passes(Gives(Fails(v, "OK"), c), 0)[n]

SetIndex(v, index) ==
  LET first == IF v.dir.start = 0 THEN RootCluster ELSE v.dir.start
      w == TableCluster([ v EXCEPT !.dir.index = index ], first, index \div EntriesPerCluster)
      Found(u) ==
        IF ClusterToSector(u.value) = 0 THEN Fails([ u EXCEPT !.dir.cluster = u.value ], "INT_ERR")
        ELSE [ u EXCEPT !.dir.cluster = u.value,
                        !.dir.sector = ClusterToSector(u.value) + SectorInCluster(index),
                        !.dir.slot = SlotOf(index) ]
  IN  IF v.dir.start # 0 /\ v.dir.start \notin Clusters
        THEN Fails([ v EXCEPT !.dir.index = index ], "INT_ERR")
        ELSE Then(w, Found)

\* The zeroes that next (1) writes over the sectors of a new cluster.
CleanPass(v, p, k) ==
  Then(v, LAMBDA u :
         Then(SyncWindow([ u EXCEPT !.dirty = TRUE ]), LAMBDA w : [ w EXCEPT !.sector = @ + 1 ]))

Cleaning == INSTANCE Iteration WITH Step <- CleanPass
Clean(v) == Cleaning!Passes(Fails(v, "OK"), 0)[SectorsPerCluster]

\* next (1) at the end of the chain.  The new cluster is part of the directory before it
\* is clean: a fault in between is kept in v.unclean.
Stretch(v) ==
  LET Blanked(w, first) ==
        Then(Clean([ w EXCEPT !.buffer = Entries(BlankEntries), !.sector = first ]),
             LAMBDA u : [ u EXCEPT !.sector = first ])
      Stretched(c) ==
        With(Then(SyncWindow(c), LAMBDA w : Blanked(w, ClusterToSector(c.value))), LAMBDA w :
               [ w EXCEPT !.value = c.value, !.unclean = @ \/ (v.fuse # 0 /\ w.fuse = 0) ])
  IN  With(CreateChain(v, v.dir.cluster), LAMBDA c :
             CASE c.value = 0    -> Fails(c, "DENIED")
               [] c.value = 1    -> Fails(c, "INT_ERR")
               [] c.value = Ones -> Fails(c, "DISK_ERR")
               [] OTHER          -> Stretched(c))

\* next: the sector moves on before the end of the table is known.
NextEntry(v, stretch) ==
  LET i == v.dir.index + 1
      w == [ v EXCEPT !.dir.sector = @ + 1 ]
      Here(u) == [ u EXCEPT !.dir.index = i, !.dir.slot = SlotOf(i), !.result = "OK" ]
      Enter(u) ==
        Here([ u EXCEPT !.dir.cluster = u.value, !.dir.sector = ClusterToSector(u.value) ])
  IN  IF v.dir.sector = NoSector THEN Fails(v, "NO_FILE")
      ELSE IF i % EntriesPerSector # 0 THEN Here(v)
      ELSE IF i % EntriesPerCluster # 0 THEN Here(w)
      ELSE With(GetFat(w, v.dir.cluster), LAMBDA g :
                  IF g.value <= 1 THEN Fails(g, "INT_ERR")
                  ELSE IF g.value = Ones THEN Fails(g, "DISK_ERR")
                  ELSE IF g.value \in Clusters THEN Enter(g)
                  ELSE IF stretch THEN Then(Stretch(g), Enter)
                  ELSE Fails(g, "NO_FILE"))

\* What the slot shows.  Where the window shows no directory it is some bytes; one
\* reading of them stands for all, as nothing is followed after it.
Foreign == Entry("file", "none", 0, 0)
Shown(v) == IF v.dir.slot \in DOMAIN v.buffer.entries THEN v.buffer.entries[v.dir.slot] ELSE Foreign

\* Write through the slot; a window that shows no directory is left alone here.
Mark(v, e) ==
  IF v.dir.slot \in DOMAIN v.buffer.entries
    THEN [ v EXCEPT !.buffer.entries[v.dir.slot] = e, !.dirty = TRUE ]
    ELSE [ v EXCEPT !.dirty = TRUE ]

\* Where the long name of the entry at hand begins: there, or nowhere after a short
\* name that does not match.
AfterEntry(v, e) ==
  IF e.kind = "long" THEN [ v EXCEPT !.dir.long = v.dir.index ] ELSE [ v EXCEPT !.dir.long = Ones ]

\* The loops over a table end at what they look for, where another pass changes nothing,
\* and there are no more passes than entries.
MaxEntries == EntriesPerCluster * NumFatEntries

FindPass(v, name, k) ==
  LET Look(w) ==
        LET e == Shown(w)
        IN  IF e.kind = "blank" THEN Fails(w, "NO_FILE")
            ELSE IF e.kind \in { "file", "dir" } /\ e.name = name THEN w
            ELSE NextEntry(AfterEntry(w, e), FALSE)
  IN  Then(v, LAMBDA u : Then(MoveWindow(u, u.dir.sector), Look))

Finding == INSTANCE Iteration WITH Step <- FindPass
Find(v, name) ==
  Then(SetIndex(v, 0), LAMBDA w : Finding!Passes([ w EXCEPT !.dir.long = Ones ], name)[MaxEntries])

\* read: the next entry that is the label (vol), or that is not.  A failure clears the
\* sector of the cDirectory.
ReadPass(v, wanted, k) ==
  LET Look(w) ==
        IF Shown(w).kind = "blank" THEN Fails(w, "NO_FILE")
        ELSE IF Shown(w).kind \in wanted THEN w
        ELSE NextEntry(w, FALSE)
  IN  Then(v, LAMBDA u : Then(MoveWindow(u, u.dir.sector), Look))

Reading == INSTANCE Iteration WITH Step <- ReadPass
ReadEntry(v, vol) ==
  With(Reading!Passes(v, IF vol THEN { "label" } ELSE { "file", "dir" })[MaxEntries], LAMBDA w :
         IF w.result = "OK" THEN w ELSE [ w EXCEPT !.dir.sector = NoSector ])

\* The end of the table is not what the caller of remove or allocate is told.
ButNoFile(v, r) == IF v.result = "NO_FILE" THEN Fails(v, r) ELSE v

\* remove: from the long name, if there is one, to the short name that is entry i.
RemovePass(v, i, k) ==
  LET Erase(w) ==
        LET m == Mark(w, Deleted) IN IF m.dir.index >= i THEN m ELSE NextEntry(m, FALSE)
  IN  Then(v, LAMBDA u : Then(MoveWindow(u, u.dir.sector), Erase))

Removing == INSTANCE Iteration WITH Step <- RemovePass
Remove(v) ==
  ButNoFile(Then(SetIndex(v, IF v.dir.long = Ones THEN v.dir.index ELSE v.dir.long),
                 LAMBDA u : Removing!Passes(u, v.dir.index)[MaxEntries]), "INT_ERR")

\* allocate (1): the first entry that is free, if need be in a new cluster.
AllocatePass(v, p, k) ==
  LET Look(w) == IF Shown(w).kind \in { "blank", "deleted" } THEN w ELSE NextEntry(w, TRUE)
  IN  Then(v, LAMBDA u : Then(MoveWindow(u, u.dir.sector), Look))

Allocating == INSTANCE Iteration WITH Step <- AllocatePass
Allocate(v) ==
  ButNoFile(Then(SetIndex(v, 0), LAMBDA u : Allocating!Passes(u, 0)[MaxEntries]), "DENIED")

\* followPath: the names of the path, one in the directory of the other.
FollowPass(v, path, k) ==
  LET Enter(u) ==
        IF k = 1 THEN u
        ELSE IF Shown(u).kind # "dir" THEN Fails(u, "NO_PATH")
        ELSE [ u EXCEPT !.dir.start = Shown(u).start ]
      Seen(w) == ButNoFile(Find(w, path[k]), IF k < Len(path) THEN "NO_PATH" ELSE "NO_FILE")
  IN  Then(Then(v, Enter), Seen)

Walking == INSTANCE Iteration WITH Step <- FollowPass
FollowPath(v, path) == Walking!Passes([ v EXCEPT !.dir = NoDir, !.result = "OK" ], path)[Len(path)]

-----------------------------------------------------------------------------
(* The methods of cFatFs on names.  followPath leaves its result in the cDirectory, *)
(* and the methods look at their own: they go on with the entry where the walk      *)
(* stopped, whether it found the name or not.  v.misled says that this was neither  *)
(* the entry of the name nor a blank one.                                           *)

OnBlank(v) == v.sector = v.dir.sector /\ Shown(v).kind = "blank"

Walk(v, path) ==
  With(FollowPath(v, path), LAMBDA w :
         [ w EXCEPT !.result = "OK", !.found = w.result = "OK",
                    !.misled = @ \/ (w.result # "OK" /\ ~OnBlank(w)) ])

\* checkFileLock (2): nobody has the object open.
Key(v) == << v.dir.start, v.dir.index >>
Free(v) == IF Key(v) \in DOMAIN v.locks THEN Fails(v, "LOCKED") ELSE v

\* The destructor of a cDirectory that is declared within the method waits for the mutex
\* that the method itself holds.  What mResult is left with is FR_TIMEOUT, whatever was
\* there, and with it unlock keeps the mutex: FatFsLock tells what comes of that.
TimesOut(v) == Fails(v, "TIMEOUT")

\* unlink looks into a sub-directory for entries after its first two, in a cDirectory of
\* its own, and never comes to remove it.
IfEmpty(v, e) ==
  LET Seen == Then(SetIndex([ v EXCEPT !.dir.start = e.start ], 2), LAMBDA u : ReadEntry(u, FALSE))
  IN  IF e.start # 0 /\ e.kind = "dir" THEN TimesOut([ Seen EXCEPT !.dir = v.dir ]) ELSE v

FreeChain(v, e) == IF e.start = 0 THEN v ELSE RemoveChain(v, e.start)

\* Mutant: the chain is freed before the entry is gone.
UnlinkChainFirst(v, path) ==
  LET Permitted(w) == IF Shown(w).readOnly THEN Fails(w, "DENIED") ELSE w
      Delete(w) ==
        LET e == Shown(w)
        IN  Then(Then(Then(IfEmpty(w, e), LAMBDA u : FreeChain(u, e)), Remove), SyncFs)
  IN  Then(Then(Free(Walk(v, path)), Permitted), Delete)

\* Mutant: the chain is left behind.
UnlinkEntryOnly(v, path) ==
  LET Permitted(w) == IF Shown(w).readOnly THEN Fails(w, "DENIED") ELSE w
  IN  Then(Then(Then(Then(Free(Walk(v, path)), Permitted), LAMBDA w : IfEmpty(w, Shown(w))), Remove), SyncFs)

Unlink(v, path) ==
  LET Permitted(w) == IF Shown(w).readOnly THEN Fails(w, "DENIED") ELSE w
      Delete(w) ==
        LET e == Shown(w)
        IN  Then(Then(Then(IfEmpty(w, e), Remove), LAMBDA u : FreeChain(u, e)), SyncFs)
  IN  Then(Then(Free(Walk(v, path)), Permitted), Delete)

\* changeAttributes and utime: of the two, the model keeps the read-only attribute.
ChangeAttributes(v, path, readOnly) ==
  With(Walk(v, path), LAMBDA w : SyncFs(Mark(w, [ Shown(w) EXCEPT !.readOnly = readOnly ])))

Utime(v, path) == With(Walk(v, path), LAMBDA w : SyncFs(Mark(w, Shown(w))))

\* mkdir and rename wait for FR_NO_FILE in their own result, where nobody puts it.  mkdir
\* refuses a name that exists, and otherwise does nothing and succeeds; rename walks to the
\* new name in a cDirectory of its own, and does nothing either way.
MakeSubDirectory(v, path) ==
  With(Walk(v, path), LAMBDA w : IF w.found THEN Fails(w, "EXIST") ELSE w)

Rename(v, path, new) ==
  TimesOut(Then(Free(Walk(v, path)), LAMBDA w : Walk(w, new)))

\* setLabel with a name (set) or without.
SetLabel(v, set) ==
  LET label == Entry("label", "label", 0, 0)
  IN  With(Then(SetIndex([ v EXCEPT !.dir = NoDir ], 0), LAMBDA u : ReadEntry(u, TRUE)), LAMBDA w :
             CASE w.result = "OK" -> SyncFs(Mark(w, IF set THEN label ELSE Deleted))
               [] w.result = "NO_FILE" /\ set -> Then(Allocate(w), LAMBDA u : SyncFs(Mark(u, label)))
               [] w.result = "NO_FILE" /\ ~set -> Fails(w, "OK")
               [] OTHER -> w)

-----------------------------------------------------------------------------
(* Mounting.  The boot sector ends up in the window; a free count out of range is    *)
(* replaced by one taken from the FAT.                                               *)

ZeroLinks(disk) == Cardinality({ c \in Clusters : disk[FatSector(c)].links[LinkIndex(c)] = 0 })

Mount(disk) ==
  LET info == disk[FsInfoSector].units
      counted == info[1] > NumFatEntries - 2
  IN  [ disk |-> disk, sector |-> IF counted THEN DataBase - 1 ELSE BootSector,
        buffer |-> disk[IF counted THEN DataBase - 1 ELSE BootSector], dirty |-> FALSE,
        free |-> IF counted THEN ZeroLinks(disk) ELSE info[1], last |-> info[2], fsInfoDirty |-> counted,
        dir |-> NoDir, locks |-> << >>, fuse |-> 0, fault |-> "none", dead |-> FALSE,
        o |-> << >>, data |-> << >>, result |-> "OK", value |-> 0, found |-> FALSE, misled |-> FALSE, unclean |-> FALSE ]
=============================================================================
