------------------------------- MODULE FatTable -------------------------------
(***************************************************************************)
(* The allocation table of a FAT32 volume, and the one-sector window that  *)
(* src/fatfs/fatFs.cpp reads and writes it through: getFat and putFat, the *)
(* search for a free cluster, createChain and removeChain, and the free    *)
(* count.                                                                  *)
(*                                                                         *)
(* A method is an operator from volume to volume, and does its disk        *)
(* accesses one after the other; a result other than "OK" is an error.     *)
(* The volume carries a fuse: the access at which the disk fails once, or  *)
(* the power goes.                                                         *)
(*                                                                         *)
(* What a sector holds is one of links, entries and units, as the area it  *)
(* lies in has it.                                                         *)
(***************************************************************************)
EXTENDS Naturals

CONSTANTS
  NumFatEntries,      \* mNumFatEntries: the clusters are 2 .. NumFatEntries - 1
  SectorsPerCluster,  \* mSectorsPerCluster
  LinksPerSector,     \* SECTOR_SIZE / 4
  LastLink,           \* 0x0FFFFFFF: no cluster follows
  Ones                \* 0xFFFFFFFF: a disk error, an unknown count, no index

ASSUME TableAssumption ==
  /\ NumFatEntries \in Nat \ 0 .. 2
  /\ SectorsPerCluster \in { 1, 2, 4, 8, 16, 32, 64, 128 }
  /\ LinksPerSector \in Nat \ {0}
  /\ LastLink \in Nat /\ LastLink >= NumFatEntries
  /\ Ones \in Nat /\ Ones > LastLink

Clusters == 2 .. NumFatEntries - 1

\* Sectors.  Sector 0 stands for the invalid window and for numbers off the card.
NoSector == 0
BootSector == 1
FsInfoSector == 2
FatBase == 3
DataBase == FatBase + (NumFatEntries + LinksPerSector - 1) \div LinksPerSector
Sectors == BootSector .. DataBase + (NumFatEntries - 2) * SectorsPerCluster - 1
RootCluster == 2    \* mDirBase

FatSector(c) == FatBase + c \div LinksPerSector
LinkIndex(c) == (c % LinksPerSector) + 1

Links(s) == [ links |-> s, entries |-> <<>>, units |-> <<>> ]
Entries(s) == [ links |-> <<>>, entries |-> s, units |-> <<>> ]
Units(s) == [ links |-> <<>>, entries |-> <<>>, units |-> s ]

-----------------------------------------------------------------------------
(* Steps, one after the other as long as they succeed. *)

Then(v, Step(_)) == IF v.result = "OK" THEN Step(v) ELSE v
Gives(v, x) == [ v EXCEPT !.value = x ]
Fails(v, r) == [ v EXCEPT !.result = r ]

\* What a step leaves is looked at before the next one.
With(v, Step(_)) == Step(v)

(* The disk.  The access that burns the fuse down fails; when it is the power that   *)
(* goes nothing is written from then on, and what the program believes is lost.  A   *)
(* sector goes to its own place: where diskWrite really puts it is told in SdCache.  *)

BurnsOut(v) == v.fuse = 1
Burn(v) == [ v EXCEPT !.fuse = IF @ = 0 THEN 0 ELSE @ - 1 ]

\* A read fails at the fuse, or off the card; "late" and "cut" are about writes.
DiskRead(v, s) ==
  LET fails == (BurnsOut(v) /\ v.fault = "error") \/ s \notin Sectors
  IN  Fails(IF v.fault = "error" THEN Burn(v) ELSE v, IF fails THEN "DISK_ERR" ELSE "OK")

\* A write that fails has not reached the card ("error"), or has ("late").
DiskWrite(v, s, content) ==
  LET fails == (BurnsOut(v) /\ v.fault \in { "error", "late" }) \/ s \notin Sectors
      dead == v.dead \/ (BurnsOut(v) /\ v.fault = "cut")
      reaches == s \in Sectors /\ ~dead /\ (~fails \/ v.fault = "late")
      w == [ Burn(v) EXCEPT !.dead = dead, !.result = IF fails THEN "DISK_ERR" ELSE "OK" ]
  IN  IF reaches THEN [ w EXCEPT !.disk[s] = content ] ELSE w

-----------------------------------------------------------------------------
(* The window. *)

SyncWindow(v) ==
  IF ~v.dirty THEN Fails(v, "OK")
  ELSE With(DiskWrite(v, v.sector, v.buffer), LAMBDA w : [ w EXCEPT !.dirty = w.result # "OK" ])

Load(v, s) ==
  With(DiskRead(v, s), LAMBDA w :
         IF w.result = "OK" THEN [ w EXCEPT !.sector = s, !.buffer = v.disk[s] ]
         ELSE [ w EXCEPT !.sector = NoSector ])

MoveWindow(v, s) ==
  IF s = v.sector THEN Fails(v, "OK") ELSE Then(SyncWindow(v), LAMBDA w : Load(w, s))

-----------------------------------------------------------------------------
(* The allocation table.  getFat and createChain give a number: 1 stands for an      *)
(* internal error, Ones for a disk error, 0 for a full volume.                       *)

GetFat(v, c) ==
  IF c \notin Clusters THEN Gives(v, 1)
  ELSE With(MoveWindow(v, FatSector(c)), LAMBDA w :
              Gives(w, IF w.result = "OK" THEN w.buffer.links[LinkIndex(c)] ELSE Ones))

PutFat(v, c, x) ==
  IF c \notin Clusters THEN Fails(v, "INT_ERR")
  ELSE Then(MoveWindow(v, FatSector(c)),
            LAMBDA w : [ w EXCEPT !.buffer.links[LinkIndex(c)] = x, !.dirty = TRUE ])

ClusterToSector(c) == IF c \in Clusters THEN (c - 2) * SectorsPerCluster + DataBase ELSE 0

\* Arithmetic on mFreeClusters, 32 bits wide; Ones means that the count is unknown.
CountFree(v, delta) ==
  IF v.free = Ones THEN v
  ELSE [ v EXCEPT !.free = (@ + delta) % (Ones + 1), !.fsInfoDirty = TRUE ]

\* The cluster that createChain looks at in pass n: those after from, once round.
Candidate(from, n) == 2 + ((from + n - 2) % (NumFatEntries - 2))

\* A pass of that search; as long as it goes on, the number at hand is LastLink.
SearchPass(v, from, n) ==
  IF v.value # LastLink THEN v
  ELSE With(GetFat(v, Candidate(from, n)), LAMBDA w :
              IF w.value = 0 THEN Gives(w, Candidate(from, n))
              ELSE IF w.value \in { 1, Ones } THEN w
              ELSE Gives(w, LastLink))

Search == INSTANCE Iteration WITH Step <- SearchPass
FindFree(v, from) ==
  With(Search!Passes(Gives(v, LastLink), from)[NumFatEntries - 2], LAMBDA w :
         IF w.value = LastLink THEN Gives(w, 0) ELSE w)

\* Mutant: the new cluster is linked but not counted.
TakeUncounted(v, c, n) ==
  With(Then(PutFat(v, n, LastLink), LAMBDA m : IF c = 0 THEN m ELSE PutFat(m, c, n)),
       LAMBDA w : IF w.result = "OK" THEN Gives([ w EXCEPT !.last = n ], n)
                  ELSE Gives(w, IF w.result = "DISK_ERR" THEN Ones ELSE 1))

\* createChain has found the free cluster n: mark it, then link it after c.
Take(v, c, n) ==
  With(Then(PutFat(v, n, LastLink), LAMBDA m : IF c = 0 THEN m ELSE PutFat(m, c, n)),
       LAMBDA w : IF w.result = "OK" THEN Gives(CountFree([ w EXCEPT !.last = n ], Ones), n)
                  ELSE Gives(w, IF w.result = "DISK_ERR" THEN Ones ELSE 1))

\* createChain (0) starts a chain; createChain (c) gives what follows c, or stretches the
\* chain that ends in c.
CreateChain(v, c) ==
  LET from == IF c # 0 THEN c ELSE IF v.last \in 1 .. NumFatEntries - 1 THEN v.last ELSE 1
      TakeNew(f) == IF f.value \in Clusters THEN Take(f, c, f.value) ELSE f
  IN  With(IF c = 0 THEN Gives(v, LastLink) ELSE GetFat(v, c), LAMBDA w :
             IF w.value # LastLink THEN Gives(w, IF w.value < 2 THEN 1 ELSE w.value)
             ELSE TakeNew(FindFree(w, from)))

\* A pass of the loop of removeChain, whose number at hand is the cluster to free: one
\* that is off the table ends the loop.  Every pass frees a cluster, so there are no more
\* passes than clusters.
FreePass(v, p, n) ==
  LET Forget(w) == Then(PutFat(w, v.value, 0), LAMBDA u : CountFree(u, 1))
  IN  IF v.result # "OK" \/ v.value \notin Clusters THEN v
      ELSE With(GetFat(v, v.value), LAMBDA w :
                  CASE w.value = 0    -> Fails(w, "OK")
                    [] w.value = 1    -> Fails(w, "INT_ERR")
                    [] w.value = Ones -> Fails(w, "DISK_ERR")
                    [] OTHER          -> Forget(w))

Freeing == INSTANCE Iteration WITH Step <- FreePass
FreeFrom(v, c) == Freeing!Passes(Gives(Fails(v, "OK"), c), 0)[NumFatEntries]

RemoveChain(v, c) == IF c \notin Clusters THEN Fails(v, "INT_ERR") ELSE FreeFrom(v, c)

-----------------------------------------------------------------------------
\* What the volume holds: the card, or the card with a dirty window over it.
Logical(v) == IF v.dirty /\ v.sector \in Sectors THEN [ v.disk EXCEPT ![v.sector] = v.buffer ] ELSE v.disk

LinkOn(d, c) == d[FatSector(c)].links[LinkIndex(c)]

\* A sound table: what a link leads to is in use, and no other link leads there.
TableSound(d) ==
  /\ \A c \in Clusters : LinkOn(d, c) \in { 0, LastLink } \cup Clusters
  /\ \A c \in Clusters : LinkOn(d, c) \in Clusters =>
       /\ LinkOn(d, LinkOn(d, c)) # 0
       /\ \A e \in Clusters \ {c} : LinkOn(d, e) # LinkOn(d, c)

FatSectors == FatBase .. DataBase - 1

\* A sector of the table holds links, whatever else a sector is made of.
IsLinks(b) ==
  /\ b = [ f \in DOMAIN b |-> b[f] ]
  /\ "links" \in DOMAIN b
  /\ b.links \in [ 1 .. LinksPerSector -> 0 .. Ones ]

IsCard(d) ==
  /\ d = [ s \in Sectors |-> d[s] ]
  /\ \A s \in FatSectors : IsLinks(d[s])

TableFields ==
  { "disk", "sector", "buffer", "dirty", "free", "last", "fsInfoDirty", "fuse", "fault", "dead",
    "result", "value" }

\* A volume has these fields, and others that the table has nothing to do with.  A clean
\* window on the table shows what is on the card, as long as the power is there.
IsVolume(v) ==
  /\ v = [ f \in DOMAIN v |-> v[f] ]
  /\ TableFields \subseteq DOMAIN v
  /\ v.dirty \in BOOLEAN /\ v.dead \in BOOLEAN
  /\ v.fuse \in Nat /\ v.free \in 0 .. Ones
  /\ IsCard(v.disk)
  /\ v.sector \in FatSectors => IsLinks(v.buffer)
  /\ ~v.dirty /\ ~v.dead /\ v.sector \in FatSectors => v.buffer = v.disk[v.sector]

\* The table is sound on the card, and as the program has it while the power is there.
TableInv(v) ==
  /\ IsVolume(v)
  /\ TableSound(v.disk)
  /\ ~v.dead => TableSound(Logical(v))
=============================================================================
