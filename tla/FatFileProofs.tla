---------------------------- MODULE FatFileProofs ----------------------------
(***************************************************************************)
(* What no call on a volume or on a file of it ever breaks: sectors hold   *)
(* what belongs into them, and as long as nothing has failed the count of  *)
(* free clusters is right.                                                 *)
(*                                                                         *)
(* Every operator of FatTable, FatVolume and FatFile is shown to keep a    *)
(* volume in order (Stays), from DiskRead and DiskWrite upwards; the loops *)
(* with the induction rule of Iteration.  The actions follow from that.    *)
(***************************************************************************)
EXTENDS FatFile, FiniteSetTheorems, TLAPS

-----------------------------------------------------------------------------
(* FatTable, for a table of any size, any window and any disk access that fails,      *)
(* late or not, or at which the power goes.  The path is that of the code.  diskRead  *)
(* and diskWrite are taken apart case by case; then moveWindow, which loses nothing;  *)
(* then getFat, which changes nothing that the volume holds, and putFat, which        *)
(* changes one link.  Above them a sound table stays sound: links change one at a     *)
(* time in createChain and in the loop of removeChain, so the table is sound at       *)
(* whichever access they end.  The loops are instances of Iteration, and have an      *)
(* invariant each, SearchInv and FreeInv.                                             *)

\* w is v but for the fields in F.
SameBut(v, w, F) ==
  /\ DOMAIN w = DOMAIN v
  /\ \A f \in DOMAIN v \ F : w[f] = v[f]

-----------------------------------------------------------------------------
(* Where the link of a cluster is. *)

LEMMA LinkPlace ==
  /\ FatSectors \subseteq Sectors
  /\ NoSector \notin Sectors /\ FsInfoSector \notin FatSectors
  /\ \A c \in Clusters : FatSector(c) \in FatSectors /\ LinkIndex(c) \in 1 .. LinksPerSector
<1> DEFINE L == LinksPerSector
           N == NumFatEntries
           p == (N + L - 1) \div L
<1>1. L \in Nat \ {0} /\ N \in Nat \ 0 .. 2 /\ SectorsPerCluster \in Nat \ {0}
  BY TableAssumption
<1>2. p \in Nat /\ N + L - 1 = L * p + ((N + L - 1) % L) /\ (N + L - 1) % L \in 0 .. L - 1
  <2>1. p \in Nat
    BY <1>1
  <2>2. (N + L - 1) % L \in 0 .. L - 1
    BY <1>1
  <2>3. N + L - 1 = L * p + ((N + L - 1) % L)
    BY <1>1
  <2> QED
    BY <2>1, <2>2, <2>3
<1>3. DataBase = FatBase + p
  BY DEF DataBase
<1>4. (N - 2) * SectorsPerCluster \in Nat
  BY <1>1
<1>5. FatSectors \subseteq Sectors
  <2> HIDE DEF p
  <2> QED
    BY <1>2, <1>3, <1>4 DEF FatSectors, Sectors, FatBase, BootSector
<1>6. ASSUME NEW c \in Clusters PROVE FatSector(c) \in FatSectors /\ LinkIndex(c) \in 1 .. L
  <2> DEFINE q == c \div L
  <2>1. c \in Nat /\ c <= N - 1
    BY <1>1 DEF Clusters
  <2>2. q \in Nat /\ c = L * q + (c % L) /\ c % L \in 0 .. L - 1
    <3>1. q \in Nat
      BY <1>1, <2>1
    <3>2. c % L \in 0 .. L - 1
      BY <1>1, <2>1
    <3>3. c = L * q + (c % L)
      BY <1>1, <2>1
    <3> QED
      BY <3>1, <3>2, <3>3
  <2>3. L * p >= N
    <3> HIDE DEF p
    <3> QED BY <1>1, <1>2
  <2>4. q < p
    <3> SUFFICES ASSUME q >= p PROVE FALSE
      BY <1>2, <2>2
    <3>1. PICK k \in Nat : q = p + k
      <4>1. q - p \in Nat /\ q = p + (q - p)
        BY <1>2, <2>2
      <4> QED BY <4>1
    <3>2. L * q = L * p + L * k /\ L * k \in Nat /\ L * p \in Nat
      <4> HIDE DEF p, q
      <4> QED BY <1>1, <1>2, <2>2, <3>1
    <3> HIDE DEF p, q
    <3> QED
      BY <1>1, <2>1, <2>2, <2>3, <3>2
  <2>5. FatSector(c) = FatBase + q /\ LinkIndex(c) = (c % L) + 1
    BY DEF FatSector, LinkIndex
  <2>6. LinkIndex(c) \in 1 .. L
    BY <1>1, <2>2, <2>5
  <2> HIDE DEF p, q
  <2>7. FatSector(c) \in FatSectors
    BY <1>2, <1>3, <2>2, <2>4, <2>5 DEF FatSectors, FatBase
  <2> QED
    BY <2>6, <2>7
<1>7. NoSector \notin Sectors /\ FsInfoSector \notin FatSectors
  BY DEF NoSector, Sectors, BootSector, FsInfoSector, FatSectors, FatBase
<1> QED
  BY <1>5, <1>6, <1>7

LEMMA LinkPlaceOnce ==
  ASSUME NEW c \in Clusters, NEW e \in Clusters,
         FatSector(c) = FatSector(e), LinkIndex(c) = LinkIndex(e)
  PROVE  c = e
<1>1. LinksPerSector \in Nat \ {0} /\ c \in Nat /\ e \in Nat
  BY TableAssumption DEF Clusters
<1>2. c \div LinksPerSector \in Nat /\ e \div LinksPerSector \in Nat
  BY <1>1
<1>3. c % LinksPerSector \in Nat /\ e % LinksPerSector \in Nat
  BY <1>1
<1>4. c \div LinksPerSector = e \div LinksPerSector
  BY <1>2 DEF FatSector, FatBase
<1>5. c % LinksPerSector = e % LinksPerSector
  BY <1>3 DEF LinkIndex
<1>6. c = LinksPerSector * (c \div LinksPerSector) + (c % LinksPerSector)
  BY <1>1
<1>7. e = LinksPerSector * (e \div LinksPerSector) + (e % LinksPerSector)
  BY <1>1
<1> QED
  BY <1>4, <1>5, <1>6, <1>7

-----------------------------------------------------------------------------
(* What a link written into a sector of the table does to the table. *)

LinkSet(b, c, x) == [ b EXCEPT !.links[LinkIndex(c)] = x ]
WithLink(d, c, x) == [ d EXCEPT ![FatSector(c)] = LinkSet(d[FatSector(c)], c, x) ]

LEMMA LinkIsSet ==
  ASSUME NEW b, IsLinks(b), NEW c \in Clusters, NEW x \in 0 .. Ones
  PROVE  /\ IsLinks(LinkSet(b, c, x))
         /\ LinkSet(b, c, x).links = [ b.links EXCEPT ![LinkIndex(c)] = x ]
<1> DEFINE e == LinkSet(b, c, x)
<1>1. e.links = [ b.links EXCEPT ![LinkIndex(c)] = x ]
  BY DEF IsLinks, LinkSet
<1>2. e = [ f \in DOMAIN e |-> e[f] ] /\ "links" \in DOMAIN e
  BY DEF IsLinks, LinkSet
<1>3. e.links \in [ 1 .. LinksPerSector -> 0 .. Ones ]
  BY <1>1 DEF IsLinks
<1> HIDE DEF e
<1>4. IsLinks(e)
  BY <1>2, <1>3 DEF IsLinks
<1> QED
  BY <1>1, <1>4 DEF e

LEMMA TableWith ==
  ASSUME NEW d, IsCard(d), NEW c \in Clusters, NEW x \in 0 .. Ones
  PROVE  /\ IsCard(WithLink(d, c, x))
         /\ \A k \in Clusters : LinkOn(WithLink(d, c, x), k) = IF k = c THEN x ELSE LinkOn(d, k)
<1> DEFINE s == FatSector(c)
           b == LinkSet(d[s], c, x)
           e == WithLink(d, c, x)
<1>1. s \in FatSectors /\ s \in Sectors /\ LinkIndex(c) \in 1 .. LinksPerSector
  BY LinkPlace
<1>2. IsLinks(d[s])
  BY <1>1 DEF IsCard
<1>3. IsLinks(b) /\ b.links = [ d[s].links EXCEPT ![LinkIndex(c)] = x ]
  BY <1>2, LinkIsSet
<1>5. e = [ t \in Sectors |-> e[t] ] /\ e[s] = b /\ \A t \in Sectors \ {s} : e[t] = d[t]
  BY <1>1 DEF IsCard, WithLink
<1>6. IsCard(e)
  <2> HIDE DEF e, b
  <2> QED
    BY <1>3, <1>5, LinkPlace DEF IsCard
<1>7. ASSUME NEW k \in Clusters PROVE LinkOn(e, k) = IF k = c THEN x ELSE LinkOn(d, k)
  <2>1. FatSector(k) \in Sectors /\ LinkIndex(k) \in 1 .. LinksPerSector
    BY LinkPlace
  <2>2. CASE k = c
    <3>1. b.links[LinkIndex(c)] = x
      BY <1>1, <1>2, <1>3 DEF IsLinks
    <3> HIDE DEF e, b
    <3> QED
      BY <1>5, <2>2, <3>1 DEF LinkOn
  <2>3. CASE k # c /\ FatSector(k) = s
    <3>1. LinkIndex(k) # LinkIndex(c)
      BY <2>3, LinkPlaceOnce
    <3>2. b.links[LinkIndex(k)] = d[s].links[LinkIndex(k)]
      BY <1>2, <1>3, <2>1, <3>1 DEF IsLinks
    <3> HIDE DEF e, b
    <3> QED
      BY <1>5, <2>3, <3>2 DEF LinkOn
  <2>4. CASE FatSector(k) # s
    <3> HIDE DEF e, b
    <3> QED
      BY <1>5, <2>1, <2>4 DEF LinkOn
  <2> QED
    BY <2>2, <2>3, <2>4
<1> QED
  BY <1>6, <1>7

-----------------------------------------------------------------------------
(* The window. *)

WindowFields == { "disk", "sector", "buffer", "dirty", "fuse", "dead", "result" }

\* What a step of the window may do to v: nothing is lost, and what it writes on the card
\* is what the volume held already.
WindowMoved(v, w) ==
  /\ IsVolume(w)
  /\ SameBut(v, w, WindowFields)
  /\ w.disk \in { v.disk, Logical(v) }
  /\ v.dead => w.dead /\ w.disk = v.disk
  /\ ~w.dead => Logical(w) = Logical(v)
  /\ w.result \in { "OK", "DISK_ERR" }

LEMMA LogicalIsCard ==
  ASSUME NEW v, IsVolume(v)
  PROVE  IsCard(Logical(v))
<1>1. CASE v.dirty /\ v.sector \in Sectors
  <2> DEFINE e == [ v.disk EXCEPT ![v.sector] = v.buffer ]
  <2>1. Logical(v) = e
    BY <1>1 DEF Logical
  <2>2. /\ e = [ t \in Sectors |-> e[t] ] /\ e[v.sector] = v.buffer
        /\ \A t \in Sectors \ {v.sector} : e[t] = v.disk[t]
    BY <1>1 DEF IsVolume, IsCard
  <2>3. IsCard(e)
    <3> HIDE DEF e
    <3> QED
      BY <2>2, LinkPlace DEF IsVolume, IsCard
  <2> QED
    BY <2>1, <2>3
<1>2. CASE ~(v.dirty /\ v.sector \in Sectors)
  BY <1>2 DEF Logical, IsVolume
<1> QED
  BY <1>1, <1>2

\* What writing b to sector s may do to v.
WriteDone(v, w, s, b) ==
  /\ w = [ f \in DOMAIN w |-> w[f] ]
  /\ SameBut(v, w, { "disk", "fuse", "dead", "result" })
  /\ w.fuse \in Nat /\ w.dead \in BOOLEAN /\ w.result \in { "OK", "DISK_ERR" }
  /\ v.dead => w.dead /\ w.disk = v.disk
  /\ w.disk \in { v.disk, [ v.disk EXCEPT ![s] = b ] }
  /\ s \notin Sectors => w.disk = v.disk /\ w.result = "DISK_ERR"
  /\ ~w.dead /\ w.result = "OK" => w.disk = [ v.disk EXCEPT ![s] = b ]

LEMMA DiskWriteDoes ==
  ASSUME NEW v, v = [ f \in DOMAIN v |-> v[f] ], TableFields \subseteq DOMAIN v,
         v.dead \in BOOLEAN, v.fuse \in Nat, NEW s, NEW b
  PROVE  WriteDone(v, DiskWrite(v, s, b), s, b)
<1> DEFINE fails == (BurnsOut(v) /\ v.fault \in { "error", "late" }) \/ s \notin Sectors
           dead == v.dead \/ (BurnsOut(v) /\ v.fault = "cut")
           reaches == s \in Sectors /\ ~dead /\ (~fails \/ v.fault = "late")
           r == IF fails THEN "DISK_ERR" ELSE "OK"
           k == IF v.fuse = 0 THEN 0 ELSE v.fuse - 1
           w0 == [ v EXCEPT !.fuse = k, !.dead = dead, !.result = r ]
           w == DiskWrite(v, s, b)
<1> SUFFICES WriteDone(v, w, s, b)
  OBVIOUS
<1>1. { "disk", "fuse", "dead", "result" } \subseteq DOMAIN v
  BY DEF TableFields
<1>2. /\ w0 = [ f \in DOMAIN w0 |-> w0[f] ] /\ DOMAIN w0 = DOMAIN v
      /\ w0.fuse = k /\ w0.dead = dead /\ w0.result = r /\ w0.disk = v.disk
      /\ \A f \in DOMAIN v \ { "fuse", "dead", "result" } : w0[f] = v[f]
  <2> HIDE DEF k, dead, r
  <2> QED
    BY <1>1
<1>3. w = IF reaches THEN [ w0 EXCEPT !.disk = [ v.disk EXCEPT ![s] = b ] ] ELSE w0
  <2>1. Burn(v) = [ v EXCEPT !.fuse = k ]
    BY <1>1 DEF Burn
  <2>2. [ Burn(v) EXCEPT !.dead = dead, !.result = r ] = w0
    <3> HIDE DEF k, dead, r
    <3> QED
      BY <1>1, <2>1
  <2>3. w = IF reaches THEN [ w0 EXCEPT !.disk[s] = b ] ELSE w0
    <3> HIDE DEF w0
    <3> QED
      BY <2>2 DEF DiskWrite, With
  <2>4. [ w0 EXCEPT !.disk[s] = b ] = [ w0 EXCEPT !.disk = [ v.disk EXCEPT ![s] = b ] ]
    <3> HIDE DEF w0
    <3> QED
      BY <1>1, <1>2
  <2> HIDE DEF w, w0, reaches
  <2> QED
    BY <2>3, <2>4
<1>4. k \in Nat /\ dead \in BOOLEAN /\ r \in { "OK", "DISK_ERR" }
  OBVIOUS
<1>5. /\ v.dead => dead
      /\ s \notin Sectors => r = "DISK_ERR"
      /\ ~dead /\ r = "OK" => reaches
      /\ reaches => s \in Sectors /\ ~dead
  OBVIOUS
<1>6. CASE reaches
  <2> DEFINE e == [ v.disk EXCEPT ![s] = b ]
  <2>1. w = [ w0 EXCEPT !.disk = e ]
    <3> HIDE DEF w, w0, e
    <3> QED BY <1>3, <1>6 DEF e
  <2>2. /\ w = [ f \in DOMAIN w |-> w[f] ] /\ DOMAIN w = DOMAIN v
        /\ w.fuse = k /\ w.dead = dead /\ w.result = r /\ w.disk = e
        /\ \A f \in DOMAIN v \ { "disk", "fuse", "dead", "result" } : w[f] = v[f]
    <3> HIDE DEF w, w0, e, k, dead, r
    <3> QED
      BY <1>1, <1>2, <2>1
  <2> HIDE DEF w, w0, e, k, dead, r, reaches
  <2> QED
    BY <1>4, <1>5, <1>6, <2>2 DEF SameBut, WriteDone, e
<1>7. CASE ~reaches
  <2>1. w = w0
    <3> HIDE DEF w, w0
    <3> QED BY <1>3, <1>7
  <2> HIDE DEF w, w0, k, dead, r, reaches
  <2> QED
    BY <1>2, <1>4, <1>5, <1>7, <2>1 DEF SameBut, WriteDone
<1> QED
  BY <1>6, <1>7

LEMMA SyncWindowMoves ==
  ASSUME NEW v, IsVolume(v)
  PROVE  /\ WindowMoved(v, SyncWindow(v))
         /\ SyncWindow(v).result = "OK" => ~SyncWindow(v).dirty
<1> DEFINE w == SyncWindow(v)
<1> SUFFICES WindowMoved(v, w) /\ (w.result = "OK" => ~w.dirty)
  OBVIOUS
<1>1. CASE ~v.dirty
  <2>1. w = [ v EXCEPT !.result = "OK" ]
    BY <1>1 DEF SyncWindow, Fails
  <2>2. /\ w = [ f \in DOMAIN w |-> w[f] ] /\ DOMAIN w = DOMAIN v /\ w.result = "OK"
        /\ \A f \in DOMAIN v \ { "result" } : w[f] = v[f]
    <3> HIDE DEF w
    <3> QED
      BY <2>1 DEF IsVolume, TableFields
  <2>3. IsVolume(w)
    <3> HIDE DEF w
    <3> QED BY <2>2 DEF IsVolume, TableFields
  <2> HIDE DEF w
  <2>4. Logical(w) = Logical(v) /\ w.disk = v.disk /\ w.dead = v.dead /\ ~w.dirty
    BY <1>1, <2>2 DEF Logical, IsVolume, TableFields
  <2> QED
    BY <2>2, <2>3, <2>4 DEF WindowMoved, SameBut, WindowFields
<1>2. CASE v.dirty
  <2> DEFINE u == DiskWrite(v, v.sector, v.buffer)
  <2>1. WriteDone(v, u, v.sector, v.buffer)
    BY DiskWriteDoes DEF IsVolume
  <2>2. w = [ u EXCEPT !.dirty = u.result # "OK" ]
    BY <1>2 DEF SyncWindow, With
  <2>3. /\ w = [ f \in DOMAIN w |-> w[f] ] /\ DOMAIN w = DOMAIN v /\ w.dirty = (u.result # "OK")
        /\ \A f \in DOMAIN v \ { "dirty" } : w[f] = u[f]
    <3> HIDE DEF w, u
    <3> QED
      BY <2>1, <2>2 DEF WriteDone, SameBut, IsVolume, TableFields
  <2> HIDE DEF w, u
  <2>4. /\ w.disk = u.disk /\ w.fuse = u.fuse /\ w.dead = u.dead /\ w.result = u.result
        /\ w.free = v.free /\ w.sector = v.sector /\ w.buffer = v.buffer
        /\ \A f \in DOMAIN v \ WindowFields : w[f] = v[f]
    BY <2>1, <2>3 DEF WriteDone, SameBut, IsVolume, TableFields, WindowFields
  <2>5. w.disk \in { v.disk, Logical(v) }
    BY <1>2, <2>1, <2>4 DEF WriteDone, Logical
  <2>6. IsCard(w.disk)
    BY <2>5, LogicalIsCard DEF IsVolume
  <2>7. ~w.dead => Logical(w) = Logical(v)
    <3>1. CASE v.sector \notin Sectors
      BY <1>2, <2>1, <2>3, <2>4, <3>1 DEF Logical, WriteDone
    <3>2. CASE v.sector \in Sectors /\ w.result = "OK"
      BY <1>2, <2>1, <2>3, <2>4, <3>2 DEF Logical, WriteDone
    <3>3. CASE v.sector \in Sectors /\ w.result # "OK"
      <4>1. v.disk = [ s \in Sectors |-> v.disk[s] ]
        BY DEF IsVolume, IsCard
      <4>2. [ w.disk EXCEPT ![v.sector] = v.buffer ] = [ v.disk EXCEPT ![v.sector] = v.buffer ]
        BY <2>1, <2>4, <3>3, <4>1 DEF WriteDone
      <4> QED
        BY <1>2, <2>3, <2>4, <3>3, <4>2 DEF Logical
    <3> QED
      BY <3>1, <3>2, <3>3
  <2>8. ~w.dirty /\ ~w.dead /\ w.sector \in FatSectors => w.buffer = w.disk[w.sector]
    <3> SUFFICES ASSUME ~w.dirty, ~w.dead, w.sector \in FatSectors PROVE w.buffer = w.disk[w.sector]
      OBVIOUS
    <3>1. w.disk = [ v.disk EXCEPT ![v.sector] = v.buffer ]
      BY <2>1, <2>3, <2>4 DEF WriteDone
    <3>2. v.disk = [ s \in Sectors |-> v.disk[s] ] /\ v.sector \in Sectors
      BY <2>4, LinkPlace DEF IsVolume, IsCard
    <3> QED
      BY <2>4, <3>1, <3>2
  <2>9. IsVolume(w)
    BY <2>1, <2>3, <2>4, <2>6, <2>8 DEF IsVolume, WriteDone
  <2> QED
    BY <2>1, <2>3, <2>4, <2>5, <2>7, <2>9 DEF WindowMoved, SameBut, WriteDone
<1> QED
  BY <1>1, <1>2 DEF IsVolume

LEMMA LoadMoves ==
  ASSUME NEW v, IsVolume(v), ~v.dirty, NEW s
  PROVE  /\ WindowMoved(v, Load(v, s))
         /\ Load(v, s).result = "OK" => Load(v, s).sector = s
<1> DEFINE r == IF (BurnsOut(v) /\ v.fault = "error") \/ s \notin Sectors THEN "DISK_ERR" ELSE "OK"
           k == IF v.fault = "error" THEN IF v.fuse = 0 THEN 0 ELSE v.fuse - 1 ELSE v.fuse
           u == DiskRead(v, s)
           w == Load(v, s)
<1> SUFFICES WindowMoved(v, w) /\ (w.result = "OK" => w.sector = s)
  OBVIOUS
<1>1. k \in Nat /\ r \in { "OK", "DISK_ERR" } /\ (r = "OK" => s \in Sectors)
  BY DEF IsVolume
<1>2. /\ u = [ f \in DOMAIN u |-> u[f] ] /\ DOMAIN u = DOMAIN v /\ u.fuse = k /\ u.result = r
      /\ \A f \in DOMAIN v \ { "fuse", "result" } : u[f] = v[f]
  <2>1. CASE v.fault = "error"
    <3>1. Burn(v) = [ v EXCEPT !.fuse = k ]
      BY <2>1 DEF Burn, IsVolume, TableFields
    <3>2. u = [ [ v EXCEPT !.fuse = k ] EXCEPT !.result = r ]
      <4> HIDE DEF k
      <4> QED
        BY <2>1, <3>1 DEF DiskRead, Fails
    <3> HIDE DEF u, k, r
    <3> QED
      BY <3>2 DEF IsVolume, TableFields
  <2>2. CASE v.fault # "error"
    <3>1. u = [ v EXCEPT !.result = r ] /\ k = v.fuse
      BY <2>2 DEF DiskRead, Fails
    <3> HIDE DEF u, k, r
    <3> QED
      BY <3>1 DEF IsVolume, TableFields
  <2> QED
    BY <2>1, <2>2
<1>3. CASE r = "OK"
  <2>1. w = [ u EXCEPT !.sector = s, !.buffer = v.disk[s] ]
    <3> HIDE DEF u, r
    <3> QED
      BY <1>2, <1>3 DEF Load, With, u
  <2>2. /\ w = [ f \in DOMAIN w |-> w[f] ] /\ DOMAIN w = DOMAIN v /\ w.fuse = k /\ w.result = "OK"
        /\ w.sector = s /\ w.buffer = v.disk[s]
        /\ \A f \in DOMAIN v \ { "fuse", "result", "sector", "buffer" } : w[f] = v[f]
    <3> HIDE DEF w, u, k, r
    <3> QED
      BY <1>2, <1>3, <2>1 DEF IsVolume, TableFields
  <2> HIDE DEF w, u, k, r
  <2>3. /\ w.disk = v.disk /\ w.dirty = v.dirty /\ w.dead = v.dead /\ w.free = v.free
        /\ \A f \in DOMAIN v \ WindowFields : w[f] = v[f]
    BY <2>2 DEF IsVolume, TableFields, WindowFields
  <2>4. IsVolume(w)
    BY <1>1, <2>2, <2>3 DEF IsVolume, IsCard
  <2>5. Logical(w) = Logical(v)
    BY <2>3 DEF Logical
  <2> QED
    BY <2>2, <2>3, <2>4, <2>5 DEF WindowMoved, SameBut
<1>4. CASE r # "OK"
  <2>1. w = [ u EXCEPT !.sector = NoSector ]
    <3> HIDE DEF u, r
    <3> QED
      BY <1>2, <1>4 DEF Load, With, u
  <2>2. /\ w = [ f \in DOMAIN w |-> w[f] ] /\ DOMAIN w = DOMAIN v /\ w.fuse = k /\ w.result = r
        /\ w.sector = NoSector
        /\ \A f \in DOMAIN v \ { "fuse", "result", "sector" } : w[f] = v[f]
    <3> HIDE DEF w, u, k, r
    <3> QED
      BY <1>2, <2>1 DEF IsVolume, TableFields
  <2> HIDE DEF w, u, k, r
  <2>3. /\ w.disk = v.disk /\ w.dirty = v.dirty /\ w.dead = v.dead /\ w.free = v.free
        /\ \A f \in DOMAIN v \ WindowFields : w[f] = v[f]
    BY <2>2 DEF IsVolume, TableFields, WindowFields
  <2>4. IsVolume(w)
    BY <1>1, <2>2, <2>3, LinkPlace DEF IsVolume
  <2>5. Logical(w) = Logical(v)
    BY <2>3 DEF Logical
  <2> QED
    BY <1>1, <1>4, <2>2, <2>3, <2>4, <2>5 DEF WindowMoved, SameBut
<1> QED
  BY <1>3, <1>4

LEMMA MovesChain ==
  ASSUME NEW v, IsVolume(v), NEW u, WindowMoved(v, u), NEW w, WindowMoved(u, w),
         u.result = "OK" /\ ~u.dirty
  PROVE  WindowMoved(v, w)
<1>1. SameBut(v, w, WindowFields)
  BY DEF WindowMoved, SameBut
<1>2. Logical(u) = u.disk
  BY DEF Logical
<1> QED
  BY <1>1, <1>2 DEF WindowMoved

\* moveWindow (fatFs.cpp:1510) loses nothing, wherever an access fails or the power goes:
\* what the volume holds, the card and a dirty window over it, stays what it was.
THEOREM WindowLosesNothing ==
  ASSUME NEW v, IsVolume(v), NEW s
  PROVE  /\ WindowMoved(v, MoveWindow(v, s))
         /\ MoveWindow(v, s).result = "OK" => MoveWindow(v, s).sector = s
<1>1. CASE s = v.sector
  <2> DEFINE w == Fails(v, "OK")
  <2>1. MoveWindow(v, s) = w
    BY <1>1 DEF MoveWindow
  <2>2. /\ w = [ f \in DOMAIN w |-> w[f] ] /\ DOMAIN w = DOMAIN v /\ w.result = "OK"
        /\ \A f \in DOMAIN v \ { "result" } : w[f] = v[f]
    BY DEF Fails, IsVolume, TableFields
  <2> HIDE DEF w
  <2>3. /\ w.disk = v.disk /\ w.dirty = v.dirty /\ w.dead = v.dead /\ w.free = v.free
        /\ w.fuse = v.fuse /\ w.sector = v.sector /\ w.buffer = v.buffer
        /\ \A f \in DOMAIN v \ WindowFields : w[f] = v[f]
    BY <2>2 DEF IsVolume, TableFields, WindowFields
  <2>4. IsVolume(w) /\ Logical(w) = Logical(v)
    BY <2>2, <2>3 DEF IsVolume, Logical
  <2> QED
    BY <1>1, <2>1, <2>2, <2>3, <2>4 DEF WindowMoved, SameBut
<1>2. CASE s # v.sector
  <2> DEFINE u == SyncWindow(v)
  <2>1. WindowMoved(v, u) /\ (u.result = "OK" => ~u.dirty)
    BY SyncWindowMoves
  <2>2. MoveWindow(v, s) = IF u.result = "OK" THEN Load(u, s) ELSE u
    BY <1>2 DEF MoveWindow, Then
  <2>3. CASE u.result = "OK"
    <3>1. IsVolume(u)
      BY <2>1 DEF WindowMoved
    <3> HIDE DEF u
    <3>2. WindowMoved(u, Load(u, s)) /\ (Load(u, s).result = "OK" => Load(u, s).sector = s)
      BY <2>1, <2>3, <3>1, LoadMoves
    <3> QED
      BY <2>1, <2>2, <2>3, <3>2, MovesChain
  <2>4. CASE u.result # "OK"
    <3> HIDE DEF u
    <3> QED
      BY <2>1, <2>2, <2>4
  <2> QED
    BY <2>3, <2>4
<1> QED
  BY <1>1, <1>2

-----------------------------------------------------------------------------
(* getFat and putFat. *)

\* v is looked at: the window may move, and a number is found.
Looked(v, w) ==
  /\ IsVolume(w)
  /\ SameBut(v, w, WindowFields \cup { "value" })
  /\ w.disk \in { v.disk, Logical(v) }
  /\ v.dead => w.dead /\ w.disk = v.disk
  /\ ~w.dead => Logical(w) = Logical(v)

LEMMA GivesLooked ==
  ASSUME NEW v, NEW w, WindowMoved(v, w), NEW x
  PROVE  Looked(v, Gives(w, x)) /\ Gives(w, x).value = x /\ Gives(w, x).result = w.result
<1> DEFINE u == Gives(w, x)
<1>1. /\ u = [ f \in DOMAIN u |-> u[f] ] /\ DOMAIN u = DOMAIN w /\ u.value = x
      /\ \A f \in DOMAIN w \ { "value" } : u[f] = w[f]
  BY DEF Gives, WindowMoved, IsVolume, TableFields
<1> HIDE DEF u
<1>2. /\ u.disk = w.disk /\ u.dirty = w.dirty /\ u.dead = w.dead /\ u.free = w.free
      /\ u.fuse = w.fuse /\ u.sector = w.sector /\ u.buffer = w.buffer /\ u.result = w.result
  BY <1>1 DEF WindowMoved, IsVolume, TableFields
<1>3. IsVolume(u) /\ Logical(u) = Logical(w)
  BY <1>1, <1>2 DEF WindowMoved, IsVolume, Logical
<1>4. SameBut(v, u, WindowFields \cup { "value" })
  BY <1>1 DEF WindowMoved, SameBut
<1>5. Looked(v, u)
  BY <1>2, <1>3, <1>4 DEF WindowMoved, Looked
<1> QED
  BY <1>1, <1>2, <1>5 DEF u

LEMMA WindowShows ==
  ASSUME NEW w, IsVolume(w), ~w.dead, w.sector \in FatSectors
  PROVE  Logical(w)[w.sector] = w.buffer
<1>1. w.sector \in Sectors /\ w.disk = [ s \in Sectors |-> w.disk[s] ]
  BY LinkPlace DEF IsVolume, IsCard
<1> QED
  BY <1>1 DEF IsVolume, Logical

LEMMA GetFatLooks ==
  ASSUME NEW v, IsVolume(v), NEW c \in Clusters
  PROVE  LET w == GetFat(v, c)
         IN  /\ Looked(v, w)
             /\ w.value \in 0 .. Ones
             /\ ~w.dead /\ w.value # Ones => w.value = LinkOn(Logical(v), c)
<1> DEFINE m == MoveWindow(v, FatSector(c))
           x == IF m.result = "OK" THEN m.buffer.links[LinkIndex(c)] ELSE Ones
           w == GetFat(v, c)
<1> SUFFICES /\ Looked(v, w)
             /\ w.value \in 0 .. Ones
             /\ ~w.dead /\ w.value # Ones => w.value = LinkOn(Logical(v), c)
  OBVIOUS
<1>1. WindowMoved(v, m) /\ (m.result = "OK" => m.sector = FatSector(c))
  BY WindowLosesNothing
<1>2. w = Gives(m, x)
  BY DEF GetFat, With
<1> HIDE DEF w, m
<1>3. FatSector(c) \in FatSectors /\ LinkIndex(c) \in 1 .. LinksPerSector
  BY LinkPlace
<1>4. Looked(v, w) /\ w.value = x
  BY <1>1, <1>2, GivesLooked
<1>5. x \in 0 .. Ones
  BY <1>1, <1>3, TableAssumption DEF WindowMoved, IsVolume, IsLinks
<1>6. w.dead = m.dead
  BY <1>1, <1>2 DEF Gives, WindowMoved, IsVolume, TableFields
<1>7. ASSUME ~w.dead, w.value # Ones PROVE w.value = LinkOn(Logical(v), c)
  <2>1. m.result = "OK" /\ m.sector = FatSector(c)
    BY <1>1, <1>4, <1>7
  <2>2. Logical(m)[FatSector(c)] = m.buffer
    BY <1>1, <1>3, <1>6, <1>7, <2>1, WindowShows DEF WindowMoved
  <2>3. Logical(m) = Logical(v)
    BY <1>1, <1>6, <1>7 DEF WindowMoved
  <2> QED
    BY <1>4, <2>1, <2>2, <2>3 DEF LinkOn
<1> QED
  BY <1>4, <1>5, <1>7

\* What setting the link of c to x may do to v.
LinkPut(v, w, c, x) ==
  /\ IsVolume(w)
  /\ SameBut(v, w, WindowFields)
  /\ w.disk \in { v.disk, Logical(v) }
  /\ v.dead => w.dead /\ w.disk = v.disk
  /\ w.result \in { "OK", "DISK_ERR" }
  /\ ~w.dead => Logical(w) = IF w.result = "OK" THEN WithLink(Logical(v), c, x) ELSE Logical(v)

LEMMA PutFatPuts ==
  ASSUME NEW v, IsVolume(v), NEW c \in Clusters, NEW x \in 0 .. Ones
  PROVE  LinkPut(v, PutFat(v, c, x), c, x)
<1> DEFINE m == MoveWindow(v, FatSector(c))
           w == PutFat(v, c, x)
<1> SUFFICES LinkPut(v, w, c, x)
  OBVIOUS
<1>1. WindowMoved(v, m) /\ (m.result = "OK" => m.sector = FatSector(c))
  BY WindowLosesNothing
<1>2. w = IF m.result = "OK" THEN [ m EXCEPT !.buffer.links[LinkIndex(c)] = x, !.dirty = TRUE ] ELSE m
  BY DEF PutFat, Then
<1> HIDE DEF w, m
<1>3. CASE m.result # "OK"
  BY <1>1, <1>2, <1>3 DEF WindowMoved, LinkPut
<1>4. CASE m.result = "OK"
  <2> DEFINE s == FatSector(c)
             b == LinkSet(m.buffer, c, x)
  <2>1. s \in FatSectors /\ s \in Sectors /\ m.sector = s
    BY <1>1, <1>4, LinkPlace
  <2>2. IsLinks(m.buffer) /\ IsLinks(b)
    BY <1>1, <2>1, LinkIsSet DEF WindowMoved, IsVolume
  <2>3. w = [ m EXCEPT !.buffer = b, !.dirty = TRUE ]
    BY <1>1, <1>2, <1>4 DEF LinkSet, WindowMoved, IsVolume, TableFields
  <2> HIDE DEF b
  <2>4. /\ w = [ f \in DOMAIN w |-> w[f] ] /\ DOMAIN w = DOMAIN m /\ w.buffer = b /\ w.dirty = TRUE
        /\ \A f \in DOMAIN m \ { "buffer", "dirty" } : w[f] = m[f]
    BY <1>1, <2>3 DEF WindowMoved, IsVolume, TableFields
  <2>5. /\ w.disk = m.disk /\ w.dead = m.dead /\ w.free = m.free /\ w.fuse = m.fuse
        /\ w.sector = m.sector /\ w.result = "OK"
    BY <1>1, <1>4, <2>4 DEF WindowMoved, IsVolume, TableFields
  <2>6. IsVolume(w)
    BY <1>1, <2>2, <2>4, <2>5 DEF WindowMoved, IsVolume
  <2>7. SameBut(v, w, WindowFields)
    BY <1>1, <2>4 DEF WindowMoved, SameBut, WindowFields
  <2>8. ASSUME ~w.dead PROVE Logical(w) = WithLink(Logical(v), c, x)
    <3>1. Logical(m)[s] = m.buffer /\ Logical(m) = Logical(v)
      BY <1>1, <2>1, <2>5, <2>8, WindowShows DEF WindowMoved
    <3>2. Logical(w) = [ m.disk EXCEPT ![s] = b ]
      BY <2>1, <2>4, <2>5 DEF Logical
    <3>3. m.disk = [ t \in Sectors |-> m.disk[t] ]
      BY <1>1 DEF WindowMoved, IsVolume, IsCard
    <3>4. [ m.disk EXCEPT ![s] = b ] = [ Logical(m) EXCEPT ![s] = b ]
      BY <2>1, <3>3 DEF Logical
    <3>5. WithLink(Logical(v), c, x) = [ Logical(m) EXCEPT ![s] = b ]
      BY <3>1 DEF WithLink, b
    <3> QED
      BY <3>2, <3>4, <3>5
  <2> QED
    BY <1>1, <2>5, <2>6, <2>7, <2>8 DEF LinkPut, WindowMoved
<1> QED
  BY <1>3, <1>4

-----------------------------------------------------------------------------
(* The links of a sound table, one of them changed. *)

LEMMA Numbers ==
  /\ LastLink \in 0 .. Ones /\ Clusters \subseteq 0 .. Ones /\ 0 \in 0 .. Ones
  /\ LastLink \notin Clusters /\ Ones \notin Clusters /\ 0 \notin Clusters /\ 1 \notin Clusters
  /\ LastLink # Ones /\ LastLink # 0 /\ LastLink # 1 /\ Ones # 0 /\ Ones # 1
  BY TableAssumption DEF Clusters

\* A free cluster is marked as the end of a chain.
LEMMA SoundMark ==
  ASSUME NEW d, IsCard(d), TableSound(d), NEW n \in Clusters, LinkOn(d, n) = 0
  PROVE  TableSound(WithLink(d, n, LastLink))
<1> DEFINE e == WithLink(d, n, LastLink)
<1>1. \A k \in Clusters : LinkOn(e, k) = IF k = n THEN LastLink ELSE LinkOn(d, k)
  BY Numbers, TableWith
<1> HIDE DEF e
<1> QED
  BY <1>1, Numbers DEF TableSound, e

\* A chain that ends in c goes on with n, to which no link led.
LEMMA SoundAppend ==
  ASSUME NEW d, IsCard(d), TableSound(d), NEW c \in Clusters, NEW n \in Clusters,
         LinkOn(d, c) = LastLink, LinkOn(d, n) = LastLink, \A k \in Clusters : LinkOn(d, k) # n
  PROVE  TableSound(WithLink(d, c, n))
<1> DEFINE e == WithLink(d, c, n)
<1>1. \A k \in Clusters : LinkOn(e, k) = IF k = c THEN n ELSE LinkOn(d, k)
  BY Numbers, TableWith
<1>2. \A k \in Clusters : LinkOn(e, k) \in { 0, LastLink } \cup Clusters
  BY <1>1 DEF TableSound
<1>3. ASSUME NEW k \in Clusters, LinkOn(e, k) \in Clusters
      PROVE  /\ LinkOn(e, LinkOn(e, k)) # 0
             /\ \A j \in Clusters \ {k} : LinkOn(e, j) # LinkOn(e, k)
  <2> HIDE DEF e
  <2>1. CASE k = c
    <3>1. LinkOn(e, k) = n /\ LinkOn(e, n) \in { n, LastLink }
      BY <1>1, <2>1
    <3>2. \A j \in Clusters \ {k} : LinkOn(e, j) # n
      BY <1>1, <2>1
    <3> QED
      BY <3>1, <3>2, Numbers
  <2>2. CASE k # c
    <3>1. LinkOn(e, k) = LinkOn(d, k) /\ LinkOn(d, k) \in Clusters /\ LinkOn(d, k) # n
      BY <1>1, <1>3, <2>2
    <3>2. LinkOn(d, LinkOn(d, k)) # 0 /\ \A j \in Clusters \ {k} : LinkOn(d, j) # LinkOn(d, k)
      BY <3>1 DEF TableSound
    <3>3. LinkOn(e, LinkOn(d, k)) \in { n, LinkOn(d, LinkOn(d, k)) }
      BY <1>1, <3>1
    <3>4. \A j \in Clusters \ {k} : LinkOn(e, j) # LinkOn(d, k)
      BY <1>1, <3>1, <3>2
    <3> QED
      BY <3>1, <3>2, <3>3, <3>4, Numbers
  <2> QED
    BY <2>1, <2>2
<1> HIDE DEF e
<1> QED
  BY <1>2, <1>3 DEF TableSound, e

\* A cluster to which no link leads is freed.
LEMMA SoundFree ==
  ASSUME NEW d, IsCard(d), TableSound(d), NEW c \in Clusters, \A k \in Clusters : LinkOn(d, k) # c
  PROVE  /\ TableSound(WithLink(d, c, 0))
         /\ LinkOn(d, c) \in Clusters =>
              \A k \in Clusters : LinkOn(WithLink(d, c, 0), k) # LinkOn(d, c)
<1> DEFINE e == WithLink(d, c, 0)
<1>1. \A k \in Clusters : LinkOn(e, k) = IF k = c THEN 0 ELSE LinkOn(d, k)
  BY Numbers, TableWith
<1> HIDE DEF e
<1> QED
  BY <1>1, Numbers DEF TableSound, e

-----------------------------------------------------------------------------
(* Free clusters, and their count. *)

FreeClusters(d) == { c \in Clusters : LinkOn(d, c) = 0 }
CountRight(v) == ~v.dead => v.free \in { Cardinality(FreeClusters(Logical(v))), Ones }

LEMMA FreeIsFinite ==
  ASSUME NEW d
  PROVE  /\ IsFiniteSet(FreeClusters(d))
         /\ Cardinality(FreeClusters(d)) \in 0 .. NumFatEntries - 2
         /\ NumFatEntries - 2 < Ones - 1
<1>1. IsFiniteSet(Clusters) /\ Cardinality(Clusters) = NumFatEntries - 2
  <2> DEFINE b == NumFatEntries - 1
  <2>1. 2 \in Int /\ b \in Int /\ ~(2 > b) /\ b - 2 + 1 = NumFatEntries - 2
    BY TableAssumption
  <2>2. Clusters = 2 .. b
    BY DEF Clusters
  <2> HIDE DEF b
  <2> QED
    BY <2>1, <2>2, FS_Interval
<1>2. FreeClusters(d) \subseteq Clusters
  BY DEF FreeClusters
<1>3. /\ IsFiniteSet(FreeClusters(d))
      /\ Cardinality(FreeClusters(d)) <= Cardinality(Clusters)
  BY <1>1, <1>2, FS_Subset
<1>4. Cardinality(FreeClusters(d)) \in Nat
  BY <1>3, FS_CardinalityType
<1> QED
  BY <1>1, <1>3, <1>4, TableAssumption

LEMMA FreeAfter ==
  ASSUME NEW d, IsCard(d), NEW c \in Clusters, NEW x \in 0 .. Ones
  PROVE  LET n == Cardinality(FreeClusters(d))
             m == Cardinality(FreeClusters(WithLink(d, c, x)))
         IN  /\ LinkOn(d, c) = 0 /\ x # 0 => n >= 1 /\ m = n - 1
             /\ LinkOn(d, c) # 0 /\ x = 0 => m = n + 1
             /\ LinkOn(d, c) # 0 /\ x # 0 => m = n
<1> DEFINE e == WithLink(d, c, x)
           F == FreeClusters(d)
           G == FreeClusters(e)
           n == Cardinality(F)
           m == Cardinality(G)
<1>1. \A k \in Clusters : LinkOn(e, k) = IF k = c THEN x ELSE LinkOn(d, k)
  BY TableWith
<1>2. IsFiniteSet(F) /\ IsFiniteSet(G) /\ n \in Nat /\ m \in Nat
  BY FreeIsFinite
<1>3. CASE LinkOn(d, c) = 0 /\ x # 0
  <2>1. c \in F /\ G = F \ {c}
    BY <1>1, <1>3 DEF FreeClusters
  <2>2. m = n - 1
    BY <1>2, <2>1, FS_RemoveElement
  <2> HIDE DEF m, n
  <2> QED
    BY <1>2, <1>3, <2>2 DEF m, n
<1>4. CASE LinkOn(d, c) # 0 /\ x = 0
  <2>1. c \notin F /\ G = F \cup {c}
    BY <1>1, <1>4 DEF FreeClusters
  <2>2. m = n + 1
    BY <1>2, <2>1, FS_AddElement
  <2> QED
    BY <1>4, <2>2
<1>5. CASE LinkOn(d, c) # 0 /\ x # 0
  <2>1. G = F
    BY <1>1, <1>5 DEF FreeClusters
  <2> QED
    BY <1>5, <2>1
<1> QED
  BY <1>3, <1>4, <1>5

\* Fields that the card and the window do not depend on.
LEMMA OtherFields ==
  ASSUME NEW v, IsVolume(v), NEW w, w = [ f \in DOMAIN w |-> w[f] ],
         SameBut(v, w, { "free", "last", "fsInfoDirty", "result", "value" }), w.free \in 0 .. Ones
  PROVE  /\ IsVolume(w)
         /\ w.disk = v.disk /\ w.dead = v.dead /\ w.fault = v.fault /\ Logical(w) = Logical(v)
<1>1. /\ w.disk = v.disk /\ w.dirty = v.dirty /\ w.dead = v.dead /\ w.fault = v.fault
      /\ w.fuse = v.fuse /\ w.sector = v.sector /\ w.buffer = v.buffer
  BY DEF SameBut, IsVolume, TableFields
<1> QED
  BY <1>1 DEF SameBut, IsVolume, Logical

LEMMA CountFreeCounts ==
  ASSUME NEW v, IsVolume(v), NEW delta \in { 1, Ones }
  PROVE  LET w == CountFree(v, delta)
         IN  /\ w = [ f \in DOMAIN w |-> w[f] ] /\ SameBut(v, w, { "free", "fsInfoDirty" })
             /\ w.free \in 0 .. Ones
             /\ v.free = Ones => w.free = Ones
             /\ v.free # Ones /\ delta = 1 => w.free = v.free + 1
             /\ v.free # Ones /\ delta = Ones /\ v.free # 0 => w.free = v.free - 1
<1> DEFINE w == CountFree(v, delta)
           x == (v.free + delta) % (Ones + 1)
<1> SUFFICES /\ w = [ f \in DOMAIN w |-> w[f] ] /\ SameBut(v, w, { "free", "fsInfoDirty" })
             /\ w.free \in 0 .. Ones
             /\ v.free = Ones => w.free = Ones
             /\ v.free # Ones /\ delta = 1 => w.free = v.free + 1
             /\ v.free # Ones /\ delta = Ones /\ v.free # 0 => w.free = v.free - 1
  OBVIOUS
<1>1. Ones \in Nat /\ v.free \in 0 .. Ones /\ Ones # 0 /\ Ones # 1
  BY TableAssumption, Numbers DEF IsVolume
<1>2. CASE v.free = Ones
  <2>1. w = v
    BY <1>2 DEF CountFree
  <2> QED
    BY <1>1, <1>2, <2>1 DEF IsVolume, SameBut
<1>3. CASE v.free # Ones
  <2>1. w = [ v EXCEPT !.free = x, !.fsInfoDirty = TRUE ]
    BY <1>3 DEF CountFree, IsVolume, TableFields
  <2>2. /\ w = [ f \in DOMAIN w |-> w[f] ] /\ w.free = x
        /\ SameBut(v, w, { "free", "fsInfoDirty" })
    <3> HIDE DEF w, x
    <3> QED
      BY <2>1 DEF IsVolume, TableFields, SameBut
  <2>3. CASE delta = 1
    <3> DEFINE y == v.free + 1
    <3>1. y \in Nat /\ y < Ones + 1 /\ x = y % (Ones + 1)
      BY <1>1, <1>3, <2>3
    <3>2. y % (Ones + 1) = y
      <4> HIDE DEF y
      <4> QED
        BY <1>1, <3>1
    <3> HIDE DEF x, w
    <3> QED
      BY <1>1, <1>3, <2>2, <2>3, <3>1, <3>2
  <2>4. CASE delta = Ones /\ v.free # 0
    <3> DEFINE y == v.free - 1
               k == Ones + 1
    <3>1. y \in 0 .. k - 1 /\ k \in Nat /\ k > 0 /\ v.free + delta = y + k
      BY <1>1, <1>3, <2>4
    <3>2. (y + k) % k = y
      <4> HIDE DEF y, k
      <4> QED
        BY <3>1
    <3>3. x = y
      BY <3>1, <3>2
    <3>4. y \in 0 .. Ones
      BY <1>1, <3>1
    <3> HIDE DEF x, w
    <3> QED
      BY <1>1, <1>3, <2>2, <2>4, <3>3, <3>4
  <2>5. CASE delta = Ones /\ v.free = 0
    <3>1. x = Ones % (Ones + 1)
      BY <1>1, <2>5
    <3>2. Ones % (Ones + 1) = Ones
      BY <1>1
    <3> HIDE DEF x, w
    <3> QED
      BY <1>1, <1>3, <2>2, <2>5, <3>1, <3>2
  <2> QED
    BY <2>3, <2>4, <2>5
<1> QED
  BY <1>2, <1>3

-----------------------------------------------------------------------------
(* createChain. *)

LEMMA LookedAgain ==
  ASSUME NEW v, NEW u, Looked(v, u), NEW w, Looked(u, w)
  PROVE  Looked(v, w)
<1>1. SameBut(v, w, WindowFields \cup { "value" })
  BY DEF Looked, SameBut
<1> QED
  BY <1>1 DEF Looked

LEMMA LookingIsSafe ==
  ASSUME NEW v, NEW w, Looked(v, w)
  PROVE  /\ TableInv(v) => TableInv(w)
         /\ CountRight(v) => CountRight(w)
<1>1. IsVolume(v) => w.free = v.free
  BY DEF Looked, SameBut, IsVolume, TableFields, WindowFields
<1>2. TableInv(v) => TableInv(w)
  BY DEF TableInv, Looked
<1>3. w.free = v.free
  <2>1. "free" \in DOMAIN w
    BY DEF Looked, IsVolume, TableFields
  <2> QED
    BY <2>1 DEF Looked, SameBut, WindowFields
<1>4. CountRight(v) => CountRight(w)
  BY <1>3 DEF CountRight, Looked
<1> QED
  BY <1>2, <1>4

LEMMA LooksLikeItself ==
  ASSUME NEW v, IsVolume(v), NEW x
  PROVE  Looked(v, Gives(v, x)) /\ Gives(v, x).value = x /\ Gives(v, x).result = v.result
<1> DEFINE w == Gives(v, x)
<1>1. /\ w = [ f \in DOMAIN w |-> w[f] ] /\ DOMAIN w = DOMAIN v /\ w.value = x
      /\ \A f \in DOMAIN v \ { "value" } : w[f] = v[f]
  BY DEF Gives, IsVolume, TableFields
<1> HIDE DEF w
<1>2. w.free = v.free /\ w.result = v.result /\ w.disk = v.disk
  BY <1>1 DEF IsVolume, TableFields
<1>3. SameBut(v, w, { "free", "last", "fsInfoDirty", "result", "value" })
  BY <1>1 DEF SameBut
<1>4. IsVolume(w) /\ w.disk = v.disk /\ w.dead = v.dead /\ Logical(w) = Logical(v)
  BY <1>1, <1>2, <1>3, OtherFields DEF IsVolume
<1>5. Looked(v, w)
  BY <1>1, <1>4 DEF Looked, SameBut
<1> QED
  BY <1>1, <1>2, <1>5 DEF w

\* The search looks at every cluster.
LEMMA CandidatesAreClusters ==
  ASSUME NEW from \in 1 .. NumFatEntries - 1, NEW n \in Nat \ {0}
  PROVE  Candidate(from, n) \in Clusters
<1> DEFINE k == NumFatEntries - 2
           y == from + n - 2
<1>1. k \in Nat /\ k > 0 /\ y \in Nat
  BY TableAssumption
<1>2. y % k \in 0 .. k - 1
  <2> HIDE DEF y, k
  <2> QED
    BY <1>1
<1>3. Candidate(from, n) = 2 + (y % k)
  BY DEF Candidate
<1>4. 2 + (y % k) \in 2 .. k + 1
  <2> HIDE DEF y, k
  <2> QED
    BY <1>1, <1>2
<1> QED
  BY <1>1, <1>3, <1>4, TableAssumption DEF Clusters

LEMMA CandidatesAreAll ==
  ASSUME NEW from \in 1 .. NumFatEntries - 1, NEW e \in Clusters
  PROVE  \E n \in 1 .. NumFatEntries - 2 : Candidate(from, n) = e
<1> DEFINE k == NumFatEntries - 2
           y == e - 2
<1>1. k \in Nat /\ k > 0 /\ y \in 0 .. k - 1 /\ e \in Nat /\ from \in Nat
  BY TableAssumption DEF Clusters
<1>2. CASE e > from
  <2>1. e - from \in 1 .. k /\ from + (e - from) - 2 = y
    BY <1>1, <1>2 DEF Clusters
  <2>2. y % k = y
    <3> HIDE DEF y, k
    <3> QED
      BY <1>1
  <2>3. Candidate(from, e - from) = 2 + y
    BY <2>1, <2>2 DEF Candidate
  <2> QED
    BY <1>1, <2>1, <2>3
<1>3. CASE ~(e > from)
  <2>1. e - from + k \in 1 .. k /\ from + (e - from + k) - 2 = y + k
    BY <1>1, <1>3, TableAssumption DEF Clusters
  <2>2. (y + k) % k = y
    <3> HIDE DEF y, k
    <3> QED
      BY <1>1
  <2>3. Candidate(from, e - from + k) = 2 + y
    BY <2>1, <2>2 DEF Candidate
  <2> QED
    BY <1>1, <2>1, <2>3
<1> QED
  BY <1>2, <1>3

\* After k passes of the search, which began in v.
SearchInv(v, from, k, u) ==
  /\ Looked(v, u)
  /\ u.value \in Clusters \cup { 1, Ones, LastLink }
  /\ ~u.dead /\ u.value \in Clusters => LinkOn(Logical(v), u.value) = 0
  /\ ~u.dead /\ u.value = 1 => \E e \in Clusters : LinkOn(Logical(v), e) = 1
  /\ ~u.dead /\ u.value = LastLink => \A j \in 1 .. k : LinkOn(Logical(v), Candidate(from, j)) # 0

LEMMA SearchPassSearches ==
  ASSUME NEW v, NEW from \in 1 .. NumFatEntries - 1, NEW k \in Nat, NEW u, SearchInv(v, from, k, u)
  PROVE  SearchInv(v, from, k + 1, SearchPass(u, from, k + 1))
<1> DEFINE c == Candidate(from, k + 1)
           g == GetFat(u, c)
           w == SearchPass(u, from, k + 1)
<1> SUFFICES SearchInv(v, from, k + 1, w)
  OBVIOUS
<1>1. CASE u.value # LastLink
  <2>1. w = u
    BY <1>1 DEF SearchPass
  <2> QED
    BY <1>1, <2>1 DEF SearchInv
<1>2. CASE u.value = LastLink
  <2>1. c \in Clusters /\ IsVolume(u) /\ Looked(v, u)
    BY CandidatesAreClusters DEF SearchInv, Looked
  <2>2. /\ Looked(u, g) /\ g.value \in 0 .. Ones
        /\ ~g.dead /\ g.value # Ones => g.value = LinkOn(Logical(u), c)
    <3> HIDE DEF c
    <3> QED
      BY <2>1, GetFatLooks
  <2>3. w = IF g.value = 0 THEN Gives(g, c) ELSE IF g.value \in { 1, Ones } THEN g ELSE Gives(g, LastLink)
    BY <1>2 DEF SearchPass, With
  <2> HIDE DEF w, g, c
  <2>4. IsVolume(g)
    BY <2>2 DEF Looked
  <2>5. /\ Looked(g, Gives(g, c)) /\ Gives(g, c).value = c
        /\ Looked(g, Gives(g, LastLink)) /\ Gives(g, LastLink).value = LastLink
    BY <2>4, LooksLikeItself
  <2>6. Looked(v, w)
    BY <2>1, <2>2, <2>3, <2>5, LookedAgain
  <2>7. w.value = IF g.value = 0 THEN c ELSE IF g.value \in { 1, Ones } THEN g.value ELSE LastLink
    BY <2>3, <2>5
  <2>8. w.dead = g.dead
    BY <2>3, <2>4 DEF Gives, IsVolume, TableFields
  <2>9. ~w.dead /\ g.value # Ones => g.value = LinkOn(Logical(v), c)
    BY <2>1, <2>2, <2>8 DEF Looked
  <2>10. ASSUME ~w.dead, w.value = LastLink
         PROVE  \A j \in 1 .. k + 1 : LinkOn(Logical(v), Candidate(from, j)) # 0
    <3>1. LinkOn(Logical(v), Candidate(from, k + 1)) # 0
      BY <2>1, <2>7, <2>9, <2>10, Numbers DEF c
    <3>2. ~u.dead
      BY <2>2, <2>8, <2>10 DEF Looked
    <3>3. \A j \in 1 .. k : LinkOn(Logical(v), Candidate(from, j)) # 0
      BY <1>2, <3>2 DEF SearchInv
    <3> QED
      BY <3>1, <3>3
  <2>11. ~w.dead /\ w.value \in Clusters => LinkOn(Logical(v), w.value) = 0
    BY <2>1, <2>7, <2>9, Numbers
  <2>12. w.value \in Clusters \cup { 1, Ones, LastLink }
    BY <2>1, <2>7
  <2>13. ~w.dead /\ w.value = 1 => \E e \in Clusters : LinkOn(Logical(v), e) = 1
    BY <2>1, <2>7, <2>9, Numbers
  <2> QED
    BY <2>6, <2>10, <2>11, <2>12, <2>13 DEF SearchInv
<1> QED
  BY <1>1, <1>2

LEMMA FindFreeFinds ==
  ASSUME NEW v, IsVolume(v), NEW from \in 1 .. NumFatEntries - 1
  PROVE  LET w == FindFree(v, from)
         IN  /\ Looked(v, w)
             /\ w.value \in Clusters \cup { 0, 1, Ones }
             /\ ~w.dead /\ w.value \in Clusters => LinkOn(Logical(v), w.value) = 0
             /\ ~w.dead /\ w.value = 0 => FreeClusters(Logical(v)) = {}
             /\ ~w.dead /\ TableSound(Logical(v)) => w.value # 1
<1> DEFINE v0 == Gives(v, LastLink)
           u(k) == Search!Passes(v0, from)[k]
           K == NumFatEntries - 2
           T == { k \in Nat : SearchInv(v, from, k, u(k)) }
           w == FindFree(v, from)
<1> SUFFICES /\ Looked(v, w)
             /\ w.value \in Clusters \cup { 0, 1, Ones }
             /\ ~w.dead /\ w.value \in Clusters => LinkOn(Logical(v), w.value) = 0
             /\ ~w.dead /\ w.value = 0 => FreeClusters(Logical(v)) = {}
             /\ ~w.dead /\ TableSound(Logical(v)) => w.value # 1
  OBVIOUS
<1>1. u(0) = v0 /\ \A k \in Nat : u(k + 1) = SearchPass(u(k), from, k + 1)
  BY Search!PassByPass
<1>2. 0 \in T
  <2>1. Looked(v, v0) /\ v0.value = LastLink
    BY LooksLikeItself
  <2>2. SearchInv(v, from, 0, v0)
    <3> HIDE DEF v0
    <3> QED
      BY <2>1, Numbers DEF SearchInv
  <2> QED
    BY <1>1, <2>2
<1>3. ASSUME NEW k \in Nat, k \in T PROVE k + 1 \in T
  <2> HIDE DEF u
  <2>1. SearchInv(v, from, k + 1, SearchPass(u(k), from, k + 1))
    BY <1>3, SearchPassSearches
  <2> QED
    BY <1>1, <2>1
<1>4. Nat \subseteq T
  <2> HIDE DEF T
  <2> QED
    BY <1>2, <1>3, Search!Upwards
<1>5. K \in Nat
  BY TableAssumption
<1>6. SearchInv(v, from, K, u(K))
  <2> HIDE DEF u, K
  <2> QED
    BY <1>4, <1>5
<1>7. w = IF u(K).value = LastLink THEN Gives(u(K), 0) ELSE u(K)
  BY DEF FindFree, With
<1> DEFINE e == u(K)
<1>8. SearchInv(v, from, K, e) /\ w = IF e.value = LastLink THEN Gives(e, 0) ELSE e
  BY <1>6, <1>7
<1> HIDE DEF e, w
<1>9. CASE e.value # LastLink
  BY <1>8, <1>9, Numbers DEF SearchInv, TableSound
<1>10. CASE e.value = LastLink
  <2>1. Looked(v, e) /\ IsVolume(e)
    BY <1>8 DEF SearchInv, Looked
  <2>2. Looked(e, w) /\ w.value = 0
    BY <1>8, <1>10, <2>1, LooksLikeItself
  <2>3. Looked(v, w)
    BY <2>1, <2>2, LookedAgain
  <2>4. ASSUME ~w.dead PROVE FreeClusters(Logical(v)) = {}
    <3>1. ~e.dead
      BY <2>2, <2>4 DEF Looked
    <3>2. \A j \in 1 .. K : LinkOn(Logical(v), Candidate(from, j)) # 0
      BY <1>8, <1>10, <3>1 DEF SearchInv
    <3>3. \A c \in Clusters : LinkOn(Logical(v), c) # 0
      BY <3>2, CandidatesAreAll
    <3> QED
      BY <3>3 DEF FreeClusters
  <2> QED
    BY <2>2, <2>3, <2>4, Numbers
<1> QED
  BY <1>9, <1>10

ChainFields == WindowFields \cup { "value", "free", "last", "fsInfoDirty" }

\* The card d with the free cluster n put after c, or at the start of a chain.
Linked(d, c, n) ==
  IF c = 0 THEN WithLink(d, n, LastLink) ELSE WithLink(WithLink(d, n, LastLink), c, n)

LEMMA PuttingIsSafe ==
  ASSUME NEW v, TableInv(v), NEW c \in Clusters, NEW x \in 0 .. Ones, NEW w, LinkPut(v, w, c, x),
         ~v.dead => TableSound(WithLink(Logical(v), c, x))
  PROVE  TableInv(w)
  BY DEF TableInv, LinkPut

LEMMA PuttingKeepsCount ==
  ASSUME NEW v, IsVolume(v), NEW c \in Clusters, NEW x \in 0 .. Ones, NEW w, LinkPut(v, w, c, x)
  PROVE  w.free = v.free /\ w.value = v.value /\ w.last = v.last
  BY DEF LinkPut, SameBut, IsVolume, TableFields, WindowFields

\* What createChain may do once it has found the free cluster n for the chain that ends
\* in c.
Taken(v, w, c, n) ==
  /\ TableInv(w)
  /\ SameBut(v, w, ChainFields)
  /\ v.dead => w.dead /\ w.disk = v.disk
  /\ w.value \in { n, Ones }
  /\ ~w.dead /\ w.value = n => Logical(w) = Linked(Logical(v), c, n)
  /\ ~w.dead /\ w.value = Ones => Logical(w) \in { Logical(v), WithLink(Logical(v), n, LastLink) }
  /\ CountRight(v) /\ w.value = n => CountRight(w)

LEMMA LinkedIsSound ==
  ASSUME NEW d, IsCard(d), TableSound(d), NEW c \in Clusters \cup {0}, NEW n \in Clusters,
         LinkOn(d, n) = 0, c # 0 => LinkOn(d, c) = LastLink
  PROVE  /\ TableSound(WithLink(d, n, LastLink)) /\ TableSound(Linked(d, c, n))
         /\ Cardinality(FreeClusters(d)) >= 1
         /\ Cardinality(FreeClusters(Linked(d, c, n))) = Cardinality(FreeClusters(d)) - 1
<1> DEFINE e == WithLink(d, n, LastLink)
<1>1. IsCard(e) /\ TableSound(e)
  BY Numbers, SoundMark, TableWith
<1>2. \A k \in Clusters : LinkOn(e, k) = IF k = n THEN LastLink ELSE LinkOn(d, k)
  BY Numbers, TableWith
<1>3. /\ Cardinality(FreeClusters(d)) >= 1
      /\ Cardinality(FreeClusters(e)) = Cardinality(FreeClusters(d)) - 1
  BY FreeAfter, Numbers
<1> HIDE DEF e
<1>4. CASE c = 0
  BY <1>1, <1>3, <1>4 DEF Linked, e
<1>5. CASE c # 0
  <2>1. c \in Clusters /\ LinkOn(e, c) = LastLink /\ LinkOn(e, n) = LastLink /\ n # 0 /\ n \in 0 .. Ones
    BY <1>2, <1>5, Numbers
  <2>2. \A k \in Clusters : LinkOn(e, k) # n
    BY <1>2, Numbers DEF TableSound
  <2>3. TableSound(WithLink(e, c, n))
    BY <1>1, <2>1, <2>2, SoundAppend
  <2>4. Cardinality(FreeClusters(WithLink(e, c, n))) = Cardinality(FreeClusters(e))
    BY <1>1, <2>1, Numbers, FreeAfter
  <2>5. Linked(d, c, n) = WithLink(e, c, n)
    BY <1>5 DEF Linked, e
  <2> QED
    BY <1>1, <1>3, <2>3, <2>4, <2>5 DEF e
<1> QED
  BY <1>4, <1>5

LEMMA TakeTakes ==
  ASSUME NEW v, TableInv(v), NEW c \in Clusters \cup {0}, NEW n \in Clusters,
         ~v.dead => LinkOn(Logical(v), n) = 0 /\ (c # 0 => LinkOn(Logical(v), c) = LastLink)
  PROVE  Taken(v, Take(v, c, n), c, n)
<1> DEFINE m == PutFat(v, n, LastLink)
           u == IF m.result = "OK" THEN IF c = 0 THEN m ELSE PutFat(m, c, n) ELSE m
           w == Take(v, c, n)
<1> SUFFICES Taken(v, w, c, n)
  OBVIOUS
<1>1. IsVolume(v)
  BY DEF TableInv
<1>2. LinkPut(v, m, n, LastLink)
  BY <1>1, Numbers, PutFatPuts
<1>3. ~v.dead => /\ IsCard(Logical(v)) /\ TableSound(Logical(v))
                 /\ TableSound(WithLink(Logical(v), n, LastLink))
                 /\ TableSound(Linked(Logical(v), c, n))
                 /\ Cardinality(FreeClusters(Logical(v))) >= 1
                 /\ Cardinality(FreeClusters(Linked(Logical(v), c, n)))
                      = Cardinality(FreeClusters(Logical(v))) - 1
  BY <1>1, LogicalIsCard, LinkedIsSound DEF TableInv
<1>4. TableInv(m)
  BY <1>2, <1>3, Numbers, PuttingIsSafe
<1>5. m.free = v.free /\ m.last = v.last
  BY <1>1, <1>2, Numbers, PuttingKeepsCount
<1>6. /\ TableInv(u) /\ SameBut(v, u, WindowFields) /\ u.free = v.free
      /\ v.dead => u.dead /\ u.disk = v.disk
      /\ u.result \in { "OK", "DISK_ERR" }
      /\ ~u.dead /\ u.result = "OK" => Logical(u) = Linked(Logical(v), c, n)
      /\ ~u.dead => \/ Logical(u) \in { Logical(v), WithLink(Logical(v), n, LastLink) }
                    \/ u.result = "OK"
  <2>1. CASE m.result # "OK" \/ c = 0
    <3>1. u = m
      BY <2>1
    <3> HIDE DEF u, m
    <3> QED
      BY <1>2, <1>4, <1>5, <2>1, <3>1 DEF LinkPut, Linked
  <2>2. CASE m.result = "OK" /\ c # 0
    <3> DEFINE p == PutFat(m, c, n)
    <3>1. u = p
      BY <2>2
    <3>2. c \in Clusters /\ n \in 0 .. Ones
      BY <2>2, Numbers
    <3>3. LinkPut(m, p, c, n)
      <4> HIDE DEF m
      <4> QED
        BY <1>4, <3>2, PutFatPuts DEF TableInv
    <3> HIDE DEF u, m, p
    <3>4. ~m.dead => ~v.dead /\ Logical(m) = WithLink(Logical(v), n, LastLink)
      BY <1>2, <2>2 DEF LinkPut
    <3>5. ~m.dead => WithLink(Logical(m), c, n) = Linked(Logical(v), c, n)
      BY <2>2, <3>4 DEF Linked
    <3>6. TableInv(p)
      BY <1>3, <1>4, <3>2, <3>3, <3>4, <3>5, PuttingIsSafe
    <3>7. p.free = m.free
      BY <1>4, <3>2, <3>3, PuttingKeepsCount DEF TableInv
    <3>8. SameBut(v, p, WindowFields)
      BY <1>2, <3>3 DEF LinkPut, SameBut
    <3>9. v.dead => p.dead /\ p.disk = v.disk
      BY <1>2, <3>3 DEF LinkPut
    <3>10. ~p.dead => ~m.dead
      BY <3>3 DEF LinkPut
    <3> QED
      BY <1>5, <3>1, <3>3, <3>4, <3>5, <3>6, <3>7, <3>8, <3>9, <3>10 DEF LinkPut
  <2> QED
    BY <2>1, <2>2
<1>7. w = IF u.result = "OK" THEN Gives(CountFree([ u EXCEPT !.last = n ], Ones), n)
          ELSE Gives(u, IF u.result = "DISK_ERR" THEN Ones ELSE 1)
  BY DEF Take, With, Then
<1> HIDE DEF u, m, w
<1>8. CASE u.result # "OK"
  <2>1. w = Gives(u, Ones)
    BY <1>6, <1>7, <1>8
  <2>2. IsVolume(u)
    BY <1>6 DEF TableInv
  <2>3. Looked(u, w) /\ w.value = Ones
    BY <2>1, <2>2, LooksLikeItself
  <2>4. w = [ u EXCEPT !.value = Ones ]
    BY <2>1 DEF Gives
  <2>5. w.disk = u.disk /\ w.dead = u.dead
    BY <2>2, <2>4 DEF IsVolume, TableFields
  <2>6. TableInv(w)
    BY <1>6, <2>3, LookingIsSafe
  <2>7. SameBut(v, w, ChainFields)
    BY <1>6, <2>3 DEF Looked, SameBut, ChainFields
  <2>8. ~w.dead => Logical(w) = Logical(u)
    BY <2>3 DEF Looked
  <2>9. ~u.dead => Logical(u) \in { Logical(v), WithLink(Logical(v), n, LastLink) }
    BY <1>6, <1>8
  <2>10. w.value \in { n, Ones } /\ w.value # n
    BY <2>3, Numbers
  <2> QED
    BY <1>6, <2>5, <2>6, <2>7, <2>8, <2>9, <2>10 DEF Taken
<1>9. CASE u.result = "OK"
  <2> DEFINE a == [ u EXCEPT !.last = n ]
             b == CountFree(a, Ones)
  <2>1. IsVolume(u)
    BY <1>6 DEF TableInv
  <2>2. /\ a = [ f \in DOMAIN a |-> a[f] ] /\ SameBut(u, a, { "last" }) /\ a.free = u.free
    BY <2>1 DEF IsVolume, TableFields, SameBut
  <2> HIDE DEF a
  <2>3. IsVolume(a) /\ a.disk = u.disk /\ a.dead = u.dead /\ Logical(a) = Logical(u)
    <3>1. SameBut(u, a, { "free", "last", "fsInfoDirty", "result", "value" }) /\ a.free \in 0 .. Ones
      BY <2>1, <2>2 DEF SameBut, IsVolume
    <3> QED
      BY <2>1, <2>2, <3>1, OtherFields
  <2>4. /\ b = [ f \in DOMAIN b |-> b[f] ] /\ SameBut(a, b, { "free", "fsInfoDirty" })
        /\ b.free \in 0 .. Ones
        /\ a.free = Ones => b.free = Ones
        /\ a.free # Ones /\ a.free # 0 => b.free = a.free - 1
    BY <2>3, CountFreeCounts
  <2> HIDE DEF b
  <2>5. IsVolume(b) /\ b.disk = u.disk /\ b.dead = u.dead /\ Logical(b) = Logical(u)
    <3>1. SameBut(a, b, { "free", "last", "fsInfoDirty", "result", "value" })
      BY <2>4 DEF SameBut
    <3> QED
      BY <2>3, <2>4, <3>1, OtherFields
  <2>6. w = Gives(b, n)
    BY <1>7, <1>9 DEF a, b
  <2>7. /\ w.value = n /\ Looked(b, w) /\ w.free = b.free /\ w.disk = b.disk /\ w.dead = b.dead
    <3>1. w.value = n /\ Looked(b, w)
      BY <2>5, <2>6, LooksLikeItself
    <3>2. w.free = b.free /\ w.disk = b.disk /\ w.dead = b.dead
      BY <2>5, <2>6 DEF Gives, IsVolume, TableFields
    <3> QED
      BY <3>1, <3>2
  <2>8. TableInv(b)
    BY <1>6, <2>5 DEF TableInv
  <2>9. TableInv(w)
    BY <2>7, <2>8, LookingIsSafe
  <2>10. SameBut(v, w, ChainFields)
    BY <1>6, <2>2, <2>4, <2>7 DEF Looked, SameBut, ChainFields
  <2>11. ~w.dead => Logical(w) = Linked(Logical(v), c, n)
    BY <1>6, <1>9, <2>5, <2>7 DEF Looked
  <2>12. CountRight(v) => CountRight(w)
    <3> SUFFICES ASSUME CountRight(v), ~w.dead PROVE w.free \in { Cardinality(FreeClusters(Logical(w))), Ones }
      BY DEF CountRight
    <3> DEFINE k == Cardinality(FreeClusters(Logical(v)))
               l == Cardinality(FreeClusters(Logical(w)))
    <3>1. ~v.dead
      BY <1>6, <2>5, <2>7
    <3>2. k >= 1 /\ l = k - 1
      BY <1>3, <2>11, <3>1
    <3>3. v.free \in { k, Ones } /\ k \in 0 .. Ones - 1
      <4>1. v.free \in { k, Ones } /\ k \in 0 .. NumFatEntries - 2 /\ NumFatEntries - 2 < Ones - 1
        BY <3>1, FreeIsFinite DEF CountRight
      <4> HIDE DEF k
      <4> QED
        BY <4>1, TableAssumption
    <3>4. w.free = b.free /\ a.free = v.free
      BY <1>6, <2>2, <2>7
    <3> HIDE DEF k, l
    <3>5. w.free \in { l, Ones }
      BY <2>4, <3>2, <3>3, <3>4, TableAssumption
    <3> QED
      BY <3>5 DEF l
  <2>13. n # Ones
    BY Numbers
  <2> QED
    BY <1>6, <2>5, <2>7, <2>9, <2>10, <2>11, <2>12, <2>13 DEF Taken
<1> QED
  BY <1>8, <1>9

\* What createChain (c) may do: give the cluster that follows c, put a free one after c,
\* say that there is none (0) or that c is not in use (1), or fail (Ones), when one free
\* cluster may have been marked for nothing.
ChainMade(v, w, c) ==
  /\ TableInv(w)
  /\ SameBut(v, w, ChainFields)
  /\ v.dead => w.dead /\ w.disk = v.disk
  /\ CountRight(v) /\ w.value # Ones => CountRight(w)
  /\ ~w.dead =>
       \/ /\ w.value \in Clusters /\ c # 0 /\ LinkOn(Logical(v), c) = w.value
          /\ Logical(w) = Logical(v)
       \/ /\ w.value \in FreeClusters(Logical(v))
          /\ c # 0 => LinkOn(Logical(v), c) = LastLink
          /\ Logical(w) = Linked(Logical(v), c, w.value)
       \/ w.value = 0 /\ FreeClusters(Logical(v)) = {} /\ Logical(w) = Logical(v)
       \/ w.value = 1 /\ c \in FreeClusters(Logical(v)) /\ Logical(w) = Logical(v)
       \/ /\ w.value = Ones
          /\ \/ Logical(w) = Logical(v)
             \/ \E n \in FreeClusters(Logical(v)) : Logical(w) = WithLink(Logical(v), n, LastLink)

\* createChain (fatFs.cpp:1708) keeps the table sound, on the card and in the window, and
\* the free count right: for a table of any size, whichever access fails or is the last
\* before the power goes.
THEOREM CreateChainKeepsTheTable ==
  ASSUME NEW v, TableInv(v), NEW c \in Clusters \cup {0}
  PROVE  ChainMade(v, CreateChain(v, c), c)
<1> DEFINE from == IF c # 0 THEN c ELSE IF v.last \in 1 .. NumFatEntries - 1 THEN v.last ELSE 1
           g == IF c = 0 THEN Gives(v, LastLink) ELSE GetFat(v, c)
           f == FindFree(g, from)
           t == Take(f, c, f.value)
           w == CreateChain(v, c)
<1> SUFFICES ChainMade(v, w, c)
  OBVIOUS
<1>1. IsVolume(v)
  BY DEF TableInv
<1>2. from \in 1 .. NumFatEntries - 1
  BY TableAssumption DEF Clusters
<1>3. w = IF g.value # LastLink THEN Gives(g, IF g.value < 2 THEN 1 ELSE g.value)
          ELSE IF f.value \in Clusters THEN t ELSE f
  BY DEF CreateChain, With
<1>4. /\ Looked(v, g) /\ g.value \in 0 .. Ones
      /\ c = 0 => g.value = LastLink
      /\ ~g.dead /\ g.value # Ones /\ c # 0 => g.value = LinkOn(Logical(v), c)
  <2>1. CASE c = 0
    <3>1. g = Gives(v, LastLink)
      BY <2>1
    <3> HIDE DEF g
    <3> QED
      BY <1>1, <2>1, <3>1, LooksLikeItself, Numbers
  <2>2. CASE c # 0
    <3>1. g = GetFat(v, c) /\ c \in Clusters
      BY <2>2
    <3> HIDE DEF g
    <3> QED
      BY <1>1, <2>2, <3>1, GetFatLooks
  <2> QED
    BY <2>1, <2>2
<1>5. IsVolume(g) /\ TableInv(g) /\ (CountRight(v) => CountRight(g))
  BY <1>4, LookingIsSafe DEF Looked
<1>6. CASE g.value # LastLink
  <2> DEFINE x == IF g.value < 2 THEN 1 ELSE g.value
  <2>1. w = Gives(g, x)
    BY <1>3, <1>6
  <2> HIDE DEF w, g, x
  <2>2. Looked(g, w) /\ w.value = x
    BY <1>5, <2>1, LooksLikeItself
  <2>3. Looked(v, w) /\ TableInv(w) /\ (CountRight(v) => CountRight(w))
    BY <1>4, <1>5, <2>2, LookedAgain, LookingIsSafe
  <2>4. SameBut(v, w, ChainFields)
    BY <2>3 DEF Looked, SameBut, ChainFields
  <2>5. ASSUME ~w.dead, w.value # Ones
        PROVE  \/ /\ w.value \in Clusters /\ c # 0 /\ LinkOn(Logical(v), c) = w.value
               \/ w.value = 1 /\ c \in FreeClusters(Logical(v))
    <3>1. ~g.dead /\ ~v.dead
      BY <1>4, <2>2, <2>5 DEF Looked
    <3>2. c \in Clusters
      BY <1>4, <1>6
    <3>3. g.value # Ones
      BY <2>2, <2>5, TableAssumption DEF x
    <3>4. g.value = LinkOn(Logical(v), c)
      BY <1>4, <3>1, <3>2, <3>3, Numbers
    <3>5. g.value \in { 0 } \cup Clusters
      BY <1>6, <3>1, <3>2, <3>4 DEF TableInv, TableSound
    <3> QED
      BY <2>2, <3>2, <3>4, <3>5, Numbers DEF x, FreeClusters, Clusters
  <2>6. ~w.dead => Logical(w) = Logical(v)
    BY <2>3 DEF Looked
  <2>7. v.dead => w.dead /\ w.disk = v.disk
    BY <2>3 DEF Looked
  <2> QED
    BY <2>3, <2>4, <2>5, <2>6, <2>7 DEF ChainMade
<1>7. CASE g.value = LastLink
  <2>1. /\ Looked(g, f)
        /\ f.value \in Clusters \cup { 0, 1, Ones }
        /\ ~f.dead /\ f.value \in Clusters => LinkOn(Logical(g), f.value) = 0
        /\ ~f.dead /\ f.value = 0 => FreeClusters(Logical(g)) = {}
        /\ ~f.dead /\ TableSound(Logical(g)) => f.value # 1
    <3> HIDE DEF g, from
    <3> QED
      BY <1>2, <1>5, FindFreeFinds
  <2>2. w = IF f.value \in Clusters THEN t ELSE f
    BY <1>3, <1>7
  <2> HIDE DEF w, g, f
  <2>3. Looked(v, f) /\ TableInv(f) /\ (CountRight(v) => CountRight(f))
    BY <1>4, <1>5, <2>1, LookedAgain, LookingIsSafe
  <2>4. ~f.dead => ~g.dead /\ ~v.dead /\ Logical(g) = Logical(v) /\ Logical(f) = Logical(v)
    BY <1>4, <2>1, <2>3 DEF Looked
  <2>5. ~f.dead /\ c # 0 => LinkOn(Logical(v), c) = LastLink
    BY <1>4, <1>7, <2>4, Numbers
  <2>6. CASE f.value \in Clusters
    <3> DEFINE n == f.value
    <3>1. w = Take(f, c, n)
      BY <2>2, <2>6
    <3>2. ~f.dead => LinkOn(Logical(f), n) = 0 /\ (c # 0 => LinkOn(Logical(f), c) = LastLink)
      BY <2>1, <2>4, <2>5, <2>6
    <3>3. Taken(f, w, c, n)
      BY <2>3, <2>6, <3>1, <3>2, TakeTakes
    <3>4. SameBut(v, w, ChainFields)
      BY <2>3, <3>3 DEF Looked, Taken, SameBut, ChainFields
    <3>5. v.dead => w.dead /\ w.disk = v.disk
      BY <2>3, <3>3 DEF Looked, Taken
    <3>6. CountRight(v) /\ w.value # Ones => CountRight(w)
      BY <2>3, <3>3 DEF Taken
    <3>7. ~w.dead => ~f.dead
      BY <3>3 DEF Taken
    <3>8. ~f.dead => n \in FreeClusters(Logical(v))
      BY <2>4, <2>6, <3>2 DEF FreeClusters
    <3>9. TableInv(w)
      BY <3>3 DEF Taken
    <3>10. ASSUME ~w.dead, w.value = n PROVE Logical(w) = Linked(Logical(v), c, n)
      BY <2>4, <3>3, <3>7, <3>10 DEF Taken
    <3>11. ASSUME ~w.dead, w.value # n
           PROVE  /\ w.value = Ones
                  /\ Logical(w) \in { Logical(v), WithLink(Logical(v), n, LastLink) }
      BY <2>4, <3>3, <3>7, <3>11 DEF Taken
    <3> HIDE DEF n
    <3> QED
      BY <2>5, <3>4, <3>5, <3>6, <3>7, <3>8, <3>9, <3>10, <3>11 DEF ChainMade
  <2>7. CASE f.value \notin Clusters
    <3>1. w = f
      BY <2>2, <2>7
    <3>2. SameBut(v, w, ChainFields)
      BY <2>3, <3>1 DEF Looked, SameBut, ChainFields
    <3>3. v.dead => w.dead /\ w.disk = v.disk
      BY <2>3, <3>1 DEF Looked
    <3>4. ~w.dead => TableSound(Logical(g))
      BY <2>4, <3>1 DEF TableInv
    <3>5. ~w.dead => \/ w.value = 0 /\ FreeClusters(Logical(v)) = {}
                     \/ w.value = Ones
      BY <2>1, <2>4, <2>7, <3>1, <3>4
    <3> QED
      BY <2>3, <2>4, <3>1, <3>2, <3>3, <3>5 DEF ChainMade
  <2> QED
    BY <2>6, <2>7
<1> QED
  BY <1>6, <1>7

-----------------------------------------------------------------------------
(* removeChain. *)

\* What is free on card e and was not on d.
Freed(d, e) == { x \in Clusters : LinkOn(d, x) # 0 /\ LinkOn(e, x) = 0 }

\* No link leads into K or out of it.
Apart(d, K) ==
  \A x \in Clusters : LinkOn(d, x) \in Clusters => (x \in K <=> LinkOn(d, x) \in K)

\* What of the chain from c on is freed so far, from card d to card e: all up to cluster n.
PartFreed(d, e, c, n) ==
  /\ n \in Clusters => \A x \in Clusters : LinkOn(e, x) # n
  /\ n = c \/ LinkOn(e, c) = 0
  /\ \A x \in Freed(d, e) : LinkOn(d, x) \in Clusters => LinkOn(d, x) \in Freed(d, e) \cup { n }
  /\ \A K \in SUBSET Clusters : Apart(d, K) /\ c \notin K => n \notin K

\* No chain but the one from c on loses a link, on the way from card d to card e.
OnlyFrees(d, e, c) ==
  /\ \A x \in Clusters : LinkOn(e, x) \in { LinkOn(d, x), 0 }
  /\ \A K \in SUBSET Clusters : Apart(d, K) /\ c \notin K => K \cap Freed(d, e) = {}

\* After k passes of the loop, which began in v with cluster c.
FreeInv(v, c, k, u) ==
  /\ TableInv(u)
  /\ SameBut(v, u, ChainFields)
  /\ v.dead => u.dead /\ u.disk = v.disk
  /\ CountRight(v) => CountRight(u)
  /\ ~u.dead =>
       /\ OnlyFrees(Logical(v), Logical(u), c)
       /\ u.result = "OK" => PartFreed(Logical(v), Logical(u), c, u.value)
       /\ u.result = "OK" /\ u.value \in Clusters => Cardinality(FreeClusters(Logical(u))) >= k

\* One cluster further.
LEMMA PartFreedOn ==
  ASSUME NEW d, IsCard(d), TableSound(d), NEW e, IsCard(e), TableSound(e), NEW c \in Clusters,
         NEW n \in Clusters, OnlyFrees(d, e, c), PartFreed(d, e, c, n), LinkOn(e, n) # 0
  PROVE  LET h == WithLink(e, n, 0)
         IN  TableSound(h) /\ OnlyFrees(d, h, c) /\ PartFreed(d, h, c, LinkOn(e, n))
<1> DEFINE h == WithLink(e, n, 0)
           m == LinkOn(e, n)
<1>1. \A x \in Clusters : LinkOn(h, x) = IF x = n THEN 0 ELSE LinkOn(e, x)
  BY Numbers, TableWith
<1>2. m = LinkOn(d, n)
  BY DEF OnlyFrees
<1>3. Freed(d, h) = Freed(d, e) \cup { n }
  <2> HIDE DEF h
  <2> QED
    BY <1>1, <1>2 DEF Freed
<1>4. TableSound(h) /\ (m \in Clusters => \A x \in Clusters : LinkOn(h, x) # m)
  BY SoundFree DEF PartFreed
<1> HIDE DEF h, m
<1>5. OnlyFrees(d, h, c)
  <2>1. \A x \in Clusters : LinkOn(h, x) \in { LinkOn(d, x), 0 }
    BY <1>1 DEF OnlyFrees
  <2>2. ASSUME NEW K \in SUBSET Clusters, Apart(d, K), c \notin K PROVE K \cap Freed(d, h) = {}
    <3>1. K \cap Freed(d, e) = {} /\ n \notin K
      BY <2>2 DEF OnlyFrees, PartFreed
    <3> QED
      BY <1>3, <3>1
  <2> QED
    BY <2>1, <2>2 DEF OnlyFrees
<1>6. PartFreed(d, h, c, m)
  <2>1. LinkOn(h, c) = 0
    BY <1>1 DEF PartFreed
  <2>2. \A x \in Freed(d, h) : LinkOn(d, x) \in Clusters => LinkOn(d, x) \in Freed(d, h) \cup { m }
    BY <1>2, <1>3 DEF PartFreed
  <2>3. ASSUME NEW K \in SUBSET Clusters, Apart(d, K), c \notin K PROVE m \notin K
    <3>1. n \notin K
      BY <2>3 DEF PartFreed
    <3> QED
      BY <1>2, <2>3, <3>1 DEF Apart
  <2> QED
    BY <1>4, <2>1, <2>2, <2>3 DEF PartFreed
<1> QED
  BY <1>4, <1>5, <1>6 DEF h, m

\* A cluster that is free already ends the loop.
LEMMA PartFreedEnds ==
  ASSUME NEW d, IsCard(d), TableSound(d), NEW e, NEW c \in Clusters,
         NEW n \in Clusters, PartFreed(d, e, c, n), LinkOn(e, n) = 0
  PROVE  PartFreed(d, e, c, 0)
<1>1. \A x \in Freed(d, e) : LinkOn(d, x) \in Clusters => LinkOn(d, x) \in Freed(d, e)
  <2> SUFFICES ASSUME NEW x \in Freed(d, e), LinkOn(d, x) = n PROVE n \in Freed(d, e)
    BY DEF PartFreed
  <2>1. x \in Clusters
    BY DEF Freed
  <2>2. LinkOn(d, n) # 0
    BY <2>1 DEF TableSound
  <2> QED
    BY <2>2 DEF Freed
<1>2. LinkOn(e, c) = 0
  BY DEF PartFreed
<1> QED
  BY <1>1, <1>2, Numbers DEF PartFreed

LEMMA FailsLooks ==
  ASSUME NEW v, IsVolume(v), NEW r
  PROVE  LET w == Fails(v, r)
         IN  Looked(v, w) /\ w.value = v.value /\ w.result = r /\ w.dead = v.dead
<1> DEFINE w == Fails(v, r)
<1>1. /\ w = [ f \in DOMAIN w |-> w[f] ] /\ DOMAIN w = DOMAIN v /\ w.result = r
      /\ \A f \in DOMAIN v \ { "result" } : w[f] = v[f]
  BY DEF Fails, IsVolume, TableFields
<1> HIDE DEF w
<1>2. w.free = v.free /\ w.value = v.value
  BY <1>1 DEF IsVolume, TableFields
<1>3. SameBut(v, w, { "free", "last", "fsInfoDirty", "result", "value" })
  BY <1>1 DEF SameBut
<1>4. IsVolume(w) /\ w.disk = v.disk /\ w.dead = v.dead /\ Logical(w) = Logical(v)
  BY <1>1, <1>2, <1>3, OtherFields DEF IsVolume
<1>5. Looked(v, w)
  BY <1>1, <1>4 DEF Looked, SameBut, WindowFields
<1> QED
  BY <1>1, <1>2, <1>4, <1>5 DEF w

\* A pass of the loop: it frees a cluster, or leaves the loop.
LEMMA FreePassFrees ==
  ASSUME NEW v, TableInv(v), NEW c \in Clusters, NEW k \in Nat, NEW u, FreeInv(v, c, k, u)
  PROVE  FreeInv(v, c, k + 1, FreePass(u, 0, k + 1))
<1> DEFINE n == u.value
           g == GetFat(u, n)
           m == PutFat(g, n, 0)
           w == FreePass(u, 0, k + 1)
<1> SUFFICES FreeInv(v, c, k + 1, w)
  OBVIOUS
<1>1. CASE u.result # "OK" \/ n \notin Clusters
  <2>1. w = u
    BY <1>1 DEF FreePass
  <2> HIDE DEF w
  <2> QED
    BY <1>1, <2>1 DEF FreeInv
<1>2. CASE u.result = "OK" /\ n \in Clusters
  <2>1. IsVolume(u) /\ TableInv(u)
    BY DEF FreeInv, TableInv
  <2>2. /\ Looked(u, g) /\ g.value \in 0 .. Ones
        /\ ~g.dead /\ g.value # Ones => g.value = LinkOn(Logical(u), n)
    <3> HIDE DEF n
    <3> QED
      BY <1>2, <2>1, GetFatLooks
  <2>3. w = CASE g.value = 0    -> Fails(g, "OK")
              [] g.value = 1    -> Fails(g, "INT_ERR")
              [] g.value = Ones -> Fails(g, "DISK_ERR")
              [] OTHER          -> IF m.result = "OK" THEN CountFree(m, 1) ELSE m
    BY <1>2 DEF FreePass, With, Then
  <2> HIDE DEF w, g, m
  <2>4. IsVolume(g) /\ TableInv(g) /\ (CountRight(u) => CountRight(g))
    BY <2>1, <2>2, LookingIsSafe DEF Looked
  <2>6. ~g.dead => ~u.dead /\ Logical(g) = Logical(u)
    BY <2>2 DEF Looked
  <2>7. /\ SameBut(v, g, ChainFields)
        /\ v.dead => g.dead /\ g.disk = v.disk
    BY <2>2 DEF FreeInv, Looked, SameBut, ChainFields
  <2>8. ~u.dead => /\ OnlyFrees(Logical(v), Logical(u), c)
                   /\ PartFreed(Logical(v), Logical(u), c, n)
                   /\ Cardinality(FreeClusters(Logical(u))) >= k
                   /\ ~v.dead /\ TableSound(Logical(v)) /\ IsCard(Logical(v))
                   /\ TableSound(Logical(u)) /\ IsCard(Logical(u))
    BY <1>2, <2>1, LogicalIsCard DEF FreeInv, TableInv
  <2>9. CASE g.value \in { 0, 1, Ones }
    <3> DEFINE r == IF g.value = 0 THEN "OK" ELSE IF g.value = 1 THEN "INT_ERR" ELSE "DISK_ERR"
    <3>1. w = Fails(g, r)
      BY <2>3, <2>9, Numbers
    <3>2. Looked(g, w) /\ w.value = g.value /\ w.result = r /\ w.dead = g.dead
      BY <2>4, <3>1, FailsLooks
    <3> HIDE DEF r
    <3>3. TableInv(w) /\ (CountRight(g) => CountRight(w))
      BY <2>4, <3>2, LookingIsSafe
    <3>4. SameBut(v, w, ChainFields) /\ (v.dead => w.dead /\ w.disk = v.disk)
      BY <2>7, <3>2 DEF Looked, SameBut, ChainFields
    <3>5. ~w.dead => ~g.dead /\ ~u.dead /\ Logical(w) = Logical(u)
      BY <2>6, <3>2 DEF Looked
    <3>6. ASSUME ~w.dead, w.result = "OK"
          PROVE  PartFreed(Logical(v), Logical(w), c, w.value) /\ w.value \notin Clusters
      <4>1. g.value = 0
        BY <2>9, <3>2, <3>6 DEF r
      <4>2. LinkOn(Logical(u), n) = 0
        BY <2>2, <3>5, <3>6, <4>1, Numbers
      <4>3. PartFreed(Logical(v), Logical(u), c, 0)
        BY <1>2, <2>8, <3>5, <3>6, <4>2, PartFreedEnds
      <4> QED
        BY <3>2, <3>5, <3>6, <4>1, <4>3, Numbers
    <3>7. CountRight(v) => CountRight(w)
      BY <2>4, <3>3 DEF FreeInv
    <3> QED
      BY <2>8, <3>3, <3>4, <3>5, <3>6, <3>7 DEF FreeInv
  <2>10. CASE g.value \notin { 0, 1, Ones }
    <3> DEFINE h == WithLink(Logical(u), n, 0)
    <3>1. LinkPut(g, m, n, 0)
      <4> HIDE DEF n
      <4> QED
        BY <1>2, <2>4, Numbers, PutFatPuts DEF m
    <3>2. m.free = g.free /\ m.value = g.value
      <4>1. n \in Clusters /\ 0 \in 0 .. Ones
        BY <1>2, Numbers
      <4> HIDE DEF n
      <4> QED
        BY <2>4, <3>1, <4>1, PuttingKeepsCount
    <3>3. ~g.dead => g.value = LinkOn(Logical(u), n) /\ LinkOn(Logical(u), n) # 0
      BY <2>2, <2>10
    <3>4. ~g.dead => /\ TableSound(h) /\ OnlyFrees(Logical(v), h, c)
                     /\ PartFreed(Logical(v), h, c, g.value)
      BY <1>2, <2>6, <2>8, <3>3, PartFreedOn
    <3>5. ~g.dead => Cardinality(FreeClusters(h)) = Cardinality(FreeClusters(Logical(u))) + 1
      BY <1>2, <2>6, <2>8, <3>3, Numbers, FreeAfter
    <3> HIDE DEF h
    <3>6. TableInv(m)
      BY <1>2, <2>4, <2>6, <3>1, <3>4, Numbers, PuttingIsSafe DEF h
    <3>7. SameBut(v, m, ChainFields) /\ (v.dead => m.dead /\ m.disk = v.disk)
      BY <2>7, <3>1 DEF LinkPut, SameBut, ChainFields
    <3>8. ~m.dead => /\ ~g.dead /\ ~u.dead
                     /\ Logical(m) = IF m.result = "OK" THEN h ELSE Logical(u)
      BY <2>6, <3>1 DEF LinkPut, h
    <3>9. CASE m.result # "OK"
      <4>1. w = m
        BY <2>3, <2>10, <3>9
      <4>2. CountRight(g) => CountRight(m)
        BY <2>6, <3>2, <3>8, <3>9 DEF CountRight
      <4>3. CountRight(v) => CountRight(w)
        BY <2>4, <4>1, <4>2 DEF FreeInv
      <4>4. ~w.dead => OnlyFrees(Logical(v), Logical(w), c)
        BY <2>8, <3>8, <3>9, <4>1
      <4> QED
        BY <3>6, <3>7, <3>9, <4>1, <4>3, <4>4 DEF FreeInv
    <3>10. CASE m.result = "OK"
      <4>1. w = CountFree(m, 1)
        BY <2>3, <2>10, <3>10
      <4>2. IsVolume(m)
        BY <3>6 DEF TableInv
      <4>3. /\ w = [ f \in DOMAIN w |-> w[f] ] /\ SameBut(m, w, { "free", "fsInfoDirty" })
            /\ w.free \in 0 .. Ones
            /\ m.free = Ones => w.free = Ones
            /\ m.free # Ones => w.free = m.free + 1
        BY <4>1, <4>2, CountFreeCounts
      <4>4. SameBut(m, w, { "free", "last", "fsInfoDirty", "result", "value" })
        BY <4>3 DEF SameBut
      <4>5. IsVolume(w) /\ w.disk = m.disk /\ w.dead = m.dead /\ Logical(w) = Logical(m)
        BY <4>2, <4>3, <4>4, OtherFields
      <4>6. w.value = g.value /\ w.result = "OK"
        BY <3>2, <3>10, <4>2, <4>3 DEF SameBut, IsVolume, TableFields
      <4>7. TableInv(w)
        BY <3>6, <4>5 DEF TableInv
      <4>8. SameBut(v, w, ChainFields) /\ (v.dead => w.dead /\ w.disk = v.disk)
        BY <3>7, <4>3, <4>5 DEF SameBut, ChainFields
      <4>9. ~w.dead => ~g.dead /\ ~u.dead /\ Logical(w) = h
        BY <3>8, <3>10, <4>5
      <4>10. CountRight(v) => CountRight(w)
        <5> SUFFICES ASSUME CountRight(v), ~w.dead
                     PROVE  w.free \in { Cardinality(FreeClusters(Logical(w))), Ones }
          BY DEF CountRight
        <5>1. g.free \in { Cardinality(FreeClusters(Logical(u))), Ones }
          BY <2>4, <2>6, <4>9 DEF FreeInv, CountRight
        <5> QED
          BY <3>2, <3>5, <4>3, <4>9, <5>1
      <4>11. ASSUME ~w.dead PROVE Cardinality(FreeClusters(Logical(w))) >= k + 1
        <5> DEFINE a == Cardinality(FreeClusters(Logical(u)))
        <5>1. a >= k /\ a \in Nat /\ Cardinality(FreeClusters(Logical(w))) = a + 1
          BY <2>8, <3>5, <4>9, <4>11, FreeIsFinite
        <5> HIDE DEF a
        <5> QED
          BY <5>1
      <4>12. ~w.dead => /\ OnlyFrees(Logical(v), Logical(w), c)
                        /\ PartFreed(Logical(v), Logical(w), c, w.value)
        BY <3>4, <4>6, <4>9
      <4> QED
        BY <4>7, <4>8, <4>10, <4>11, <4>12 DEF FreeInv
    <3> QED
      BY <3>9, <3>10
  <2> QED
    BY <2>9, <2>10
<1> QED
  BY <1>1, <1>2

\* What removeChain (c) may do: free the chain from c on, and nothing else; all of it
\* unless it fails.
ChainRemoved(v, w, c) ==
  /\ TableInv(w)
  /\ SameBut(v, w, ChainFields)
  /\ v.dead => w.dead /\ w.disk = v.disk
  /\ CountRight(v) => CountRight(w)
  /\ ~w.dead =>
       LET freed == Freed(Logical(v), Logical(w))
       IN  /\ OnlyFrees(Logical(v), Logical(w), c)
           /\ w.result = "OK" =>
                /\ LinkOn(Logical(w), c) = 0
                /\ \A x \in freed : LinkOn(Logical(v), x) \in Clusters => LinkOn(Logical(v), x) \in freed

\* removeChain (fatFs.cpp:1773) of a chain from its start keeps the table sound, on the
\* card and in the window, and the free count right; it frees the chain to its end unless
\* an access fails, and no other: for chains of any length, whichever access fails or is
\* the last before the power goes.
THEOREM RemoveChainKeepsTheTable ==
  ASSUME NEW v, TableInv(v), NEW c \in Clusters,
         ~v.dead => \A x \in Clusters : LinkOn(Logical(v), x) # c
  PROVE  ChainRemoved(v, RemoveChain(v, c), c)
<1> DEFINE v0 == Fails(v, "OK")
           v1 == Gives(v0, c)
           u(k) == Freeing!Passes(v1, 0)[k]
           T == { k \in Nat : FreeInv(v, c, k, u(k)) }
           w == u(NumFatEntries)
<1>1. RemoveChain(v, c) = w
  BY DEF RemoveChain, FreeFrom
<1>2. u(0) = v1 /\ \A k \in Nat : u(k + 1) = FreePass(u(k), 0, k + 1)
  BY Freeing!PassByPass
<1>3. 0 \in T
  <2>1. IsVolume(v)
    BY DEF TableInv
  <2>2. Looked(v, v0) /\ v0.result = "OK"
    BY <2>1, FailsLooks
  <2>3. IsVolume(v0)
    BY <2>2 DEF Looked
  <2> HIDE DEF v0
  <2>4. Looked(v0, v1) /\ v1.value = c /\ v1.result = "OK"
    BY <2>2, <2>3, LooksLikeItself
  <2> HIDE DEF v1
  <2>5. Looked(v, v1)
    BY <2>2, <2>4, LookedAgain
  <2>6. TableInv(v1) /\ (CountRight(v) => CountRight(v1))
    BY <2>5, LookingIsSafe
  <2>7. SameBut(v, v1, ChainFields) /\ (v.dead => v1.dead /\ v1.disk = v.disk)
    BY <2>5 DEF Looked, SameBut, ChainFields
  <2>8. ~v1.dead => ~v.dead /\ Logical(v1) = Logical(v)
    BY <2>5 DEF Looked
  <2>9. Freed(Logical(v), Logical(v)) = {}
    BY DEF Freed
  <2>10. OnlyFrees(Logical(v), Logical(v), c)
    BY <2>9 DEF OnlyFrees
  <2>11. ~v.dead => PartFreed(Logical(v), Logical(v), c, c)
    BY <2>9 DEF PartFreed
  <2>12. Cardinality(FreeClusters(Logical(v1))) >= 0
    BY FreeIsFinite
  <2>13. FreeInv(v, c, 0, v1)
    BY <2>4, <2>6, <2>7, <2>8, <2>10, <2>11, <2>12 DEF FreeInv
  <2> QED
    BY <1>2, <2>13
<1>4. ASSUME NEW k \in Nat, k \in T PROVE k + 1 \in T
  <2> HIDE DEF u
  <2>1. FreeInv(v, c, k + 1, FreePass(u(k), 0, k + 1))
    BY <1>4, FreePassFrees
  <2> QED
    BY <1>2, <2>1
<1>5. Nat \subseteq T
  <2> HIDE DEF T
  <2> QED
    BY <1>3, <1>4, Freeing!Upwards
<1>6. FreeInv(v, c, NumFatEntries, w)
  <2> HIDE DEF u
  <2> QED
    BY <1>5, TableAssumption
<1> HIDE DEF w
<1>7. ~w.dead /\ w.result = "OK" => w.value \notin Clusters
  BY <1>6, FreeIsFinite, TableAssumption DEF FreeInv
<1>8. ASSUME ~w.dead, w.result = "OK"
      PROVE  /\ LinkOn(Logical(w), c) = 0
             /\ \A x \in Freed(Logical(v), Logical(w)) :
                  LinkOn(Logical(v), x) \in Clusters => LinkOn(Logical(v), x) \in Freed(Logical(v), Logical(w))
  <2>1. PartFreed(Logical(v), Logical(w), c, w.value) /\ w.value \notin Clusters
    BY <1>6, <1>7, <1>8 DEF FreeInv
  <2> QED
    BY <2>1 DEF PartFreed
<1>9. ChainRemoved(v, w, c)
  BY <1>6, <1>8 DEF FreeInv, ChainRemoved
<1> QED
  BY <1>1, <1>9

-----------------------------------------------------------------------------
(* What is kept. *)

Errors == { "DISK_ERR", "INT_ERR" }

\* What FSINFO says is what the program counts, or that nobody knows; a window on FSINFO
\* shows it.
Informed(v) ==
  /\ ~v.dead
  /\ ~v.fsInfoDirty => v.disk[FsInfoSector].units[1] \in { v.free, Ones }
  /\ v.sector = FsInfoSector => v.buffer.units[1] = v.disk[FsInfoSector].units[1]

\* The free count is right, in the program and in FSINFO.
Accurate(v) == Informed(v) /\ v.free \in { Cardinality(FreeClusters(Logical(v))), Ones }

Right(v) == v.fault = "none" => Accurate(v)

\* From v to w the volume stays in order, and right if no fault was planned.
Stays(v, w) ==
  /\ VolumeOK(w)
  /\ DOMAIN w = DOMAIN v
  /\ w.fault = v.fault
  /\ v.fault = "none" /\ Informed(v) => Informed(w)
  /\ Right(v) => Right(w)

\* The same, but a count that is off may be owned up to by an error.
StaysOrFails(v, w) ==
  /\ VolumeOK(w)
  /\ DOMAIN w = DOMAIN v
  /\ w.fault = v.fault
  /\ Right(v) => Right(w) \/ w.result \in Errors

VolumeFields == TableFields \cup { "dir", "locks", "o", "data", "found", "misled", "unclean" }

\* Fields that the volume and its count do not depend on.
OuterFields == { "last", "result", "value", "dir", "locks", "o", "data", "found", "misled", "unclean" }

\* A volume in order has all the fields.
LEMMA Fields ==
  ASSUME NEW v, VolumeOK(v)
  PROVE  /\ v = [ f \in DOMAIN v |-> v[f] ]
         /\ VolumeFields \subseteq DOMAIN v
         /\ TableFields \subseteq DOMAIN v
  BY DEF VolumeOK, IsVolume, HasFields, VolumeFields

\* A step that changes outer fields only keeps the volume and its count.
LEMMA OuterStays ==
  ASSUME NEW v, VolumeOK(v), NEW w, w = [ f \in DOMAIN w |-> w[f] ], SameBut(v, w, OuterFields)
  PROVE  /\ VolumeOK(w) /\ Stays(v, w) /\ Logical(w) = Logical(v)
         /\ w.dead = v.dead /\ w.disk = v.disk /\ w.dirty = v.dirty /\ w.sector = v.sector /\ w.buffer = v.buffer
         /\ w.free = v.free /\ w.fsInfoDirty = v.fsInfoDirty /\ w.fuse = v.fuse /\ w.fault = v.fault
         /\ Accurate(v) => Accurate(w)
<1>1. VolumeFields \subseteq DOMAIN v /\ DOMAIN w = DOMAIN v
  BY Fields DEF SameBut
<1>2. /\ w.disk = v.disk /\ w.sector = v.sector /\ w.buffer = v.buffer /\ w.dirty = v.dirty
      /\ w.free = v.free /\ w.fsInfoDirty = v.fsInfoDirty /\ w.fuse = v.fuse /\ w.dead = v.dead
      /\ w.fault = v.fault
  BY <1>1 DEF SameBut, VolumeFields, TableFields, OuterFields
<1>3. Logical(w) = Logical(v)
  BY <1>2 DEF Logical
<1>4. VolumeOK(w)
  BY <1>1, <1>2 DEF VolumeOK, IsVolume, HasFields
<1>5. (Informed(v) => Informed(w)) /\ (Accurate(v) => Accurate(w))
  BY <1>2, <1>3 DEF Accurate, Informed
<1> QED
  BY <1>1, <1>2, <1>3, <1>4, <1>5 DEF Stays, Right

\* The results that a caller sees.
LEMMA FailsStays ==
  ASSUME NEW v, VolumeOK(v), NEW r
  PROVE  /\ VolumeOK(Fails(v, r)) /\ Stays(v, Fails(v, r))
         /\ SameBut(v, Fails(v, r), { "result" }) /\ Fails(v, r).result = r
<1> DEFINE w == Fails(v, r)
<1>1. w = [ f \in DOMAIN w |-> w[f] ] /\ SameBut(v, w, { "result" }) /\ w.result = r
  BY Fields DEF Fails, SameBut, VolumeFields, TableFields
<1> HIDE DEF w
<1>2. SameBut(v, w, OuterFields)
  BY <1>1 DEF SameBut, OuterFields
<1> QED
  BY <1>1, <1>2, OuterStays DEF w

\* The same for the number that a method gives.
LEMMA GivesStays ==
  ASSUME NEW v, VolumeOK(v), NEW x
  PROVE  /\ VolumeOK(Gives(v, x)) /\ Stays(v, Gives(v, x))
         /\ SameBut(v, Gives(v, x), { "value" }) /\ Gives(v, x).value = x
<1> DEFINE w == Gives(v, x)
<1>1. w = [ f \in DOMAIN w |-> w[f] ] /\ SameBut(v, w, { "value" }) /\ w.value = x
  BY Fields DEF Gives, SameBut, VolumeFields, TableFields
<1> HIDE DEF w
<1>2. SameBut(v, w, OuterFields)
  BY <1>1 DEF SameBut, OuterFields
<1> QED
  BY <1>1, <1>2, OuterStays DEF w

\* Steps that keep the volume follow one another.
LEMMA StaysAgain ==
  ASSUME NEW v, NEW u, Stays(v, u), NEW w
  PROVE  /\ Stays(u, w) => Stays(v, w)
         /\ StaysOrFails(u, w) => StaysOrFails(v, w)
  BY DEF Stays, StaysOrFails

LEMMA StaysIsEnds ==
  ASSUME NEW v, NEW w, Stays(v, w)
  PROVE  StaysOrFails(v, w)
  BY DEF Stays, StaysOrFails

-----------------------------------------------------------------------------
(* The disk and the window. *)

\* Where FSINFO, the table and the data lie: apart, and on the card.
LEMMA SectorPlaces ==
  /\ FsInfoSector \in Sectors /\ BootSector \in Sectors /\ DataSectors \subseteq Sectors
  /\ FatSectors \cap DataSectors = {} /\ FsInfoSector \notin DataSectors
  /\ FsInfoSector \notin FatSectors /\ BootSector \notin FatSectors \cup DataSectors
  /\ NoSector \notin Sectors /\ FatSectors \subseteq Sectors /\ BootSector # FsInfoSector
  /\ DataBase - 1 \in FatSectors /\ DataBase \in Nat
<1> DEFINE N == (NumFatEntries - 2) * SectorsPerCluster
<1>1. SectorsPerCluster \in Nat /\ NumFatEntries \in Nat \ 0 .. 2 /\ LinksPerSector \in Nat \ {0}
  BY TableAssumption
<1>2. N \in Nat
  BY <1>1
<1>3. 2 \in Clusters
  BY <1>1 DEF Clusters
<1>4. FatSector(2) \in FatSectors /\ FatSectors \subseteq Sectors
  BY <1>3, LinkPlace
<1>5. DataBase \in Nat
  BY <1>1 DEF DataBase, FatBase
<1>6. DataBase >= FatBase + 1
  BY <1>4, <1>5 DEF FatSectors, FatBase
<1> HIDE DEF N
<1> QED
  BY <1>2, <1>4, <1>5, <1>6
  DEF N, Sectors, DataSectors, FatSectors, FatBase, BootSector, FsInfoSector, NoSector

\* What belongs into the table are links.
LEMMA BelongingLinks ==
  ASSUME NEW s \in FatSectors, NEW b, Belongs(s, b)
  PROVE  IsLinks(b)
<1>1. b.links \in [ 1 .. LinksPerSector -> Clusters \cup { 0, LastLink } ]
  BY DEF Belongs
<1>2. Clusters \cup { 0, LastLink } \subseteq 0 .. Ones
  BY Numbers
<1>3. b.links \in [ 1 .. LinksPerSector -> 0 .. Ones ]
  BY <1>1, <1>2
<1> QED
  BY <1>3 DEF Belongs, HasFields, IsLinks

\* As long as no fault is planned, the power stays, and writes to the card succeed.
LEMMA NoFaultNoHarm ==
  ASSUME NEW v, VolumeOK(v), v.fault = "none", NEW s, NEW b
  PROVE  LET w == DiskWrite(v, s, b)
         IN  /\ w.dead = v.dead
             /\ s \in Sectors => w.result = "OK"
<1> DEFINE w == DiskWrite(v, s, b)
           r == IF s \notin Sectors THEN "DISK_ERR" ELSE "OK"
           k == IF v.fuse = 0 THEN 0 ELSE v.fuse - 1
           w0 == [ [ v EXCEPT !.fuse = k ] EXCEPT !.dead = v.dead, !.result = r ]
<1> USE Fields DEF VolumeFields, TableFields
<1>1. Burn(v) = [ v EXCEPT !.fuse = k ]
  BY DEF Burn
<1>2. v.dead = (v.dead \/ (BurnsOut(v) /\ v.fault = "cut"))
  <2>1. v.dead \in BOOLEAN
    BY DEF VolumeOK, IsVolume
  <2> QED
    BY <2>1
<1>3. w0 = [ f \in DOMAIN w0 |-> w0[f] ] /\ w0.dead = v.dead /\ w0.result = r /\ DOMAIN w0 = DOMAIN v
  <2> HIDE DEF k, r
  <2> QED
    OBVIOUS
<1>4. w \in { w0, [ w0 EXCEPT !.disk[s] = b ] }
  <2>1. (IF (BurnsOut(v) /\ v.fault \in { "error", "late" }) \/ s \notin Sectors THEN "DISK_ERR" ELSE "OK") = r
    OBVIOUS
  <2> DEFINE fails == (BurnsOut(v) /\ v.fault \in { "error", "late" }) \/ s \notin Sectors
             dead == v.dead \/ (BurnsOut(v) /\ v.fault = "cut")
             reaches == s \in Sectors /\ ~dead /\ (~fails \/ v.fault = "late")
  <2>2. w = IF reaches THEN [ [ Burn(v) EXCEPT !.dead = dead, !.result = r ] EXCEPT !.disk[s] = b ]
            ELSE [ Burn(v) EXCEPT !.dead = dead, !.result = r ]
    BY <2>1 DEF DiskWrite
  <2>3. [ Burn(v) EXCEPT !.dead = dead, !.result = r ] = w0
    <3>1. dead = v.dead
      BY <1>2
    <3> HIDE DEF dead, r, k
    <3> QED
      BY <1>1, <3>1
  <2> HIDE DEF w, w0, dead, fails, r
  <2> QED
    BY <2>2, <2>3
<1> HIDE DEF w, w0
<1>5. w.dead = v.dead /\ w.result = r
  BY <1>3, <1>4
<1> QED
  BY <1>5 DEF w

\* A sector of the card, or the dirty window over it.
LEMMA LogicalAt ==
  ASSUME NEW v, VolumeOK(v), NEW t \in Sectors
  PROVE  Logical(v)[t] = IF v.dirty /\ v.sector = t THEN v.buffer ELSE v.disk[t]
<1>1. v.disk = [ s \in Sectors |-> v.disk[s] ]
  BY DEF VolumeOK, IsVolume, IsCard
<1> QED
  BY <1>1 DEF Logical

LEMMA SameLinks ==
  ASSUME NEW d, NEW e, \A t \in FatSectors : d[t] = e[t]
  PROVE  FreeClusters(d) = FreeClusters(e)
  BY LinkPlace DEF FreeClusters, LinkOn

\* A sector of a file or a directory is written.
LEMMA DataWriteStays ==
  ASSUME NEW v, VolumeOK(v), NEW s \in DataSectors \cup { NoSector }, NEW b, Belongs(s, b)
  PROVE  LET w == DiskWrite(v, s, b)
         IN  /\ Stays(v, w) /\ VolumeOK(w)
             /\ SameBut(v, w, { "disk", "fuse", "dead", "result" })
             /\ w.result \in { "OK", "DISK_ERR" }
             /\ s = NoSector => w.result = "DISK_ERR"
<1> DEFINE w == DiskWrite(v, s, b)
<1> SUFFICES /\ Stays(v, w)
             /\ SameBut(v, w, { "disk", "fuse", "dead", "result" })
             /\ w.result \in { "OK", "DISK_ERR" }
             /\ s = NoSector => w.result = "DISK_ERR"
  BY DEF Stays
<1>1. WriteDone(v, w, s, b)
  BY Fields, DiskWriteDoes DEF VolumeOK, IsVolume
<1>2. v.fault = "none" => w.dead = v.dead
  BY NoFaultNoHarm
<1> HIDE DEF w
<1>3. /\ VolumeFields \subseteq DOMAIN v /\ DOMAIN w = DOMAIN v
      /\ w.sector = v.sector /\ w.buffer = v.buffer /\ w.dirty = v.dirty /\ w.free = v.free
      /\ w.fsInfoDirty = v.fsInfoDirty /\ w.fault = v.fault
  BY <1>1, Fields DEF WriteDone, SameBut, VolumeFields, TableFields
<1>4. v.disk = [ t \in Sectors |-> v.disk[t] ] /\ \A t \in Sectors : Belongs(t, v.disk[t])
  BY DEF VolumeOK, IsVolume, IsCard
<1>5. /\ w.disk = [ t \in Sectors |-> w.disk[t] ]
      /\ \A t \in Sectors : w.disk[t] \in { v.disk[t], b } /\ (t # s => w.disk[t] = v.disk[t])
  <2>1. w.disk \in { v.disk, [ v.disk EXCEPT ![s] = b ] }
    BY <1>1 DEF WriteDone
  <2> QED
    BY <1>4, <2>1
<1>6. \A t \in Sectors : Belongs(t, w.disk[t])
  BY <1>4, <1>5
<1>7. s \notin FatSectors /\ s # FsInfoSector /\ NoSector \notin Sectors /\ FatSectors \subseteq Sectors
      /\ FsInfoSector \in Sectors
  BY SectorPlaces
<1>8. IsCard(w.disk)
  BY <1>5, <1>6, <1>7, BelongingLinks DEF IsCard
<1>9. IsVolume(w)
  BY <1>1, <1>3, <1>5, <1>7, <1>8 DEF IsVolume, VolumeOK, WriteDone, VolumeFields, TableFields
<1>10. VolumeOK(w)
  BY <1>1, <1>3, <1>6, <1>9 DEF VolumeOK, HasFields, WriteDone
<1>11. FreeClusters(Logical(w)) = FreeClusters(Logical(v))
  <2>1. \A t \in FatSectors : Logical(w)[t] = Logical(v)[t]
    BY <1>3, <1>5, <1>7, <1>10, LogicalAt
  <2> QED
    BY <2>1, SameLinks
<1>12. w.disk[FsInfoSector] = v.disk[FsInfoSector]
  BY <1>5, <1>7
<1>13. (Right(v) => Right(w)) /\ (v.fault = "none" /\ Informed(v) => Informed(w))
  BY <1>2, <1>3, <1>11, <1>12 DEF Right, Accurate, Informed
<1> QED
  BY <1>1, <1>3, <1>7, <1>10, <1>13 DEF Stays, WriteDone

\* What the steps of the window keep.
LEMMA MovedStays ==
  ASSUME NEW v, VolumeOK(v), NEW w, WindowMoved(v, w),
         v.fault = "none" => w.dead = v.dead,
         w.sector \in Sectors \cup { NoSector }, Belongs(w.sector, w.buffer),
         \/ w.sector = v.sector /\ w.buffer = v.buffer
         \/ w.sector # FsInfoSector
         \/ w.buffer = w.disk[w.sector]
  PROVE  VolumeOK(w) /\ Stays(v, w)
<1>1. /\ VolumeFields \subseteq DOMAIN v /\ DOMAIN w = DOMAIN v /\ w = [ f \in DOMAIN w |-> w[f] ]
      /\ w.free = v.free /\ w.fsInfoDirty = v.fsInfoDirty /\ w.fault = v.fault
  BY Fields DEF WindowMoved, IsVolume, SameBut, WindowFields, VolumeFields, TableFields
<1>2. \A t \in Sectors : Logical(v)[t] \in { v.disk[t], v.buffer } /\ Belongs(t, Logical(v)[t])
  BY LogicalAt DEF VolumeOK
<1>3. \A t \in Sectors : Belongs(t, w.disk[t])
  BY <1>2 DEF VolumeOK, WindowMoved
<1>4. VolumeOK(w)
  BY <1>1, <1>3 DEF VolumeOK, HasFields, WindowMoved
<1>5. ASSUME v.fault = "none", Informed(v)
      PROVE  Informed(w) /\ Logical(w) = Logical(v)
  <2>1. ~w.dead /\ Logical(w) = Logical(v)
    BY <1>5 DEF WindowMoved, Informed
  <2>2. Logical(v)[FsInfoSector].units[1] = v.disk[FsInfoSector].units[1]
    BY <1>5, SectorPlaces, LogicalAt DEF Informed
  <2>3. w.disk[FsInfoSector].units[1] = v.disk[FsInfoSector].units[1]
    BY <2>2 DEF WindowMoved
  <2> QED
    BY <1>1, <1>5, <2>1, <2>3 DEF Informed
<1> QED
  BY <1>1, <1>4, <1>5 DEF Stays, Right, Accurate

\* syncWindow (1484): the window goes to the card.
LEMMA SyncWindowStays ==
  ASSUME NEW v, VolumeOK(v)
  PROVE  LET w == SyncWindow(v)
         IN  /\ Stays(v, w) /\ VolumeOK(w) /\ WindowMoved(v, w)
             /\ SameBut(v, w, { "disk", "dirty", "fuse", "dead", "result" })
             /\ w.result = "OK" => ~w.dirty
<1> DEFINE w == SyncWindow(v)
           u == DiskWrite(v, v.sector, v.buffer)
<1>1. WindowMoved(v, w) /\ (w.result = "OK" => ~w.dirty)
  BY SyncWindowMoves DEF VolumeOK
<1>2. /\ SameBut(v, w, { "disk", "dirty", "fuse", "dead", "result" })
      /\ v.fault = "none" => w.dead = v.dead
  <2>1. CASE ~v.dirty
    <3>1. w = Fails(v, "OK")
      BY <2>1 DEF SyncWindow
    <3>2. SameBut(v, w, { "result" })
      BY <3>1, FailsStays
    <3> HIDE DEF w
    <3> QED
      BY <3>2, Fields DEF SameBut, TableFields
  <2>2. CASE v.dirty
    <3>1. WriteDone(v, u, v.sector, v.buffer) /\ (v.fault = "none" => u.dead = v.dead)
      BY Fields, DiskWriteDoes, NoFaultNoHarm DEF VolumeOK, IsVolume
    <3>2. w = [ u EXCEPT !.dirty = u.result # "OK" ]
      BY <2>2 DEF SyncWindow, With
    <3> HIDE DEF w, u
    <3>3. SameBut(u, w, { "dirty" })
      BY <3>1, <3>2 DEF WriteDone, SameBut
    <3> QED
      BY <3>1, <3>3, Fields DEF WriteDone, SameBut, TableFields
  <2> QED
    BY <2>1, <2>2 DEF VolumeOK, IsVolume
<1> HIDE DEF w, u
<1>3. w.sector = v.sector /\ w.buffer = v.buffer
  BY <1>2, Fields DEF SameBut, TableFields
<1>4. VolumeOK(w) /\ Stays(v, w)
  BY <1>1, <1>2, <1>3, MovedStays DEF VolumeOK
<1> QED
  BY <1>1, <1>2, <1>4 DEF w

\* The read of moveWindow (1517): a clean window shows what is on the card.
LEMMA LoadStays ==
  ASSUME NEW v, VolumeOK(v), ~v.dirty, NEW s
  PROVE  LET w == Load(v, s)
         IN  /\ Stays(v, w) /\ VolumeOK(w) /\ WindowMoved(v, w)
             /\ w.result = "OK" => w.sector = s
<1> DEFINE u == DiskRead(v, s)
           w == Load(v, s)
<1>1. WindowMoved(v, w) /\ (w.result = "OK" => w.sector = s)
  BY LoadMoves DEF VolumeOK
<1>2. /\ u = [ f \in DOMAIN u |-> u[f] ] /\ SameBut(v, u, { "fuse", "result" })
      /\ u.result = "OK" => s \in Sectors
  <2> DEFINE r == IF (BurnsOut(v) /\ v.fault = "error") \/ s \notin Sectors THEN "DISK_ERR" ELSE "OK"
             b == IF v.fault = "error" THEN Burn(v) ELSE v
  <2>1. u = Fails(b, r)
    BY DEF DiskRead
  <2>2. b = [ f \in DOMAIN b |-> b[f] ] /\ SameBut(v, b, { "fuse" })
    BY Fields DEF Burn, SameBut, TableFields
  <2> HIDE DEF u, b
  <2>3. u = [ f \in DOMAIN u |-> u[f] ] /\ SameBut(b, u, { "result" }) /\ u.result = r
    BY <2>1, <2>2, Fields DEF Fails, SameBut, TableFields
  <2> QED
    BY <2>2, <2>3 DEF SameBut
<1>3. w = IF u.result = "OK" THEN [ u EXCEPT !.sector = s, !.buffer = v.disk[s] ]
          ELSE [ u EXCEPT !.sector = NoSector ]
  BY DEF Load, With
<1> HIDE DEF w, u
<1>4. u.dead = v.dead /\ u.disk = v.disk /\ u.buffer = v.buffer /\ TableFields \subseteq DOMAIN u
  BY <1>2, Fields DEF SameBut, TableFields
<1>5. CASE u.result = "OK"
  <2>1. w = [ u EXCEPT !.sector = s, !.buffer = v.disk[s] ] /\ s \in Sectors
    BY <1>2, <1>3, <1>5
  <2>2. w.sector = s /\ w.buffer = v.disk[s] /\ w.dead = v.dead /\ w.disk = v.disk
    BY <1>2, <1>4, <2>1 DEF TableFields
  <2>3. VolumeOK(w) /\ Stays(v, w)
    BY <1>1, <2>1, <2>2, MovedStays DEF VolumeOK
  <2> QED
    BY <1>1, <2>3 DEF w
<1>6. CASE u.result # "OK"
  <2>1. w = [ u EXCEPT !.sector = NoSector ]
    BY <1>3, <1>6
  <2>2. w.sector = NoSector /\ w.buffer = v.buffer /\ w.dead = v.dead
    BY <1>2, <1>4, <2>1 DEF TableFields
  <2>3. Belongs(NoSector, v.buffer) /\ NoSector # FsInfoSector
    <3>1. NoSector \notin FatSectors \cup DataSectors \cup { FsInfoSector }
      BY SectorPlaces
    <3> QED
      BY <3>1 DEF VolumeOK, Belongs
  <2>4. VolumeOK(w) /\ Stays(v, w)
    BY <1>1, <2>2, <2>3, MovedStays
  <2> QED
    BY <1>1, <2>4 DEF w
<1> QED
  BY <1>5, <1>6

\* moveWindow (1510).
LEMMA MoveWindowStays ==
  ASSUME NEW v, VolumeOK(v), NEW s
  PROVE  LET w == MoveWindow(v, s)
         IN  /\ Stays(v, w) /\ VolumeOK(w) /\ SameBut(v, w, WindowFields)
             /\ w.result = "OK" => w.sector = s
<1> DEFINE u == SyncWindow(v)
           w == MoveWindow(v, s)
<1>1. WindowMoved(v, w) /\ (w.result = "OK" => w.sector = s)
  BY WindowLosesNothing DEF VolumeOK
<1>2. Stays(v, w)
  <2>1. CASE s = v.sector
    BY <2>1, FailsStays DEF MoveWindow
  <2>2. CASE s # v.sector
    <3>1. Stays(v, u) /\ VolumeOK(u) /\ (u.result = "OK" => ~u.dirty)
      BY SyncWindowStays
    <3>2. w = IF u.result = "OK" THEN Load(u, s) ELSE u
      BY <2>2 DEF MoveWindow, Then
    <3> HIDE DEF w, u
    <3>3. u.result = "OK" => Stays(u, Load(u, s))
      BY <3>1, LoadStays
    <3> QED
      BY <3>1, <3>2, <3>3, StaysAgain
  <2> QED
    BY <2>1, <2>2
<1> QED
  BY <1>1, <1>2 DEF Stays, WindowMoved

-----------------------------------------------------------------------------
(* The allocation table. *)

LinkValues == Clusters \cup { 0, LastLink }

\* getFat (1587): the link of the cluster, or a number that says why not.
LEMMA GetFatStays ==
  ASSUME NEW v, VolumeOK(v), NEW c
  PROVE  LET w == GetFat(v, c)
         IN  /\ Stays(v, w) /\ VolumeOK(w) /\ SameBut(v, w, WindowFields \cup { "value" })
             /\ w.value \in LinkValues \cup { 1, Ones }
             /\ c \notin Clusters => w.value = 1
             /\ c \in Clusters /\ ~w.dead =>
                  /\ ~v.dead /\ Logical(w) = Logical(v)
                  /\ w.value # Ones => w.value = LinkOn(Logical(v), c)
<1> DEFINE w == GetFat(v, c)
           m == MoveWindow(v, FatSector(c))
           x == IF m.result = "OK" THEN m.buffer.links[LinkIndex(c)] ELSE Ones
<1>1. CASE c \notin Clusters
  <2>1. w = Gives(v, 1)
    BY <1>1 DEF GetFat
  <2> HIDE DEF w
  <2>2. Stays(v, w) /\ VolumeOK(w) /\ SameBut(v, w, { "value" }) /\ w.value = 1
    BY <2>1, GivesStays
  <2> QED
    BY <1>1, <2>2 DEF SameBut, w
<1>2. CASE c \in Clusters
  <2>1. Looked(v, w) /\ (~w.dead /\ w.value # Ones => w.value = LinkOn(Logical(v), c))
    BY <1>2, GetFatLooks DEF VolumeOK
  <2>2. Stays(v, m) /\ VolumeOK(m) /\ SameBut(v, m, WindowFields) /\ (m.result = "OK" => m.sector = FatSector(c))
    BY MoveWindowStays
  <2>3. w = Gives(m, x)
    BY <1>2 DEF GetFat, With
  <2> HIDE DEF w, m
  <2>4. Stays(m, w) /\ VolumeOK(w) /\ SameBut(m, w, { "value" }) /\ w.value = x
    BY <2>2, <2>3, GivesStays
  <2>5. x \in LinkValues \cup { 1, Ones }
    <3> SUFFICES ASSUME m.result = "OK" PROVE m.buffer.links[LinkIndex(c)] \in LinkValues
      OBVIOUS
    <3>1. m.sector \in FatSectors /\ LinkIndex(c) \in 1 .. LinksPerSector
      BY <1>2, <2>2, LinkPlace
    <3>2. Belongs(m.sector, m.buffer)
      BY <2>2 DEF VolumeOK
    <3> QED
      BY <3>1, <3>2 DEF Belongs, LinkValues
  <2>6. SameBut(v, w, WindowFields \cup { "value" })
    BY <2>2, <2>4 DEF SameBut
  <2>7. ~w.dead => ~v.dead /\ Logical(w) = Logical(v)
    BY <2>1 DEF Looked
  <2> HIDE DEF x
  <2> QED
    BY <1>2, <2>1, <2>2, <2>4, <2>5, <2>6, <2>7, StaysAgain DEF w
<1> QED
  BY <1>1, <1>2

\* The volume after a link is set; its count is still to be brought up to date.
LinkStays(v, w, c, x) ==
  /\ VolumeOK(w)
  /\ LinkPut(v, w, c, x)
  /\ v.fault = "none" /\ Informed(v) => Informed(w)

LEMMA LinkBelongs ==
  ASSUME NEW s \in FatSectors, NEW b, Belongs(s, b), NEW c \in Clusters, NEW x \in LinkValues
  PROVE  Belongs(s, LinkSet(b, c, x))
<1> DEFINE e == LinkSet(b, c, x)
<1>1. LinkIndex(c) \in 1 .. LinksPerSector /\ s # FsInfoSector /\ s \notin DataSectors
  BY LinkPlace, SectorPlaces
<1>2. b.links \in [ 1 .. LinksPerSector -> LinkValues ]
  BY DEF Belongs, LinkValues
<1>3. /\ e = [ f \in DOMAIN e |-> e[f] ] /\ DOMAIN e = DOMAIN b /\ e.entries = b.entries
      /\ e.links = [ b.links EXCEPT ![LinkIndex(c)] = x ]
  BY DEF Belongs, HasFields, LinkSet
<1> HIDE DEF e
<1>4. e.links \in [ 1 .. LinksPerSector -> LinkValues ]
  BY <1>2, <1>3
<1>5. Belongs(s, e)
  BY <1>1, <1>3, <1>4 DEF Belongs, HasFields, LinkValues
<1> QED
  BY <1>5 DEF e

\* putFat (1635) changes one link, which is not yet counted.
LEMMA PutFatStays ==
  ASSUME NEW v, VolumeOK(v), NEW c \in Clusters, NEW x \in LinkValues
  PROVE  LinkStays(v, PutFat(v, c, x), c, x)
<1> DEFINE m == MoveWindow(v, FatSector(c))
           w == PutFat(v, c, x)
<1>0. x \in 0 .. Ones
  BY Numbers DEF LinkValues
<1>1. LinkPut(v, w, c, x)
  BY <1>0, PutFatPuts DEF VolumeOK
<1>2. Stays(v, m) /\ VolumeOK(m) /\ SameBut(v, m, WindowFields) /\ (m.result = "OK" => m.sector = FatSector(c))
  BY MoveWindowStays
<1>3. w = IF m.result = "OK" THEN [ m EXCEPT !.buffer.links[LinkIndex(c)] = x, !.dirty = TRUE ] ELSE m
  BY DEF PutFat, Then
<1> HIDE DEF w, m
<1>4. CASE m.result # "OK"
  BY <1>1, <1>2, <1>3, <1>4 DEF LinkStays, Stays, w
<1>5. CASE m.result = "OK"
  <2> DEFINE s == FatSector(c)
             b == LinkSet(m.buffer, c, x)
  <2>1. s \in FatSectors /\ s \in Sectors /\ s # FsInfoSector /\ m.sector = s
    BY <1>2, <1>5, LinkPlace
  <2>2. TableFields \subseteq DOMAIN m /\ VolumeFields \subseteq DOMAIN m /\ m = [ f \in DOMAIN m |-> m[f] ]
    BY <1>2, Fields
  <2>3. HasFields(m.buffer, { "links", "entries", "units" }) /\ Belongs(s, m.buffer)
    BY <1>2, <2>1 DEF VolumeOK, Belongs
  <2>4. w = [ m EXCEPT !.buffer = b, !.dirty = TRUE ]
    BY <1>3, <1>5, <2>2, <2>3 DEF LinkSet, TableFields, HasFields
  <2>5. Belongs(s, b)
    BY <2>1, <2>3, LinkBelongs
  <2> HIDE DEF b
  <2>6. /\ w = [ f \in DOMAIN w |-> w[f] ] /\ DOMAIN w = DOMAIN m /\ w.buffer = b
        /\ w.disk = m.disk /\ w.sector = s /\ w.dead = m.dead /\ w.fsInfoDirty = m.fsInfoDirty
        /\ w.free = m.free
    BY <2>1, <2>2, <2>4 DEF TableFields
  <2>7. VolumeOK(w)
    BY <1>1, <1>2, <2>1, <2>2, <2>5, <2>6 DEF VolumeOK, HasFields, LinkPut
  <2>8. v.fault = "none" /\ Informed(v) => Informed(w)
    BY <1>2, <2>1, <2>6 DEF Stays, Informed
  <2> QED
    BY <1>1, <2>7, <2>8 DEF LinkStays, w
<1> QED
  BY <1>4, <1>5

\* The adjustment of mFreeClusters.
LEMMA CountStays ==
  ASSUME NEW v, VolumeOK(v), NEW delta \in { 1, Ones }
  PROVE  LET w == CountFree(v, delta)
         IN  /\ VolumeOK(w) /\ SameBut(v, w, { "free", "fsInfoDirty" }) /\ Logical(w) = Logical(v)
             /\ v.free = Ones => w.free = Ones
             /\ v.free # Ones /\ delta = 1 => w.free = v.free + 1
             /\ v.free # Ones /\ delta = Ones /\ v.free # 0 => w.free = v.free - 1
             /\ Informed(v) => Informed(w)
<1> DEFINE w == CountFree(v, delta)
<1>1. /\ w = [ f \in DOMAIN w |-> w[f] ] /\ SameBut(v, w, { "free", "fsInfoDirty" })
      /\ w.free \in 0 .. Ones
      /\ v.free = Ones => w.free = Ones
      /\ v.free # Ones /\ delta = 1 => w.free = v.free + 1
      /\ v.free # Ones /\ delta = Ones /\ v.free # 0 => w.free = v.free - 1
  BY CountFreeCounts DEF VolumeOK
<1>2. w.fsInfoDirty \in { TRUE, v.fsInfoDirty } /\ (w.fsInfoDirty # TRUE => w.free = v.free)
  <2>1. CASE v.free = Ones
    BY <2>1 DEF CountFree
  <2>2. CASE v.free # Ones
    BY <2>2, Fields DEF CountFree, TableFields
  <2> QED
    BY <2>1, <2>2
<1> HIDE DEF w
<1>3. /\ VolumeFields \subseteq DOMAIN v /\ DOMAIN w = DOMAIN v
      /\ w.disk = v.disk /\ w.sector = v.sector /\ w.buffer = v.buffer /\ w.dirty = v.dirty
      /\ w.fuse = v.fuse /\ w.dead = v.dead
  BY <1>1, Fields DEF SameBut, VolumeFields, TableFields
<1>4. Logical(w) = Logical(v)
  BY <1>3 DEF Logical
<1>5. VolumeOK(w)
  BY <1>1, <1>2, <1>3 DEF VolumeOK, IsVolume, HasFields
<1>6. Informed(v) => Informed(w)
  BY <1>2, <1>3 DEF Informed
<1> QED
  BY <1>1, <1>4, <1>5, <1>6 DEF w

LEMMA CountIsSmall ==
  ASSUME NEW d
  PROVE  Cardinality(FreeClusters(d)) \in 0 .. Ones - 1 /\ 0 # Ones
<1>1. Cardinality(FreeClusters(d)) \in 0 .. NumFatEntries - 2 /\ NumFatEntries - 2 < Ones - 1
  BY FreeIsFinite
<1> QED
  BY <1>1, TableAssumption

LookFields == WindowFields \cup { "value" }

\* The search of createChain (1729) moves the window, and changes nothing.
LEMMA SearchStays ==
  ASSUME NEW v, VolumeOK(v), NEW from \in 1 .. NumFatEntries - 1
  PROVE  LET w == FindFree(v, from)
         IN  Stays(v, w) /\ VolumeOK(w) /\ SameBut(v, w, LookFields)
<1> DEFINE v0 == Gives(v, LastLink)
           u(k) == Search!Passes(v0, from)[k]
           T == { k \in Nat : Stays(v, u(k)) /\ SameBut(v, u(k), LookFields) }
           K == NumFatEntries - 2
           w == FindFree(v, from)
<1>1. u(0) = v0 /\ \A k \in Nat : u(k + 1) = SearchPass(u(k), from, k + 1)
  BY Search!PassByPass
<1>2. 0 \in T
  BY <1>1, GivesStays DEF SameBut, LookFields
<1>3. ASSUME NEW k \in Nat, k \in T PROVE k + 1 \in T
  <2> DEFINE x == u(k)
             c == Candidate(from, k + 1)
             g == GetFat(x, c)
             y == SearchPass(x, from, k + 1)
  <2>1. Stays(v, x) /\ SameBut(v, x, LookFields) /\ VolumeOK(x)
    BY <1>3 DEF Stays
  <2>2. u(k + 1) = y
    BY <1>1
  <2> HIDE DEF u
  <2>3. Stays(x, g) /\ VolumeOK(g) /\ SameBut(x, g, LookFields)
    BY <2>1, GetFatStays DEF LookFields
  <2>4. y \in { x, g } \cup { Gives(g, z) : z \in { c, LastLink } }
    BY DEF SearchPass, With
  <2> HIDE DEF x, y, g
  <2>5. \A z : Stays(g, Gives(g, z)) /\ SameBut(g, Gives(g, z), { "value" })
    BY <2>3, GivesStays
  <2>6. Stays(v, y)
    <3>1. Stays(v, g)
      BY <2>1, <2>3, StaysAgain
    <3> QED
      BY <2>1, <2>4, <2>5, <3>1, StaysAgain
  <2>7. SameBut(v, y, LookFields)
    BY <2>1, <2>3, <2>4, <2>5 DEF SameBut, LookFields
  <2> QED
    BY <2>2, <2>6, <2>7
<1>4. Nat \subseteq T
  <2> HIDE DEF T
  <2> QED
    BY <1>2, <1>3, Search!Upwards
<1>5. K \in Nat
  BY TableAssumption
<1>6. Stays(v, u(K)) /\ SameBut(v, u(K), LookFields)
  <2> HIDE DEF u, K
  <2> QED
    BY <1>4, <1>5
<1>7. w = IF u(K).value = LastLink THEN Gives(u(K), 0) ELSE u(K)
  BY DEF FindFree, With
<1> DEFINE e == u(K)
<1>8. Stays(v, e) /\ SameBut(v, e, LookFields) /\ VolumeOK(e) /\ w \in { e, Gives(e, 0) }
  BY <1>6, <1>7 DEF Stays
<1> HIDE DEF e, w
<1>9. Stays(e, Gives(e, 0)) /\ SameBut(e, Gives(e, 0), { "value" })
  BY <1>8, GivesStays
<1>10. Stays(v, w)
  BY <1>8, <1>9, StaysAgain
<1>11. SameBut(v, w, LookFields)
  BY <1>8, <1>9 DEF SameBut, LookFields
<1> QED
  BY <1>10, <1>11 DEF Stays, w

\* What createChain leaves of the volume: in order, and right unless it fails.
ChainStays(v, w) ==
  /\ VolumeOK(w)
  /\ SameBut(v, w, ChainFields)
  /\ w.value \in Clusters \cup { 0, 1, Ones }
  /\ Right(v) => Right(w) \/ w.value \in { 1, Ones }

\* createChain marks the cluster it found, links and counts it (1751).
LEMMA TakeStays ==
  ASSUME NEW v, VolumeOK(v), NEW c \in Clusters \cup { 0 }, NEW n \in Clusters,
         ~v.dead => LinkOn(Logical(v), n) = 0 /\ (c # 0 => LinkOn(Logical(v), c) # 0)
  PROVE  ChainStays(v, Take(v, c, n))
<1> DEFINE m == PutFat(v, n, LastLink)
           u == IF m.result = "OK" THEN IF c = 0 THEN m ELSE PutFat(m, c, n) ELSE m
           w == Take(v, c, n)
<1>1. LastLink \in LinkValues /\ n \in LinkValues /\ LastLink # 0 /\ n # 0
  BY Numbers DEF LinkValues
<1>2. LinkStays(v, m, n, LastLink)
  BY <1>1, PutFatStays
<1>3. VolumeOK(m) /\ SameBut(v, m, WindowFields)
  BY <1>2 DEF LinkStays, LinkPut
<1>4. LastLink \in 0 .. Ones /\ n \in 0 .. Ones
  BY Numbers
<1>5. /\ VolumeOK(u) /\ SameBut(v, u, WindowFields)
      /\ v.fault = "none" /\ Accurate(v) /\ u.result = "OK" =>
           /\ Informed(u)
           /\ Cardinality(FreeClusters(Logical(u))) = Cardinality(FreeClusters(Logical(v))) - 1
           /\ Cardinality(FreeClusters(Logical(v))) >= 1
  <2>1. ASSUME v.fault = "none", Accurate(v), m.result = "OK"
        PROVE  /\ Informed(m)
               /\ Logical(m) = WithLink(Logical(v), n, LastLink) /\ IsCard(Logical(v)) /\ IsCard(Logical(m))
               /\ Cardinality(FreeClusters(Logical(m))) = Cardinality(FreeClusters(Logical(v))) - 1
               /\ Cardinality(FreeClusters(Logical(v))) >= 1
               /\ \A k \in Clusters : LinkOn(Logical(m), k) = IF k = n THEN LastLink ELSE LinkOn(Logical(v), k)
    <3>1. Informed(m)
      BY <1>2, <2>1 DEF LinkStays, Accurate
    <3>2. Logical(m) = WithLink(Logical(v), n, LastLink) /\ ~v.dead
      BY <1>2, <2>1, <3>1 DEF LinkStays, LinkPut, Informed
    <3>3. IsCard(Logical(v)) /\ IsCard(Logical(m))
      BY <1>3, LogicalIsCard DEF VolumeOK
    <3> QED
      BY <1>1, <1>4, <3>1, <3>2, <3>3, FreeAfter, TableWith
  <2>2. CASE m.result # "OK" \/ c = 0
    <3>1. u = m
      BY <2>2
    <3> HIDE DEF u, m
    <3> QED
      BY <1>3, <2>1, <3>1
  <2>3. CASE m.result = "OK" /\ c # 0
    <3> DEFINE p == PutFat(m, c, n)
    <3>1. u = p /\ c \in Clusters
      BY <2>3
    <3> HIDE DEF u, m
    <3>2. LinkStays(m, p, c, n)
      BY <1>1, <1>3, <3>1, PutFatStays
    <3> HIDE DEF p
    <3>3. VolumeOK(p) /\ SameBut(m, p, WindowFields)
      BY <3>2 DEF LinkStays, LinkPut
    <3>4. SameBut(v, p, WindowFields)
      BY <1>3, <3>3 DEF SameBut
    <3>5. ASSUME v.fault = "none", Accurate(v), p.result = "OK"
          PROVE  /\ Informed(p)
                 /\ Cardinality(FreeClusters(Logical(p))) = Cardinality(FreeClusters(Logical(v))) - 1
                 /\ Cardinality(FreeClusters(Logical(v))) >= 1
      <4>1. Informed(m) /\ Informed(p) /\ m.fault = "none"
        BY <1>3, <2>1, <2>3, <3>2, <3>5, Fields DEF LinkStays, SameBut, TableFields, WindowFields
      <4>2. LinkOn(Logical(m), c) # 0
        BY <1>1, <2>1, <2>3, <3>1, <3>5 DEF Accurate, Informed
      <4>3. Logical(p) = WithLink(Logical(m), c, n)
        BY <3>2, <3>5, <4>1 DEF LinkStays, LinkPut, Informed
      <4>4. Cardinality(FreeClusters(Logical(p))) = Cardinality(FreeClusters(Logical(m)))
        BY <1>1, <1>4, <2>1, <2>3, <3>1, <3>5, <4>2, <4>3, FreeAfter
      <4> QED
        BY <2>1, <2>3, <3>5, <4>1, <4>4
    <3> QED
      BY <3>1, <3>3, <3>4, <3>5
  <2> QED
    BY <2>2, <2>3
<1>6. u.result \in { "OK", "DISK_ERR" }
  <2>1. m.result \in { "OK", "DISK_ERR" }
    BY <1>2 DEF LinkStays, LinkPut
  <2>2. c # 0 => PutFat(m, c, n).result \in { "OK", "DISK_ERR" }
    <3> HIDE DEF m
    <3> QED
      BY <1>1, <1>3, PutFatStays DEF LinkStays, LinkPut
  <2> HIDE DEF m
  <2> QED
    BY <2>1, <2>2
<1>7. w = IF u.result = "OK" THEN Gives(CountFree([ u EXCEPT !.last = n ], Ones), n) ELSE Gives(u, Ones)
  BY <1>6 DEF Take, With, Then
<1> HIDE DEF u, m, w
<1>8. CASE u.result # "OK"
  <2>1. w = Gives(u, Ones)
    BY <1>7, <1>8
  <2>2. VolumeOK(w) /\ SameBut(u, w, { "value" }) /\ w.value = Ones
    BY <1>5, <2>1, GivesStays
  <2>3. SameBut(v, w, ChainFields)
    BY <1>5, <2>2 DEF SameBut, ChainFields
  <2> QED
    BY <2>2, <2>3 DEF ChainStays, w
<1>9. CASE u.result = "OK"
  <2> DEFINE a == [ u EXCEPT !.last = n ]
             b == CountFree(a, Ones)
  <2>1. a = [ f \in DOMAIN a |-> a[f] ] /\ SameBut(u, a, { "last" })
    BY <1>5, Fields DEF SameBut, TableFields
  <2>2. w = Gives(b, n)
    BY <1>7, <1>9
  <2> HIDE DEF a
  <2>3. SameBut(u, a, OuterFields)
    BY <2>1 DEF SameBut, OuterFields
  <2>4. VolumeOK(a) /\ Logical(a) = Logical(u) /\ a.free = u.free /\ Stays(u, a)
    BY <1>5, <2>1, <2>3, OuterStays
  <2>5. /\ VolumeOK(b) /\ SameBut(a, b, { "free", "fsInfoDirty" }) /\ Logical(b) = Logical(a)
        /\ a.free = Ones => b.free = Ones
        /\ a.free # Ones /\ a.free # 0 => b.free = a.free - 1
        /\ Informed(a) => Informed(b)
    BY <2>4, CountStays
  <2> HIDE DEF b
  <2>6. VolumeOK(w) /\ Stays(b, w) /\ SameBut(b, w, { "value" }) /\ w.value = n
    BY <2>2, <2>5, GivesStays
  <2>7. SameBut(v, w, ChainFields)
    BY <1>5, <2>1, <2>5, <2>6 DEF SameBut, ChainFields
  <2>8. u.fault = v.fault /\ a.fault = v.fault /\ b.fault = v.fault /\ u.free = v.free /\ w.fault = v.fault
    <3>1. TableFields \subseteq DOMAIN v
      BY Fields
    <3> QED
      BY <1>5, <2>1, <2>5, <2>6, <3>1 DEF SameBut, WindowFields, TableFields
  <2>9. ASSUME v.fault = "none", Accurate(v) PROVE Accurate(w)
    <3> DEFINE k == Cardinality(FreeClusters(Logical(v)))
               l == Cardinality(FreeClusters(Logical(b)))
    <3>1. Informed(b)
      BY <1>5, <1>9, <2>4, <2>5, <2>8, <2>9 DEF Stays
    <3>2. l = k - 1 /\ k >= 1 /\ k \in 0 .. Ones - 1 /\ 0 # Ones /\ v.free \in { k, Ones }
      BY <1>5, <1>9, <2>4, <2>5, <2>9, CountIsSmall DEF Accurate
    <3>3. b.free \in { l, Ones }
      <4> HIDE DEF k, l
      <4> QED
        BY <2>4, <2>5, <2>8, <3>2
    <3>4. Accurate(b)
      BY <3>1, <3>3 DEF Accurate
    <3> QED
      BY <2>6, <2>8, <2>9, <3>4 DEF Stays, Right
  <2>10. Right(v) => Right(w)
    BY <2>8, <2>9 DEF Right
  <2> QED
    BY <2>6, <2>7, <2>10 DEF ChainStays, w
<1> QED
  BY <1>8, <1>9

\* createChain (1708).
LEMMA CreateChainStays ==
  ASSUME NEW v, VolumeOK(v), NEW c
  PROVE  ChainStays(v, CreateChain(v, c))
<1> DEFINE from == IF c # 0 THEN c ELSE IF v.last \in 1 .. NumFatEntries - 1 THEN v.last ELSE 1
           g == IF c = 0 THEN Gives(v, LastLink) ELSE GetFat(v, c)
           f == FindFree(g, from)
           t == Take(f, c, f.value)
           w == CreateChain(v, c)
<1>1. w = IF g.value # LastLink THEN Gives(g, IF g.value < 2 THEN 1 ELSE g.value)
          ELSE IF f.value \in Clusters THEN t ELSE f
  BY DEF CreateChain, With
<1>2. /\ Stays(v, g) /\ VolumeOK(g) /\ SameBut(v, g, LookFields)
      /\ g.value \in LinkValues \cup { 1, Ones }
      /\ g.value = LastLink => c \in Clusters \cup { 0 }
      /\ ~g.dead /\ g.value = LastLink /\ c # 0 => LinkOn(Logical(g), c) = LastLink
  <2>1. CASE c = 0
    <3>1. g = Gives(v, LastLink)
      BY <2>1
    <3> HIDE DEF g
    <3> QED
      BY <2>1, <3>1, GivesStays DEF SameBut, LookFields, LinkValues
  <2>2. CASE c # 0
    <3>1. g = GetFat(v, c)
      BY <2>2
    <3> HIDE DEF g
    <3>2. /\ Stays(v, g) /\ VolumeOK(g) /\ SameBut(v, g, LookFields)
          /\ g.value \in LinkValues \cup { 1, Ones }
          /\ c \notin Clusters => g.value = 1
          /\ c \in Clusters /\ ~g.dead => Logical(g) = Logical(v) /\ (g.value # Ones => g.value = LinkOn(Logical(v), c))
      BY <3>1, GetFatStays DEF LookFields
    <3> QED
      BY <3>2, Numbers
  <2> QED
    BY <2>1, <2>2
<1>3. CASE g.value # LastLink
  <2> DEFINE x == IF g.value < 2 THEN 1 ELSE g.value
  <2>1. w = Gives(g, x)
    BY <1>1, <1>3
  <2>2. x \in Clusters \cup { 1, Ones }
    <3>1. g.value \in Clusters \cup { 0, 1, Ones }
      BY <1>2, <1>3 DEF LinkValues
    <3> HIDE DEF g
    <3> QED
      BY <3>1, TableAssumption DEF Clusters
  <2> HIDE DEF w, g, x
  <2>3. Stays(g, w) /\ VolumeOK(w) /\ SameBut(g, w, { "value" }) /\ w.value = x
    BY <1>2, <2>1, GivesStays
  <2>4. SameBut(v, w, ChainFields)
    BY <1>2, <2>3 DEF SameBut, ChainFields, LookFields
  <2>5. Right(v) => Right(w)
    BY <1>2, <2>3 DEF Stays
  <2> QED
    BY <2>2, <2>3, <2>4, <2>5 DEF ChainStays, w
<1>4. CASE g.value = LastLink
  <2>1. from \in 1 .. NumFatEntries - 1
    <3>1. c \in Clusters \cup { 0 }
      BY <1>2, <1>4
    <3> QED
      BY <3>1, TableAssumption DEF Clusters
  <2>2. w = IF f.value \in Clusters THEN t ELSE f
    BY <1>1, <1>4
  <2> HIDE DEF g, from, w
  <2>3. /\ Stays(g, f) /\ VolumeOK(f) /\ SameBut(g, f, LookFields)
    BY <1>2, <2>1, SearchStays
  <2>4. /\ Looked(g, f) /\ f.value \in Clusters \cup { 0, 1, Ones }
        /\ ~f.dead /\ f.value \in Clusters => LinkOn(Logical(g), f.value) = 0
    BY <1>2, <2>1, FindFreeFinds DEF VolumeOK
  <2> HIDE DEF f
  <2>5. ~f.dead => ~g.dead /\ Logical(f) = Logical(g)
    BY <2>4 DEF Looked
  <2>6. Stays(v, f) /\ SameBut(v, f, LookFields)
    BY <1>2, <2>3, StaysAgain DEF SameBut
  <2>7. CASE f.value \in Clusters
    <3>1. c \in Clusters \cup { 0 } /\ (~f.dead => LinkOn(Logical(f), f.value) = 0 /\ (c # 0 => LinkOn(Logical(f), c) # 0))
      BY <1>2, <1>4, <2>4, <2>5, <2>7, Numbers
    <3>2. ChainStays(f, t)
      BY <2>3, <2>7, <3>1, TakeStays
    <3> HIDE DEF t
    <3>3. w = t
      BY <2>2, <2>7
    <3>4. SameBut(v, t, ChainFields)
      BY <2>6, <3>2 DEF ChainStays, SameBut, ChainFields, LookFields
    <3> QED
      BY <2>6, <3>2, <3>3, <3>4 DEF ChainStays, Stays, w
  <2>8. CASE f.value \notin Clusters
    <3>1. w = f
      BY <2>2, <2>8
    <3>2. SameBut(v, f, ChainFields)
      BY <2>6 DEF SameBut, ChainFields, LookFields
    <3> QED
      BY <2>3, <2>4, <2>6, <3>1, <3>2 DEF ChainStays, Stays, w
  <2> QED
    BY <2>7, <2>8
<1> QED
  BY <1>3, <1>4

\* A pass of removeChain (1784): the cluster is freed and counted.
LEMMA FreePassStays ==
  ASSUME NEW v, VolumeOK(v), NEW k
  PROVE  LET w == FreePass(v, 0, k)
         IN  Stays(v, w) /\ VolumeOK(w) /\ SameBut(v, w, ChainFields)
<1> DEFINE n == v.value
           g == GetFat(v, n)
           m == PutFat(g, n, 0)
           b == CountFree(m, 1)
           w == FreePass(v, 0, k)
<1> SUFFICES Stays(v, w) /\ SameBut(v, w, ChainFields)
  BY DEF Stays
<1>1. CASE v.result # "OK" \/ n \notin Clusters
  <2>1. w = v
    BY <1>1 DEF FreePass
  <2> HIDE DEF w
  <2> QED
    BY <2>1 DEF Stays, SameBut
<1>2. CASE v.result = "OK" /\ n \in Clusters
  <2>1. w = CASE g.value = 0    -> Fails(g, "OK")
              [] g.value = 1    -> Fails(g, "INT_ERR")
              [] g.value = Ones -> Fails(g, "DISK_ERR")
              [] OTHER          -> IF m.result = "OK" THEN b ELSE m
    BY <1>2 DEF FreePass, With, Then
  <2>2. /\ Stays(v, g) /\ VolumeOK(g) /\ SameBut(v, g, LookFields)
        /\ ~g.dead => Logical(g) = Logical(v) /\ (g.value # Ones => g.value = LinkOn(Logical(v), n))
    <3> HIDE DEF n
    <3> QED
      BY <1>2, GetFatStays DEF LookFields
  <2> HIDE DEF w, g
  <2>3. CASE g.value \in { 0, 1, Ones }
    <3>1. PICK r : w = Fails(g, r)
      BY <2>1, <2>3, Numbers
    <3>2. Stays(g, w) /\ SameBut(g, w, { "result" })
      BY <2>2, <3>1, FailsStays
    <3>3. SameBut(v, w, ChainFields)
      BY <2>2, <3>2 DEF SameBut, ChainFields, LookFields, WindowFields
    <3> QED
      BY <2>2, <3>2, <3>3, StaysAgain
  <2>4. CASE g.value \notin { 0, 1, Ones }
    <3>1. w = IF m.result = "OK" THEN b ELSE m
      BY <2>1, <2>4
    <3>2. LinkStays(g, m, n, 0)
      <4> HIDE DEF n, m
      <4> QED
        BY <1>2, <2>2, PutFatStays DEF LinkValues, m
    <3> HIDE DEF n, m, b
    <3>3. VolumeOK(m) /\ SameBut(g, m, WindowFields) /\ m.fault = g.fault /\ m.free = g.free
      BY <2>2, <3>2, Fields DEF LinkStays, LinkPut, SameBut, WindowFields, TableFields
    <3>4. SameBut(v, m, ChainFields)
      BY <2>2, <3>3 DEF SameBut, ChainFields, LookFields
    <3>5. CASE m.result # "OK"
      <4>1. ASSUME g.fault = "none", Accurate(g) PROVE Accurate(m)
        BY <3>2, <3>3, <3>5, <4>1 DEF LinkStays, LinkPut, Accurate, Informed
      <4>2. Stays(g, m)
        BY <3>2, <3>3, <4>1 DEF Stays, Right, LinkStays, SameBut
      <4> QED
        BY <2>2, <3>1, <3>4, <3>5, <4>2, StaysAgain
    <3>6. CASE m.result = "OK"
      <4>1. /\ VolumeOK(b) /\ SameBut(m, b, { "free", "fsInfoDirty" }) /\ Logical(b) = Logical(m)
            /\ m.free = Ones => b.free = Ones
            /\ m.free # Ones => b.free = m.free + 1
            /\ Informed(m) => Informed(b)
        BY <3>3, CountStays DEF b
      <4>2. b.fault = g.fault /\ DOMAIN b = DOMAIN g
        BY <2>2, <3>3, <4>1, Fields DEF SameBut, TableFields
      <4>3. g.fault = "none" /\ Informed(g) => Informed(b)
        BY <3>2, <4>1 DEF LinkStays
      <4>4. ASSUME g.fault = "none", Accurate(g) PROVE Accurate(b)
        <5> DEFINE k1 == Cardinality(FreeClusters(Logical(g)))
                   k2 == Cardinality(FreeClusters(Logical(b)))
        <5>1. Informed(b) /\ ~g.dead /\ ~m.dead
          BY <3>2, <4>3, <4>4 DEF Accurate, Informed, LinkStays
        <5>2. Logical(b) = WithLink(Logical(g), n, 0) /\ LinkOn(Logical(g), n) # 0
          BY <2>2, <2>4, <3>2, <3>6, <4>1, <5>1 DEF LinkStays, LinkPut
        <5>3. IsCard(Logical(g)) /\ 0 \in 0 .. Ones
          BY <2>2, LogicalIsCard, Numbers DEF VolumeOK
        <5>4. k2 = k1 + 1
          BY <1>2, <5>2, <5>3, FreeAfter
        <5>5. g.free \in { k1, Ones }
          BY <4>4 DEF Accurate
        <5>6. b.free \in { k2, Ones }
          <6> HIDE DEF k1, k2
          <6> QED
            BY <3>3, <4>1, <5>4, <5>5
        <5> QED
          BY <5>1, <5>6 DEF Accurate
      <4>5. Stays(g, b)
        BY <4>1, <4>2, <4>3, <4>4 DEF Stays, Right
      <4>6. SameBut(v, b, ChainFields)
        BY <3>4, <4>1 DEF SameBut, ChainFields
      <4> QED
        BY <2>2, <3>1, <3>6, <4>5, <4>6, StaysAgain
    <3> QED
      BY <3>5, <3>6
  <2> QED
    BY <2>3, <2>4
<1> QED
  BY <1>1, <1>2

\* removeChain (1772).
LEMMA RemoveChainStays ==
  ASSUME NEW v, VolumeOK(v), NEW c
  PROVE  LET w == RemoveChain(v, c)
         IN  Stays(v, w) /\ VolumeOK(w) /\ SameBut(v, w, ChainFields)
<1> DEFINE w == RemoveChain(v, c)
<1> SUFFICES Stays(v, w) /\ SameBut(v, w, ChainFields)
  BY DEF Stays
<1>1. CASE c \notin Clusters
  BY <1>1, FailsStays DEF RemoveChain, SameBut, ChainFields, WindowFields
<1>2. CASE c \in Clusters
  <2> DEFINE v0 == Fails(v, "OK")
             v1 == Gives(v0, c)
             u(k) == Freeing!Passes(v1, 0)[k]
             T == { k \in Nat : Stays(v, u(k)) /\ SameBut(v, u(k), ChainFields) }
  <2>1. w = u(NumFatEntries)
    BY <1>2 DEF RemoveChain, FreeFrom
  <2>2. u(0) = v1 /\ \A k \in Nat : u(k + 1) = FreePass(u(k), 0, k + 1)
    BY Freeing!PassByPass
  <2>3. 0 \in T
    <3>1. Stays(v, v0) /\ VolumeOK(v0) /\ SameBut(v, v0, { "result" })
      BY FailsStays
    <3> HIDE DEF v0
    <3>2. Stays(v0, v1) /\ SameBut(v0, v1, { "value" })
      BY <3>1, GivesStays
    <3> HIDE DEF v1
    <3>3. Stays(v, v1) /\ SameBut(v, v1, ChainFields)
      BY <3>1, <3>2, StaysAgain DEF SameBut, ChainFields, WindowFields
    <3> QED
      BY <2>2, <3>3
  <2>4. ASSUME NEW k \in Nat, k \in T PROVE k + 1 \in T
    <3> DEFINE x == u(k)
               y == FreePass(x, 0, k + 1)
    <3>1. Stays(v, x) /\ SameBut(v, x, ChainFields) /\ VolumeOK(x)
      BY <2>4 DEF Stays
    <3>2. u(k + 1) = y
      BY <2>2
    <3> HIDE DEF u, x
    <3>3. Stays(x, y) /\ SameBut(x, y, ChainFields)
      BY <3>1, FreePassStays
    <3> HIDE DEF y
    <3>4. Stays(v, y) /\ SameBut(v, y, ChainFields)
      BY <3>1, <3>3, StaysAgain DEF SameBut
    <3> QED
      BY <3>2, <3>4
  <2>5. Nat \subseteq T
    <3> HIDE DEF T
    <3> QED
      BY <2>3, <2>4, Freeing!Upwards
  <2> QED
    BY <2>1, <2>5, TableAssumption
<1> QED
  BY <1>1, <1>2

-----------------------------------------------------------------------------
(* FSINFO. *)

LEMMA InfoBelongs ==
  ASSUME NEW x \in 0 .. Ones, NEW y
  PROVE  Belongs(FsInfoSector, Units(<< x, y >>))
  BY SectorPlaces DEF Belongs, HasFields, Units

\* syncFs (1558): FSINFO gets the count, and the flag says so.
LEMMA SyncFsStays ==
  ASSUME NEW v, VolumeOK(v)
  PROVE  LET w == SyncFs(v)
         IN  /\ Stays(v, w) /\ VolumeOK(w)
             /\ SameBut(v, w, ChainFields)
<1> DEFINE info == Units(<< v.free, v.last >>)
           u == SyncWindow(v)
           x == DiskWrite(u, FsInfoSector, info)
           y == [ x EXCEPT !.sector = FsInfoSector, !.buffer = info, !.fsInfoDirty = FALSE, !.result = "OK" ]
           w == SyncFs(v)
<1> SUFFICES Stays(v, w) /\ SameBut(v, w, ChainFields)
  BY DEF Stays
<1>1. w = IF u.result = "OK" /\ u.fsInfoDirty THEN y ELSE u
  BY DEF SyncFs, Then
<1>2. /\ Stays(v, u) /\ VolumeOK(u) /\ SameBut(v, u, { "disk", "dirty", "fuse", "dead", "result" })
      /\ u.result = "OK" => ~u.dirty
  BY SyncWindowStays
<1>3. v.free \in 0 .. Ones /\ u.free = v.free /\ info.units[1] = v.free /\ Belongs(FsInfoSector, info)
  BY <1>2, InfoBelongs, Fields DEF SameBut, VolumeOK, IsVolume, TableFields, Units
<1> HIDE DEF info, u
<1>4. CASE ~(u.result = "OK" /\ u.fsInfoDirty)
  BY <1>1, <1>2, <1>4 DEF SameBut, ChainFields, WindowFields
<1>5. CASE u.result = "OK" /\ u.fsInfoDirty
  <2>1. w = y
    BY <1>1, <1>5
  <2>2. WriteDone(u, x, FsInfoSector, info)
    BY <1>2, Fields, DiskWriteDoes DEF VolumeOK, IsVolume
  <2>3. u.fault = "none" => x.dead = u.dead /\ x.result = "OK"
    BY <1>2, NoFaultNoHarm, SectorPlaces
  <2> HIDE DEF x, w
  <2>4. /\ y = [ f \in DOMAIN y |-> y[f] ] /\ DOMAIN y = DOMAIN u /\ VolumeFields \subseteq DOMAIN u
        /\ y.sector = FsInfoSector /\ y.buffer = info /\ y.fsInfoDirty = FALSE /\ y.result = "OK"
        /\ y.disk = x.disk /\ y.dead = x.dead /\ y.fuse = x.fuse /\ y.fault = u.fault
        /\ y.dirty = u.dirty /\ y.free = u.free
        /\ SameBut(u, y, { "disk", "fuse", "dead", "result", "sector", "buffer", "fsInfoDirty" })
    BY <1>2, <2>2, Fields DEF WriteDone, SameBut, VolumeFields, TableFields
  <2> HIDE DEF y
  <2>5. u.disk = [ t \in Sectors |-> u.disk[t] ] /\ \A t \in Sectors : Belongs(t, u.disk[t])
    BY <1>2 DEF VolumeOK, IsVolume, IsCard
  <2>6. /\ y.disk = [ t \in Sectors |-> y.disk[t] ]
        /\ \A t \in Sectors : y.disk[t] \in { u.disk[t], info } /\ (t # FsInfoSector => y.disk[t] = u.disk[t])
    <3>1. y.disk \in { u.disk, [ u.disk EXCEPT ![FsInfoSector] = info ] }
      BY <2>2, <2>4 DEF WriteDone
    <3> QED
      BY <2>5, <3>1
  <2>7. \A t \in Sectors : Belongs(t, y.disk[t])
    BY <1>3, <2>5, <2>6
  <2>8. FsInfoSector \notin FatSectors /\ FsInfoSector \in Sectors /\ FatSectors \subseteq Sectors
    BY SectorPlaces
  <2>9. IsCard(y.disk)
    BY <2>6, <2>7, <2>8, BelongingLinks DEF IsCard
  <2>10. IsVolume(y)
    BY <1>2, <2>2, <2>4, <2>8, <2>9 DEF IsVolume, VolumeOK, WriteDone
  <2>11. VolumeOK(y)
    BY <1>2, <1>3, <2>4, <2>7, <2>8, <2>10 DEF VolumeOK, HasFields, VolumeFields
  <2>12. FreeClusters(Logical(y)) = FreeClusters(Logical(u))
    <3>1. Logical(y) = y.disk /\ Logical(u) = u.disk
      BY <1>2, <1>5, <2>4 DEF Logical
    <3> QED
      BY <2>6, <2>8, <3>1, SameLinks
  <2>13. ASSUME u.fault = "none", ~u.dead PROVE Informed(y)
    <3>1. y.disk = [ u.disk EXCEPT ![FsInfoSector] = info ]
      BY <2>2, <2>3, <2>4, <2>13 DEF WriteDone
    <3>2. y.disk[FsInfoSector] = info
      BY <2>5, <2>8, <3>1
    <3> QED
      BY <1>3, <2>3, <2>4, <2>13, <3>2 DEF Informed
  <2>14. Stays(u, y)
    BY <2>4, <2>11, <2>12, <2>13 DEF Stays, Right, Accurate, Informed
  <2>15. SameBut(v, y, ChainFields)
    BY <1>2, <2>4 DEF SameBut, ChainFields, WindowFields
  <2> QED
    BY <1>2, <2>1, <2>14, <2>15, StaysAgain
<1> QED
  BY <1>4, <1>5

-----------------------------------------------------------------------------
(* A directory that grows. *)

SectorFields == { "sector", "buffer", "dirty" }

\* The window is put on a sector of a file or a directory.
LEMMA DataWindowStays ==
  ASSUME NEW v, VolumeOK(v), v.dirty => v.sector \notin FatSectors,
         NEW w, w = [ f \in DOMAIN w |-> w[f] ], SameBut(v, w, SectorFields \cup OuterFields),
         w.dirty \in BOOLEAN, w.sector \in DataSectors, Belongs(w.sector, w.buffer)
  PROVE  VolumeOK(w) /\ Stays(v, w)
<1>1. /\ VolumeFields \subseteq DOMAIN v /\ DOMAIN w = DOMAIN v
      /\ w.disk = v.disk /\ w.free = v.free /\ w.fsInfoDirty = v.fsInfoDirty
      /\ w.fuse = v.fuse /\ w.dead = v.dead /\ w.fault = v.fault
  BY Fields DEF SameBut, VolumeFields, TableFields, SectorFields, OuterFields
<1>2. w.sector \notin FatSectors /\ w.sector \in Sectors /\ w.sector # FsInfoSector /\ FatSectors \subseteq Sectors
  BY SectorPlaces
<1>3. VolumeOK(w)
  BY <1>1, <1>2 DEF VolumeOK, IsVolume, HasFields
<1>4. FreeClusters(Logical(w)) = FreeClusters(Logical(v))
  <2>1. \A t \in FatSectors : Logical(w)[t] = Logical(v)[t]
    BY <1>1, <1>2, <1>3, LogicalAt
  <2> QED
    BY <2>1, SameLinks
<1>5. (Informed(v) => Informed(w)) /\ (Accurate(v) => Accurate(w))
  BY <1>1, <1>2, <1>4 DEF Accurate, Informed
<1> QED
  BY <1>1, <1>3, <1>5 DEF Stays, Right

LEMMA BlankBelongs ==
  ASSUME NEW s \in DataSectors
  PROVE  Belongs(s, Entries(BlankEntries))
<1>1. EntryOK(Blank)
  BY DEF EntryOK, HasFields, Blank, Entry
<1>2. s \notin FatSectors /\ s # FsInfoSector
  BY SectorPlaces
<1>3. \A i \in DOMAIN BlankEntries : EntryOK(BlankEntries[i])
  BY <1>1 DEF BlankEntries
<1>4. BlankEntries = [ i \in DOMAIN BlankEntries |-> BlankEntries[i] ]
  BY DEF BlankEntries
<1> DEFINE b == Entries(BlankEntries)
<1>5. b.entries = BlankEntries /\ b.units = << >> /\ HasFields(b, { "links", "entries", "units" })
  BY DEF Entries, HasFields
<1> HIDE DEF b
<1> QED
  BY <1>2, <1>3, <1>4, <1>5 DEF Belongs, b

\* The sectors of a cluster are sectors of files and directories.
LEMMA ClusterPlaces ==
  ASSUME NEW c \in Clusters, NEW k \in 0 .. SectorsPerCluster - 1
  PROVE  /\ ClusterToSector(c) + k \in DataSectors
         /\ ClusterToSector(c) \in Nat /\ ClusterToSector(c) # 0
<1> DEFINE S == SectorsPerCluster
           a == c - 2
           r == NumFatEntries - 1 - c
           M == (NumFatEntries - 2) * S
<1>1. S \in Nat \ {0} /\ a \in Nat /\ r \in Nat /\ NumFatEntries - 2 = a + 1 + r /\ k \in 0 .. S - 1
  BY TableAssumption DEF Clusters
<1>2. ClusterToSector(c) = a * S + DataBase
  BY DEF ClusterToSector
<1>3. a * S \in Nat /\ r * S \in Nat /\ M = a * S + S + r * S
  <2> HIDE DEF a, r, S
  <2>1. a * S \in Nat /\ r * S \in Nat
    BY <1>1
  <2>2. (a + 1 + r) * S = a * S + S + r * S
    BY <1>1
  <2> QED
    BY <1>1, <2>1, <2>2
<1>4. DataBase \in Nat /\ DataBase # 0
  <2>1. DataBase - 1 \in FatSectors /\ DataBase \in Nat
    BY SectorPlaces
  <2> QED
    BY <2>1 DEF FatSectors, FatBase
<1>5. DataSectors = DataBase .. DataBase + M - 1
  BY DEF DataSectors
<1> HIDE DEF S, a, r, M
<1> QED
  BY <1>1, <1>2, <1>3, <1>4, <1>5

\* Back at the first sector, after some passes.
LEMMA CleanStays ==
  ASSUME NEW v, VolumeOK(v), ~v.dirty, NEW c \in Clusters, v.sector = ClusterToSector(c),
         v.buffer = Entries(BlankEntries)
  PROVE  LET u == Clean(v)
             w == Then(u, LAMBDA x : [ x EXCEPT !.sector = ClusterToSector(c) ])
         IN  Stays(v, w) /\ VolumeOK(w) /\ SameBut(v, w, WindowFields)
<1> DEFINE first == ClusterToSector(c)
           b == Entries(BlankEntries)
           z(x) == [ x EXCEPT !.sector = first ]
           v0 == Fails(v, "OK")
           u(k) == Cleaning!Passes(v0, 0)[k]
           Inv(k, x) == /\ VolumeOK(z(x)) /\ Stays(v, z(x))
                        /\ x = [ f \in DOMAIN x |-> x[f] ] /\ SameBut(v, x, WindowFields)
                        /\ x.buffer = b
                        /\ x.result = "OK" => x.sector = first + k /\ ~x.dirty
                        /\ x.result # "OK" => VolumeOK(x) /\ Stays(v, x)
           S == SectorsPerCluster
           T == { k \in Nat : k <= S => Inv(k, u(k)) }
<1>1. S \in Nat \ {0}
  BY TableAssumption
<1>2. first \in DataSectors /\ first \in Nat
  <2>1. 0 \in 0 .. S - 1
    BY <1>1
  <2> QED
    BY <2>1, ClusterPlaces
<1>3. \A s \in DataSectors : s \in Sectors /\ s \notin FatSectors /\ Belongs(s, b)
  BY SectorPlaces, BlankBelongs
<1>4. u(0) = v0 /\ \A k \in Nat : u(k + 1) = CleanPass(u(k), 0, k + 1)
  BY Cleaning!PassByPass
<1>5. 0 \in T
  <2>1. /\ Stays(v, v0) /\ VolumeOK(v0) /\ SameBut(v, v0, { "result" }) /\ v0.result = "OK"
    BY FailsStays
  <2> HIDE DEF v0
  <2>2. v0.sector = first /\ v0.buffer = b /\ ~v0.dirty /\ v0 = [ f \in DOMAIN v0 |-> v0[f] ]
    BY <2>1, Fields DEF SameBut, TableFields
  <2>3. z(v0) = v0
    BY <2>2
  <2>4. first + 0 = first
    BY <1>2
  <2>5. SameBut(v, v0, WindowFields)
    BY <2>1 DEF SameBut, WindowFields
  <2>6. Inv(0, v0)
    <3> HIDE DEF first, b
    <3> QED
      BY <2>1, <2>2, <2>3, <2>4, <2>5
  <2> QED
    BY <1>4, <2>6
<1>6. ASSUME NEW k \in Nat, k \in T PROVE k + 1 \in T
  <2> SUFFICES ASSUME k + 1 <= S PROVE Inv(k + 1, u(k + 1))
    OBVIOUS
  <2> DEFINE x == u(k)
             y == CleanPass(x, 0, k + 1)
             x1 == [ x EXCEPT !.dirty = TRUE ]
             x2 == SyncWindow(x1)
  <2>1. Inv(k, x)
    BY <1>1, <1>6
  <2>2. u(k + 1) = y
    BY <1>4
  <2>3. y = IF x.result = "OK" THEN IF x2.result = "OK" THEN [ x2 EXCEPT !.sector = @ + 1 ] ELSE x2 ELSE x
    BY DEF CleanPass, Then
  <2> HIDE DEF u, x
  <2>4. CASE x.result # "OK"
    BY <2>1, <2>2, <2>3, <2>4
  <2>5. CASE x.result = "OK"
    <3>1. first + k \in DataSectors
      BY <1>1, ClusterPlaces
    <3>2. x.sector = first + k /\ ~x.dirty /\ x.buffer = b /\ VolumeOK(z(x)) /\ TableFields \subseteq DOMAIN x
      BY <2>1, <2>5, Fields DEF SameBut
    <3>3. /\ x1 = [ f \in DOMAIN x1 |-> x1[f] ] /\ x1.dirty = TRUE /\ x1.sector = first + k /\ x1.buffer = b
          /\ SameBut(z(x), x1, SectorFields \cup OuterFields) /\ SameBut(x, x1, { "dirty" })
      BY <2>1, <3>2 DEF SameBut, SectorFields, TableFields
    <3>4. z(x).dirty = x.dirty
      BY <2>1, <3>2 DEF TableFields
    <3>5. VolumeOK(x1) /\ Stays(z(x), x1)
      <4> DEFINE zx == z(x)
      <4>1. /\ VolumeOK(zx) /\ ~zx.dirty /\ SameBut(zx, x1, SectorFields \cup OuterFields)
            /\ x1.dirty \in BOOLEAN /\ x1.sector \in DataSectors /\ Belongs(x1.sector, x1.buffer)
            /\ x1 = [ f \in DOMAIN x1 |-> x1[f] ]
        BY <1>3, <3>1, <3>2, <3>3, <3>4
      <4> HIDE DEF zx, x1, b, first
      <4>2. VolumeOK(x1) /\ Stays(zx, x1)
        BY <4>1, DataWindowStays
      <4> QED
        BY <4>2 DEF zx
    <3>6. Stays(v, x1)
      BY <2>1, <3>5, StaysAgain
    <3> HIDE DEF x1
    <3>7. /\ Stays(x1, x2) /\ VolumeOK(x2) /\ SameBut(x1, x2, { "disk", "dirty", "fuse", "dead", "result" })
          /\ x2.result = "OK" => ~x2.dirty
      BY <3>5, SyncWindowStays
    <3> HIDE DEF x2
    <3>8. /\ x2.sector = first + k /\ x2.buffer = b /\ TableFields \subseteq DOMAIN x2
          /\ x2 = [ f \in DOMAIN x2 |-> x2[f] ] /\ x2.dirty \in BOOLEAN
          /\ SameBut(v, x2, WindowFields)
      BY <2>1, <3>2, <3>3, <3>7, Fields DEF SameBut, TableFields, WindowFields, VolumeOK, IsVolume
    <3>9. Stays(v, x2)
      BY <3>6, <3>7, StaysAgain
    <3>10. VolumeOK(z(x2)) /\ Stays(v, z(x2))
      <4> DEFINE q == z(x2)
      <4>1. /\ q = [ f \in DOMAIN q |-> q[f] ] /\ SameBut(x2, q, SectorFields \cup OuterFields)
            /\ q.dirty \in BOOLEAN /\ q.sector = first /\ q.buffer = b
        BY <3>8 DEF SameBut, SectorFields, TableFields
      <4>2. x2.sector \notin FatSectors /\ Belongs(first, b)
        BY <1>2, <1>3, <3>1, <3>8
      <4> HIDE DEF q, first, b
      <4>3. VolumeOK(q) /\ Stays(x2, q)
        BY <1>2, <3>7, <4>1, <4>2, DataWindowStays
      <4>4. Stays(v, q)
        BY <3>9, <4>3, StaysAgain
      <4> QED
        BY <4>3, <4>4 DEF q
    <3>11. CASE x2.result # "OK"
      BY <2>2, <2>3, <2>5, <3>7, <3>8, <3>9, <3>10, <3>11
    <3>12. CASE x2.result = "OK"
      <4> DEFINE e == [ x2 EXCEPT !.sector = x2.sector + 1 ]
      <4>1. y = e
        BY <2>3, <2>5, <3>12
      <4>2. /\ e = [ f \in DOMAIN e |-> e[f] ] /\ SameBut(x2, e, { "sector" }) /\ e.sector = first + k + 1
            /\ e.buffer = b /\ ~e.dirty /\ e.result = "OK" /\ z(e) = z(x2)
        BY <3>7, <3>8, <3>12 DEF SameBut, TableFields
      <4>3. SameBut(v, e, WindowFields)
        BY <3>8, <4>2 DEF SameBut, WindowFields
      <4>4. first + k + 1 = first + (k + 1)
        BY <1>2
      <4> HIDE DEF e, y, first, b
      <4> QED
        BY <2>2, <3>10, <4>1, <4>2, <4>3, <4>4
    <3> QED
      BY <3>11, <3>12
  <2> QED
    BY <2>4, <2>5
<1>7. Nat \subseteq T
  <2> HIDE DEF T
  <2> QED
    BY <1>5, <1>6, Cleaning!Upwards
<1>8. Inv(S, u(S))
  <2> HIDE DEF Inv, u
  <2> QED
    BY <1>1, <1>7
<1> DEFINE e == u(S)
           w == IF e.result = "OK" THEN z(e) ELSE e
<1>9. Clean(v) = e
  BY DEF Clean
<1>10. Inv(S, e)
  BY <1>8
<1> HIDE DEF e, first, b
<1>11. Stays(v, w) /\ VolumeOK(w) /\ SameBut(v, w, WindowFields)
  <2>1. CASE e.result # "OK"
    BY <1>10, <2>1
  <2>2. CASE e.result = "OK"
    <3>1. SameBut(v, z(e), WindowFields)
      BY <1>10 DEF SameBut, WindowFields
    <3> QED
      BY <1>10, <2>2, <3>1
  <2> QED
    BY <2>1, <2>2
<1> QED
  BY <1>9, <1>11 DEF Then, first

DirOK(d) == HasFields(d, DOMAIN NoDir) /\ d.index \in Nat /\ d.long \in Nat

\* A method on names leaves the volume as it should be, with a cDirectory.
DirStays(v, w) == Stays(v, w) /\ DirOK(w.dir)
DirStaysOrFails(v, w) == StaysOrFails(v, w) /\ DirOK(w.dir)

LEMMA DirStaysAgain ==
  ASSUME NEW v, NEW u, Stays(v, u), NEW w
  PROVE  /\ DirStays(u, w) => DirStays(v, w)
         /\ DirStaysOrFails(u, w) => DirStaysOrFails(v, w)
  BY StaysAgain DEF DirStays, DirStaysOrFails

LEMMA DirFields ==
  /\ DOMAIN NoDir = { "start", "index", "cluster", "sector", "slot", "long" }
  /\ DirOK(NoDir)
<1>1. Ones \in Nat
  BY TableAssumption
<1> QED
  BY <1>1 DEF NoDir, DirOK, HasFields

\* Steps of the window and the table leave the rest alone.
LEMMA RestIsKept ==
  ASSUME NEW v, VolumeOK(v), NEW w, SameBut(v, w, ChainFields)
  PROVE  /\ w.dir = v.dir /\ w.o = v.o /\ w.data = v.data /\ w.locks = v.locks /\ w.fault = v.fault
         /\ DOMAIN w = DOMAIN v
<1>1. VolumeFields \subseteq DOMAIN v
  BY Fields
<1> QED
  BY <1>1 DEF SameBut, VolumeFields, TableFields, ChainFields, WindowFields

\* The cDirectory, the result and the number at hand are changed.
LEMMA DirSet ==
  ASSUME NEW v, VolumeOK(v), NEW w, w = [ f \in DOMAIN w |-> w[f] ], SameBut(v, w, OuterFields), DirOK(w.dir)
  PROVE  VolumeOK(w) /\ Stays(v, w) /\ DirStays(v, w)
  BY OuterStays DEF DirStays

LEMMA FailsDir ==
  ASSUME NEW v, VolumeOK(v), DirOK(v.dir), NEW r
  PROVE  DirStays(v, Fails(v, r)) /\ VolumeOK(Fails(v, r)) /\ Fails(v, r).dir = v.dir /\ Fails(v, r).result = r
<1> DEFINE w == Fails(v, r)
<1>1. VolumeOK(w) /\ Stays(v, w) /\ SameBut(v, w, { "result" }) /\ w.result = r
  BY FailsStays
<1> HIDE DEF w
<1>2. w.dir = v.dir
  BY <1>1, Fields DEF SameBut, VolumeFields
<1> QED
  BY <1>1, <1>2 DEF DirStays, w

-----------------------------------------------------------------------------
(* The slot. *)

\* What a slot shows is an entry.
LEMMA ShownOK ==
  ASSUME NEW v, VolumeOK(v)
  PROVE  EntryOK(Shown(v))
<1>1. EntryOK(Foreign)
  BY DEF EntryOK, HasFields, Foreign, Entry
<1>2. \A i \in DOMAIN v.buffer.entries : EntryOK(v.buffer.entries[i])
  BY DEF VolumeOK, Belongs
<1> QED
  BY <1>1, <1>2 DEF Shown

\* The entries in the window are changed, as far as they are of the kind that it shows.
LEMMA EntriesStay ==
  ASSUME NEW v, VolumeOK(v), NEW w, w = [ f \in DOMAIN w |-> w[f] ],
         SameBut(v, w, { "buffer", "dirty" } \cup OuterFields), w.dirty = TRUE,
         HasFields(w.buffer, { "links", "entries", "units" }),
         w.buffer.links = v.buffer.links, w.buffer.units = v.buffer.units,
         w.buffer.entries = [ i \in DOMAIN w.buffer.entries |-> w.buffer.entries[i] ],
         \A i \in DOMAIN w.buffer.entries : EntryOK(w.buffer.entries[i])
  PROVE  VolumeOK(w) /\ Stays(v, w)
<1>1. /\ VolumeFields \subseteq DOMAIN v /\ DOMAIN w = DOMAIN v
      /\ w.disk = v.disk /\ w.free = v.free /\ w.fsInfoDirty = v.fsInfoDirty
      /\ w.fuse = v.fuse /\ w.dead = v.dead /\ w.fault = v.fault /\ w.sector = v.sector
  BY Fields DEF SameBut, VolumeFields, TableFields, OuterFields
<1>2. Belongs(w.sector, w.buffer)
  BY <1>1 DEF Belongs, VolumeOK
<1>3. w.sector \in FatSectors => IsLinks(w.buffer)
  BY <1>2, BelongingLinks
<1>4. VolumeOK(w)
  BY <1>1, <1>2, <1>3 DEF VolumeOK, IsVolume, HasFields
<1>5. ~v.dead => FreeClusters(Logical(w)) = FreeClusters(Logical(v))
  <2> SUFFICES ASSUME ~v.dead PROVE FreeClusters(Logical(w)) = FreeClusters(Logical(v))
    OBVIOUS
  <2>1. ASSUME NEW t \in FatSectors PROVE Logical(w)[t].links = Logical(v)[t].links
    <3>1. t \in Sectors
      BY SectorPlaces
    <3>2. Logical(w)[t] = IF w.sector = t THEN w.buffer ELSE w.disk[t]
      BY <1>4, <3>1, LogicalAt
    <3>3. Logical(v)[t] = IF v.dirty /\ v.sector = t THEN v.buffer ELSE v.disk[t]
      BY <3>1, LogicalAt
    <3>4. ~v.dirty /\ v.sector = t => v.buffer = v.disk[t]
      BY DEF VolumeOK, IsVolume
    <3>5. v.dirty \in BOOLEAN
      BY DEF VolumeOK, IsVolume
    <3> QED
      BY <1>1, <3>2, <3>3, <3>4, <3>5
  <2> QED
    BY <2>1, LinkPlace DEF FreeClusters, LinkOn
<1>6. (Informed(v) => Informed(w)) /\ (Accurate(v) => Accurate(w))
  BY <1>1, <1>5 DEF Accurate, Informed
<1> QED
  BY <1>1, <1>4, <1>6 DEF Stays, Right

\* A write through the slot (859) is one of an entry into a directory.
LEMMA MarkStays ==
  ASSUME NEW v, VolumeOK(v), DirOK(v.dir), NEW e, EntryOK(e)
  PROVE  /\ DirStays(v, Mark(v, e)) /\ VolumeOK(Mark(v, e)) /\ Mark(v, e).dir = v.dir
         /\ Mark(v, e).result = v.result
<1> DEFINE w == Mark(v, e)
<1>1. VolumeFields \subseteq DOMAIN v /\ v = [ f \in DOMAIN v |-> v[f] ]
  BY Fields
<1>2. Belongs(v.sector, v.buffer)
  BY DEF VolumeOK
<1>3. /\ w = [ f \in DOMAIN w |-> w[f] ] /\ SameBut(v, w, { "buffer", "dirty" }) /\ w.dirty = TRUE
      /\ HasFields(w.buffer, { "links", "entries", "units" })
      /\ w.buffer.links = v.buffer.links /\ w.buffer.units = v.buffer.units
      /\ w.buffer.entries = [ i \in DOMAIN w.buffer.entries |-> w.buffer.entries[i] ]
      /\ \A i \in DOMAIN w.buffer.entries : EntryOK(w.buffer.entries[i])
  <2>1. CASE v.dir.slot \in DOMAIN v.buffer.entries
    <3> DEFINE es == [ v.buffer.entries EXCEPT ![v.dir.slot] = e ]
               b == [ v.buffer EXCEPT !.entries = es ]
    <3>1. b = [ f \in DOMAIN b |-> b[f] ] /\ DOMAIN b = DOMAIN v.buffer /\ b.entries = es
          /\ b.links = v.buffer.links /\ b.units = v.buffer.units
      <4> HIDE DEF es
      <4> QED
        BY <1>2 DEF Belongs, HasFields
    <3>2. /\ es = [ i \in DOMAIN es |-> es[i] ]
          /\ \A i \in DOMAIN es : EntryOK(es[i])
      BY <1>2, <2>1 DEF Belongs
    <3>3. w = [ v EXCEPT !.buffer = b, !.dirty = TRUE ]
      BY <1>1, <1>2, <2>1 DEF Mark, VolumeFields, TableFields, Belongs, HasFields
    <3> HIDE DEF w, b, es
    <3>4. w = [ f \in DOMAIN w |-> w[f] ] /\ SameBut(v, w, { "buffer", "dirty" }) /\ w.dirty = TRUE /\ w.buffer = b
      BY <1>1, <3>3 DEF SameBut, VolumeFields, TableFields
    <3> QED
      BY <1>2, <3>1, <3>2, <3>4 DEF HasFields, Belongs
  <2>2. CASE v.dir.slot \notin DOMAIN v.buffer.entries
    <3>1. w = [ v EXCEPT !.dirty = TRUE ]
      BY <2>2 DEF Mark
    <3> HIDE DEF w
    <3>2. w = [ f \in DOMAIN w |-> w[f] ] /\ SameBut(v, w, { "dirty" }) /\ w.dirty = TRUE /\ w.buffer = v.buffer
      BY <1>1, <3>1 DEF SameBut, VolumeFields, TableFields
    <3> QED
      BY <1>2, <3>2 DEF SameBut, Belongs
  <2> QED
    BY <2>1, <2>2
<1> HIDE DEF w
<1>4. SameBut(v, w, { "buffer", "dirty" } \cup OuterFields) /\ w.dir = v.dir /\ w.result = v.result
  BY <1>1, <1>3 DEF SameBut, VolumeFields, TableFields
<1> QED
  BY <1>3, <1>4, EntriesStay DEF DirStays, w

-----------------------------------------------------------------------------
(* The steps through a directory. *)

\* setIndex (2304): a walk down the chain.
LEMMA TableStays ==
  ASSUME NEW v, VolumeOK(v), NEW c, NEW n \in Nat
  PROVE  LET w == TableCluster(v, c, n)
         IN  Stays(v, w) /\ VolumeOK(w) /\ SameBut(v, w, LookFields)
<1> DEFINE v0 == Fails(v, "OK")
           v1 == Gives(v0, c)
           u(k) == Following!Passes(v1, 0)[k]
           T == { k \in Nat : Stays(v, u(k)) /\ SameBut(v, u(k), LookFields) }
<1>1. TableCluster(v, c, n) = u(n)
  BY DEF TableCluster
<1>2. u(0) = v1 /\ \A k \in Nat : u(k + 1) = TablePass(u(k), 0, k + 1)
  BY Following!PassByPass
<1>3. 0 \in T
  <2>1. Stays(v, v0) /\ VolumeOK(v0) /\ SameBut(v, v0, { "result" })
    BY FailsStays
  <2> HIDE DEF v0
  <2>2. Stays(v0, v1) /\ SameBut(v0, v1, { "value" })
    BY <2>1, GivesStays
  <2> HIDE DEF v1
  <2>3. Stays(v, v1) /\ SameBut(v, v1, LookFields)
    BY <2>1, <2>2, StaysAgain DEF SameBut, LookFields, WindowFields
  <2> QED
    BY <1>2, <2>3
<1>4. ASSUME NEW k \in Nat, k \in T PROVE k + 1 \in T
  <2> DEFINE x == u(k)
             g == GetFat(x, x.value)
             y == TablePass(x, 0, k + 1)
  <2>1. Stays(v, x) /\ SameBut(v, x, LookFields) /\ VolumeOK(x)
    BY <1>4 DEF Stays
  <2>2. u(k + 1) = y
    BY <1>2
  <2>3. y \in { x, g } \cup { Fails(g, r) : r \in { "DISK_ERR", "INT_ERR" } }
    BY DEF TablePass, Then, With
  <2> HIDE DEF u, x, y
  <2>4. Stays(x, g) /\ VolumeOK(g) /\ SameBut(x, g, LookFields)
    BY <2>1, GetFatStays DEF LookFields
  <2> HIDE DEF g
  <2>5. \A r : Stays(g, Fails(g, r)) /\ SameBut(g, Fails(g, r), { "result" })
    BY <2>4, FailsStays
  <2>6. Stays(v, g)
    BY <2>1, <2>4, StaysAgain
  <2>7. Stays(v, y)
    BY <2>1, <2>3, <2>5, <2>6, StaysAgain
  <2>8. SameBut(v, y, LookFields)
    BY <2>1, <2>3, <2>4, <2>5 DEF SameBut, LookFields, WindowFields
  <2> QED
    BY <2>2, <2>7, <2>8
<1>5. Nat \subseteq T
  <2> HIDE DEF T
  <2> QED
    BY <1>3, <1>4, Following!Upwards
<1>6. Stays(v, u(n)) /\ SameBut(v, u(n), LookFields)
  BY <1>5
<1> QED
  BY <1>1, <1>6 DEF Stays

LEMMA EntryNumbers ==
  /\ EntriesPerCluster \in Nat \ {0}
  /\ \A i \in Nat : i \div EntriesPerCluster \in Nat
  /\ MaxEntries \in Nat
<1>1. EntriesPerSector \in Nat \ {0} /\ SectorsPerCluster \in Nat \ {0} /\ NumFatEntries \in Nat
  BY EntriesAssumption, TableAssumption
<1>2. EntriesPerCluster \in Nat \ {0}
  BY <1>1 DEF EntriesPerCluster
<1>3. \A i \in Nat : i \div EntriesPerCluster \in Nat
  BY <1>2
<1>4. MaxEntries \in Nat
  BY <1>1, <1>2 DEF MaxEntries
<1> QED
  BY <1>2, <1>3, <1>4

\* setIndex (2283).
LEMMA SetIndexStays ==
  ASSUME NEW v, VolumeOK(v), DirOK(v.dir), NEW index \in Nat
  PROVE  DirStays(v, SetIndex(v, index)) /\ VolumeOK(SetIndex(v, index))
<1> DEFINE v0 == [ v EXCEPT !.dir.index = index ]
           first == IF v.dir.start = 0 THEN RootCluster ELSE v.dir.start
           n == index \div EntriesPerCluster
           u == TableCluster(v0, first, n)
           e1 == Fails([ u EXCEPT !.dir.cluster = u.value ], "INT_ERR")
           e2 == [ u EXCEPT !.dir.cluster = u.value,
                            !.dir.sector = ClusterToSector(u.value) + SectorInCluster(index),
                            !.dir.slot = SlotOf(index) ]
           w == SetIndex(v, index)
<1> SUFFICES DirStays(v, w)
  BY DEF DirStays, Stays
<1>1. w \in { Fails(v0, "INT_ERR"), u, e1, e2 }
  BY DEF SetIndex, Then
<1>2. n \in Nat
  BY EntryNumbers
<1>3. /\ v0 = [ f \in DOMAIN v0 |-> v0[f] ] /\ SameBut(v, v0, { "dir" }) /\ DirOK(v0.dir)
  <2> DEFINE d == [ v.dir EXCEPT !.index = index ]
  <2>1. DirOK(d)
    BY DirFields DEF DirOK, HasFields
  <2>2. v0 = [ v EXCEPT !.dir = d ]
    BY Fields DEF VolumeFields
  <2> HIDE DEF d, v0
  <2> QED
    BY <2>1, <2>2, Fields DEF SameBut, VolumeFields
<1> HIDE DEF w, v0
<1>4. VolumeOK(v0) /\ Stays(v, v0) /\ DirStays(v, v0)
  BY <1>3, DirSet DEF SameBut, OuterFields
<1>5. Stays(v0, u) /\ VolumeOK(u) /\ SameBut(v0, u, LookFields)
  <2> HIDE DEF n, first
  <2> QED
    BY <1>2, <1>4, TableStays
<1> HIDE DEF u, n, first
<1>6. DirOK(u.dir) /\ Stays(v, u)
  <2>1. u.dir = v0.dir
    BY <1>4, <1>5, RestIsKept DEF SameBut, LookFields, ChainFields
  <2> QED
    BY <1>3, <1>4, <1>5, <2>1, StaysAgain
<1>7. ASSUME NEW d, DirOK(d), NEW x, x = [ u EXCEPT !.dir = d ]
      PROVE  VolumeOK(x) /\ Stays(v, x) /\ DirOK(x.dir)
  <2>1. x = [ f \in DOMAIN x |-> x[f] ] /\ SameBut(u, x, { "dir" }) /\ x.dir = d
    BY <1>5, <1>7, Fields DEF SameBut, VolumeFields
  <2>2. VolumeOK(x) /\ Stays(u, x)
    BY <1>5, <1>7, <2>1, DirSet DEF SameBut, OuterFields
  <2> QED
    BY <1>6, <1>7, <2>1, <2>2, StaysAgain
<1>8. DirStays(v, e2)
  <2> DEFINE s == ClusterToSector(u.value) + SectorInCluster(index)
             t == SlotOf(index)
             d == [ u.dir EXCEPT !.cluster = u.value, !.sector = s, !.slot = t ]
  <2>1. e2 = [ u EXCEPT !.dir = d ]
    BY <1>5, Fields DEF VolumeFields
  <2> HIDE DEF s, t
  <2>2. DirOK(d)
    BY <1>6, DirFields DEF DirOK, HasFields
  <2> HIDE DEF d, e2
  <2> QED
    BY <1>7, <2>1, <2>2 DEF DirStays
<1>9. DirStays(v, e1)
  <2> DEFINE d == [ u.dir EXCEPT !.cluster = u.value ]
             x == [ u EXCEPT !.dir = d ]
  <2>1. e1 = Fails(x, "INT_ERR")
    BY <1>5, Fields DEF VolumeFields
  <2>2. DirOK(d)
    BY <1>6, DirFields DEF DirOK, HasFields
  <2>3. VolumeOK(x) /\ Stays(v, x) /\ DirOK(x.dir)
    <3> HIDE DEF d
    <3> QED
      BY <1>7, <2>2
  <2> HIDE DEF x, e1
  <2> QED
    BY <2>1, <2>3, FailsDir, DirStaysAgain
<1>10. DirStays(v, Fails(v0, "INT_ERR"))
  BY <1>3, <1>4, FailsDir, DirStaysAgain
<1> QED
  BY <1>1, <1>6, <1>8, <1>9, <1>10 DEF DirStays

\* What goes on only when there was no error.
LEMMA OrFailsAgain ==
  ASSUME NEW v, NEW u, StaysOrFails(v, u), u.result \notin Errors, NEW w
  PROVE  /\ StaysOrFails(u, w) => StaysOrFails(v, w)
         /\ Stays(u, w) => StaysOrFails(v, w)
         /\ DirStaysOrFails(u, w) => DirStaysOrFails(v, w)
         /\ DirStays(u, w) => DirStaysOrFails(v, w)
  BY DEF StaysOrFails, Stays, DirStaysOrFails, DirStays

\* Results that are errors, and some that are not.
LEMMA NoErrors ==
  /\ "OK" \notin Errors /\ "NO_FILE" \notin Errors /\ "FULL" \notin Errors
  /\ "DISK_ERR" \in Errors /\ "INT_ERR" \in Errors
  BY DEF Errors

\* A number that says of an error becomes the result that says so.
LEMMA ErrorIsToldOf ==
  ASSUME NEW v, NEW c, VolumeOK(c), DOMAIN c = DOMAIN v, c.fault = v.fault, NEW r \in Errors
  PROVE  StaysOrFails(v, Fails(c, r))
<1> DEFINE w == Fails(c, r)
<1>1. VolumeOK(w) /\ Stays(c, w) /\ w.result = r
  BY FailsStays
<1> HIDE DEF w
<1> QED
  BY <1>1 DEF StaysOrFails, Stays, w

\* next (1) at the end of the table (2357).
LEMMA StretchStays ==
  ASSUME NEW v, VolumeOK(v)
  PROVE  LET w == Stretch(v)
         IN  StaysOrFails(v, w) /\ SameBut(v, w, ChainFields \cup { "unclean" })
<1> DEFINE c == CreateChain(v, v.dir.cluster)
           first == ClusterToSector(c.value)
           s == SyncWindow(c)
           b0 == [ s EXCEPT !.buffer = Entries(BlankEntries), !.sector = first ]
           b1 == Then(Clean(b0), LAMBDA x : [ x EXCEPT !.sector = first ])
           b2 == IF s.result = "OK" THEN b1 ELSE s
           w2 == [ b2 EXCEPT !.value = c.value, !.unclean = @ \/ (v.fuse # 0 /\ b2.fuse = 0) ]
           w == Stretch(v)
<1> SUFFICES StaysOrFails(v, w) /\ SameBut(v, w, ChainFields \cup { "unclean" })
  OBVIOUS
<1>1. w = CASE c.value = 0    -> Fails(c, "DENIED")
            [] c.value = 1    -> Fails(c, "INT_ERR")
            [] c.value = Ones -> Fails(c, "DISK_ERR")
            [] OTHER          -> w2
  BY DEF Stretch, With, Then
<1>2. ChainStays(v, c)
  BY CreateChainStays
<1> HIDE DEF w, c
<1>3. VolumeOK(c) /\ SameBut(v, c, ChainFields) /\ DOMAIN c = DOMAIN v /\ c.fault = v.fault
  BY <1>2, RestIsKept DEF ChainStays
<1>4. c.value \notin { 1, Ones } => (Right(v) => Right(c))
  BY <1>2 DEF ChainStays
<1>5. ASSUME NEW r PROVE SameBut(v, Fails(c, r), ChainFields \cup { "unclean" })
  <2>1. SameBut(c, Fails(c, r), { "result" })
    BY <1>3, FailsStays
  <2> QED
    BY <1>3, <2>1 DEF SameBut, ChainFields, WindowFields
<1>6. CASE c.value \in { 1, Ones }
  <2>1. w = Fails(c, "INT_ERR") \/ w = Fails(c, "DISK_ERR")
    <3>1. 0 # Ones /\ 0 # 1
      BY CountIsSmall
    <3> QED
      BY <1>1, <1>6, <3>1
  <2> QED
    BY <1>3, <1>5, <2>1, ErrorIsToldOf, NoErrors
<1>7. CASE c.value = 0
  <2>1. w = Fails(c, "DENIED")
    BY <1>1, <1>7, CountIsSmall
  <2>2. Stays(c, Fails(c, "DENIED")) /\ VolumeOK(Fails(c, "DENIED"))
    BY <1>3, FailsStays
  <2>3. c.value \notin { 1, Ones }
    BY <1>7, CountIsSmall
  <2> QED
    BY <1>3, <1>4, <1>5, <2>1, <2>2, <2>3 DEF StaysOrFails, Stays
<1>8. CASE c.value \notin { 0, 1, Ones }
  <2>1. w = w2
    BY <1>1, <1>8
  <2>2. c.value \in Clusters
    BY <1>2, <1>8 DEF ChainStays
  <2>3. Stays(c, s) /\ VolumeOK(s) /\ SameBut(c, s, { "disk", "dirty", "fuse", "dead", "result" })
        /\ (s.result = "OK" => ~s.dirty)
    BY <1>3, SyncWindowStays
  <2>4. first \in DataSectors
    <3>1. 0 \in 0 .. SectorsPerCluster - 1
      BY TableAssumption
    <3> QED
      BY <2>2, <3>1, ClusterPlaces
  <2>5. Stays(c, b2) /\ VolumeOK(b2) /\ SameBut(c, b2, WindowFields)
    <3>1. CASE s.result # "OK"
      <4>1. b2 = s
        BY <3>1
      <4> HIDE DEF b2
      <4> QED
        BY <2>3, <4>1 DEF SameBut, WindowFields
    <3>2. CASE s.result = "OK"
      <4>1. b2 = b1
        BY <3>2
      <4> HIDE DEF b2
      <4>2. ~s.dirty
        BY <2>3, <3>2
      <4>3. /\ b0 = [ f \in DOMAIN b0 |-> b0[f] ] /\ SameBut(s, b0, { "sector", "buffer" })
            /\ b0.sector = first /\ b0.buffer = Entries(BlankEntries) /\ b0.dirty = s.dirty
        <5> HIDE DEF s, first
        <5> QED
          BY <2>3, Fields DEF SameBut, VolumeFields, TableFields
      <4> HIDE DEF b0, s, b1
      <4>4. VolumeOK(b0) /\ Stays(s, b0)
        <5>1. SameBut(s, b0, SectorFields \cup OuterFields)
          BY <4>3 DEF SameBut, SectorFields
        <5>2. b0.dirty \in BOOLEAN /\ Belongs(b0.sector, b0.buffer)
          BY <2>3, <2>4, <4>3, BlankBelongs DEF VolumeOK, IsVolume
        <5> QED
          BY <2>3, <2>4, <4>2, <4>3, <5>1, <5>2, DataWindowStays
      <4>5. Stays(b0, b1) /\ VolumeOK(b1) /\ SameBut(b0, b1, WindowFields)
        BY <2>2, <4>2, <4>3, <4>4, CleanStays DEF b1
      <4>6. Stays(c, b1)
        BY <2>3, <4>4, <4>5, StaysAgain
      <4>7. SameBut(c, b1, WindowFields)
        BY <2>3, <4>3, <4>5 DEF SameBut, WindowFields
      <4> QED
        BY <4>1, <4>5, <4>6, <4>7
    <3> QED
      BY <3>1, <3>2
  <2> HIDE DEF b2
  <2>6. w2 = [ f \in DOMAIN w2 |-> w2[f] ] /\ SameBut(b2, w2, { "value", "unclean" })
    BY <2>5, Fields DEF SameBut, VolumeFields, TableFields
  <2> HIDE DEF w2
  <2>7. Stays(b2, w2)
    BY <2>5, <2>6, OuterStays DEF SameBut, OuterFields
  <2>8. Stays(c, w2)
    BY <2>5, <2>7, StaysAgain
  <2>9. SameBut(v, w2, ChainFields \cup { "unclean" })
    BY <1>3, <2>5, <2>6 DEF SameBut, ChainFields, WindowFields
  <2> QED
    BY <1>3, <1>4, <1>8, <2>1, <2>8, <2>9 DEF StaysOrFails, Stays
<1> QED
  BY <1>6, <1>7, <1>8

-----------------------------------------------------------------------------
(* The cDirectory moves. *)

LEMMA DirPut ==
  ASSUME NEW v, VolumeOK(v), NEW d, DirOK(d)
  PROVE  LET w == [ v EXCEPT !.dir = d ]
         IN  DirStays(v, w) /\ VolumeOK(w) /\ w.dir = d /\ w.result = v.result
<1> DEFINE w == [ v EXCEPT !.dir = d ]
<1>1. /\ w = [ f \in DOMAIN w |-> w[f] ] /\ SameBut(v, w, { "dir" }) /\ w.dir = d
      /\ w.result = v.result
  BY Fields DEF SameBut, VolumeFields, TableFields
<1> HIDE DEF w
<1> QED
  BY <1>1, DirSet DEF SameBut, OuterFields, w

\* What is an entry further on.
LEMMA HereStays ==
  ASSUME NEW v, VolumeOK(v), DirOK(v.dir), NEW i \in Nat
  PROVE  DirStays(v, [ v EXCEPT !.dir.index = i, !.dir.slot = SlotOf(i), !.result = "OK" ])
<1> DEFINE t == SlotOf(i)
           d == [ v.dir EXCEPT !.index = i, !.slot = t ]
           x == [ v EXCEPT !.dir = d ]
           w == [ v EXCEPT !.dir.index = i, !.dir.slot = t, !.result = "OK" ]
<1> HIDE DEF t
<1>1. w = Fails(x, "OK")
  BY Fields DEF VolumeFields, Fails
<1>2. DirOK(d)
  BY DirFields DEF DirOK, HasFields
<1> HIDE DEF d
<1>3. DirStays(v, x) /\ VolumeOK(x) /\ DirOK(x.dir)
  BY <1>2, DirPut
<1> HIDE DEF x, w
<1>4. DirStays(x, w)
  BY <1>1, <1>3, FailsDir
<1>5. DirStays(v, w)
  BY <1>3, <1>4, DirStaysAgain DEF DirStays
<1> QED
  BY <1>5 DEF w, t

\* next (2331).
LEMMA NextEntryStays ==
  ASSUME NEW v, VolumeOK(v), DirOK(v.dir)
  PROVE  DirStays(v, NextEntry(v, FALSE)) /\ DirStaysOrFails(v, NextEntry(v, TRUE))
<1> DEFINE i == v.dir.index + 1
           w == [ v EXCEPT !.dir.sector = @ + 1 ]
           Here(u) == [ u EXCEPT !.dir.index = i, !.dir.slot = SlotOf(i), !.result = "OK" ]
           At(u) == [ u EXCEPT !.dir.cluster = u.value, !.dir.sector = ClusterToSector(u.value) ]
           g == GetFat(w, v.dir.cluster)
           s == Stretch(g)
<1>1. i \in Nat
  BY DEF DirOK
<1>2. ASSUME NEW stretch \in BOOLEAN
      PROVE  NextEntry(v, stretch) \in
               { Fails(v, "NO_FILE"), Here(v), Here(w), Here(At(g)) }
                 \cup { Fails(g, r) : r \in { "INT_ERR", "DISK_ERR", "NO_FILE" } }
                 \cup (IF stretch THEN { IF s.result = "OK" THEN Here(At(s)) ELSE s } ELSE {})
  BY DEF NextEntry, With, Then
<1>3. DirStays(v, w) /\ VolumeOK(w) /\ DirOK(w.dir)
  <2> DEFINE d == [ v.dir EXCEPT !.sector = v.dir.sector + 1 ]
  <2>1. w = [ v EXCEPT !.dir = d ]
    BY Fields DEF VolumeFields
  <2>2. DirOK(d)
    BY DirFields DEF DirOK, HasFields
  <2> HIDE DEF d, w
  <2> QED
    BY <2>1, <2>2, DirPut
<1>4. ASSUME NEW u, VolumeOK(u), DirOK(u.dir)
      PROVE  DirStays(u, Here(u)) /\ DirStays(u, Here(At(u)))
  <2> DEFINE x == u.value
             y == ClusterToSector(x)
             d == [ u.dir EXCEPT !.cluster = x, !.sector = y ]
             m == At(u)
  <2>1. m = [ u EXCEPT !.dir = d ]
    <3> HIDE DEF y
    <3> QED
      BY <1>4, Fields DEF VolumeFields, y
  <2>2. DirOK(d)
    <3> HIDE DEF x, y
    <3> QED
      BY <1>4, DirFields DEF DirOK, HasFields
  <2> HIDE DEF d, At, i
  <2>3. DirStays(u, m) /\ VolumeOK(m) /\ DirOK(m.dir)
    BY <1>4, <2>1, <2>2, DirPut
  <2> HIDE DEF m
  <2>4. DirStays(m, Here(m)) /\ DirStays(u, Here(u))
    BY <1>1, <1>4, <2>3, HereStays
  <2>5. DirStays(u, Here(m))
    <3> HIDE DEF Here
    <3> QED
      BY <2>3, <2>4, DirStaysAgain DEF DirStays
  <2> QED
    BY <2>4, <2>5 DEF m
<1> HIDE DEF w, Here, At
<1>5. Stays(w, g) /\ VolumeOK(g) /\ DirOK(g.dir) /\ DirStays(v, g)
  <2>1. Stays(w, g) /\ VolumeOK(g) /\ SameBut(w, g, WindowFields \cup { "value" })
    BY <1>3, GetFatStays
  <2>2. g.dir = w.dir
    BY <1>3, <2>1, RestIsKept DEF SameBut, ChainFields
  <2> QED
    BY <1>3, <2>1, <2>2, DirStaysAgain DEF DirStays
<1> HIDE DEF g
<1>6. /\ DirStays(v, Fails(v, "NO_FILE")) /\ DirStays(v, Here(v)) /\ DirStays(v, Here(w))
      /\ DirStays(v, Here(At(g)))
      /\ \A r : DirStays(v, Fails(g, r))
  <2>1. DirStays(v, Fails(v, "NO_FILE")) /\ \A r : DirStays(g, Fails(g, r))
    BY <1>5, FailsDir
  <2>2. DirStays(v, Here(v)) /\ DirStays(w, Here(w)) /\ DirStays(g, Here(At(g)))
    BY <1>3, <1>4, <1>5
  <2>3. Stays(v, w) /\ Stays(v, g)
    BY <1>3, <1>5 DEF DirStays
  <2> QED
    BY <2>1, <2>2, <2>3, DirStaysAgain
<1>7. DirStays(v, NextEntry(v, FALSE))
  BY <1>2, <1>6
<1>8. CASE NextEntry(v, TRUE) \in { Here(At(s)), s } /\ (NextEntry(v, TRUE) = Here(At(s)) => s.result = "OK" \/ s = Here(At(s)))
  <2>1. StaysOrFails(g, s) /\ VolumeOK(s) /\ s.dir = g.dir
    <3>1. StaysOrFails(g, s) /\ SameBut(g, s, ChainFields \cup { "unclean" })
      BY <1>5, StretchStays
    <3> HIDE DEF s
    <3>2. s.dir = g.dir
      BY <1>5, <3>1, Fields DEF SameBut, ChainFields, WindowFields, VolumeFields
    <3> QED
      BY <3>1, <3>2 DEF StaysOrFails
  <2> HIDE DEF s
  <2>2. StaysOrFails(v, s) /\ DirStaysOrFails(v, s)
    BY <1>5, <2>1, DirStaysAgain DEF DirStaysOrFails, DirStays
  <2>3. CASE s.result = "OK"
    <3>1. DirStays(s, Here(At(s)))
      BY <1>4, <1>5, <2>1
    <3>2. DirStaysOrFails(v, Here(At(s)))
      BY <2>2, <2>3, <3>1, OrFailsAgain, NoErrors
    <3> QED
      BY <1>7, <1>8, <2>2, <3>2
  <2>4. CASE s.result # "OK"
    BY <1>7, <1>8, <2>2, <2>4
  <2> QED
    BY <2>3, <2>4
<1>9. ASSUME NEW x, DirStays(v, x) PROVE DirStaysOrFails(v, x)
  BY <1>9, StaysIsEnds DEF DirStays, DirStaysOrFails
<1> HIDE DEF s
<1>10. CASE NextEntry(v, TRUE) = (IF s.result = "OK" THEN Here(At(s)) ELSE s)
  BY <1>8, <1>10
<1> QED
  BY <1>2, <1>6, <1>7, <1>9, <1>10

-----------------------------------------------------------------------------
(* The loops over a directory. *)

LEMMA DirSame ==
  ASSUME NEW v, VolumeOK(v), DirOK(v.dir)
  PROVE  DirStays(v, v)
  BY DEF DirStays, Stays

\* One thing after another.
LEMMA DirTwice ==
  ASSUME NEW v, NEW u, DirStays(v, u), NEW w
  PROVE  /\ VolumeOK(u) /\ DirOK(u.dir)
         /\ DirStays(u, w) => DirStays(v, w)
         /\ DirStaysOrFails(u, w) => DirStaysOrFails(v, w)
  BY DirStaysAgain DEF DirStays, Stays

\* Steps of the table and FSINFO leave the cDirectory alone.
LEMMA TableKeepsDir ==
  ASSUME NEW v, VolumeOK(v), DirOK(v.dir), NEW w, Stays(v, w), SameBut(v, w, ChainFields)
  PROVE  DirStays(v, w)
  BY RestIsKept DEF DirStays

LEMMA DirMoveWindow ==
  ASSUME NEW v, VolumeOK(v), DirOK(v.dir), NEW s
  PROVE  DirStays(v, MoveWindow(v, s))
<1> DEFINE w == MoveWindow(v, s)
<1>1. Stays(v, w) /\ SameBut(v, w, WindowFields)
  BY MoveWindowStays
<1> HIDE DEF w
<1>2. SameBut(v, w, ChainFields)
  BY <1>1 DEF SameBut, ChainFields
<1> QED
  BY <1>1, <1>2, TableKeepsDir DEF w

LEMMA LongStays ==
  ASSUME NEW v, VolumeOK(v), DirOK(v.dir), NEW x \in Nat
  PROVE  DirStays(v, [ v EXCEPT !.dir.long = x ])
<1> DEFINE d == [ v.dir EXCEPT !.long = x ]
<1>1. [ v EXCEPT !.dir.long = x ] = [ v EXCEPT !.dir = d ]
  BY Fields DEF VolumeFields
<1>2. DirOK(d)
  BY DirFields DEF DirOK, HasFields
<1> HIDE DEF d
<1> QED
  BY <1>1, <1>2, DirPut

LEMMA AfterEntryStays ==
  ASSUME NEW v, VolumeOK(v), DirOK(v.dir), NEW e
  PROVE  DirStays(v, AfterEntry(v, e))
<1>1. v.dir.index \in Nat /\ Ones \in Nat
  BY TableAssumption DEF DirOK
<1> QED
  BY <1>1, LongStays DEF AfterEntry

LEMMA StartStays ==
  ASSUME NEW v, VolumeOK(v), DirOK(v.dir), NEW x
  PROVE  DirStays(v, [ v EXCEPT !.dir.start = x ])
<1> DEFINE d == [ v.dir EXCEPT !.start = x ]
<1>1. [ v EXCEPT !.dir.start = x ] = [ v EXCEPT !.dir = d ]
  BY Fields DEF VolumeFields
<1>2. DirOK(d)
  BY DirFields DEF DirOK, HasFields
<1> HIDE DEF d
<1> QED
  BY <1>1, <1>2, DirPut

\* A pass of find (2517).
LEMMA FindPassStays ==
  ASSUME NEW v, VolumeOK(v), DirOK(v.dir), NEW name, NEW k
  PROVE  DirStays(v, FindPass(v, name, k))
<1> DEFINE m == MoveWindow(v, v.dir.sector)
           a == AfterEntry(m, Shown(m))
           n == NextEntry(a, FALSE)
<1>1. FindPass(v, name, k) \in { v, m, Fails(m, "NO_FILE"), n }
  BY DEF FindPass, Then
<1>2. DirStays(v, m) /\ VolumeOK(m) /\ DirOK(m.dir)
  BY DirMoveWindow, DirTwice
<1> HIDE DEF m
<1>3. DirStays(m, a) /\ VolumeOK(a) /\ DirOK(a.dir)
  BY <1>2, AfterEntryStays, DirTwice
<1> HIDE DEF a
<1>4. DirStays(a, n)
  BY <1>3, NextEntryStays
<1> HIDE DEF n
<1>5. DirStays(m, n) /\ DirStays(m, Fails(m, "NO_FILE"))
  BY <1>2, <1>3, <1>4, DirTwice, FailsDir
<1>6. DirStays(v, n) /\ DirStays(v, Fails(m, "NO_FILE"))
  BY <1>2, <1>5, DirTwice
<1> QED
  BY <1>1, <1>2, <1>6, DirSame

\* find (2506).
LEMMA FindStays ==
  ASSUME NEW v, VolumeOK(v), DirOK(v.dir), NEW name
  PROVE  DirStays(v, Find(v, name))
<1> DEFINE s == SetIndex(v, 0)
           v1 == [ s EXCEPT !.dir.long = Ones ]
           u(k) == Finding!Passes(v1, name)[k]
           T == { k \in Nat : DirStays(v, u(k)) }
<1>1. Find(v, name) = IF s.result = "OK" THEN u(MaxEntries) ELSE s
  BY DEF Find, Then
<1>2. DirStays(v, s) /\ VolumeOK(s) /\ DirOK(s.dir)
  BY SetIndexStays, DirTwice
<1> HIDE DEF s
<1>3. u(0) = v1 /\ \A k \in Nat : u(k + 1) = FindPass(u(k), name, k + 1)
  BY Finding!PassByPass
<1>4. 0 \in T
  <2>1. DirStays(s, v1)
    BY <1>2, LongStays, TableAssumption
  <2> QED
    BY <1>2, <1>3, <2>1, DirTwice
<1> HIDE DEF u
<1>5. ASSUME NEW k \in Nat, k \in T PROVE k + 1 \in T
  <2>1. DirStays(v, u(k))
    BY <1>5
  <2>2. DirStays(u(k), u(k + 1))
    BY <1>3, <2>1, DirTwice, FindPassStays
  <2> QED
    BY <2>1, <2>2, DirTwice
<1>6. Nat \subseteq T
  <2> HIDE DEF T
  <2> QED
    BY <1>4, <1>5, Finding!Upwards
<1>7. DirStays(v, u(MaxEntries))
  BY <1>6, EntryNumbers
<1> QED
  BY <1>1, <1>2, <1>7

\* A pass of read (2572).
LEMMA ReadPassStays ==
  ASSUME NEW v, VolumeOK(v), DirOK(v.dir), NEW wanted, NEW k
  PROVE  DirStays(v, ReadPass(v, wanted, k))
<1> DEFINE m == MoveWindow(v, v.dir.sector)
           n == NextEntry(m, FALSE)
<1>1. ReadPass(v, wanted, k) \in { v, m, Fails(m, "NO_FILE"), n }
  BY DEF ReadPass, Then
<1>2. DirStays(v, m) /\ VolumeOK(m) /\ DirOK(m.dir)
  BY DirMoveWindow, DirTwice
<1> HIDE DEF m
<1>3. DirStays(m, n) /\ DirStays(m, Fails(m, "NO_FILE"))
  BY <1>2, NextEntryStays, FailsDir
<1>4. DirStays(v, n) /\ DirStays(v, Fails(m, "NO_FILE"))
  BY <1>2, <1>3, DirTwice
<1> QED
  BY <1>1, <1>2, <1>4, DirSame

\* read (2565).
LEMMA ReadEntryStays ==
  ASSUME NEW v, VolumeOK(v), DirOK(v.dir), NEW label
  PROVE  DirStays(v, ReadEntry(v, label))
<1> DEFINE wanted == IF label THEN { "label" } ELSE { "file", "dir" }
           u(k) == Reading!Passes(v, wanted)[k]
           T == { k \in Nat : DirStays(v, u(k)) }
           w == u(MaxEntries)
           x == [ w EXCEPT !.dir.sector = NoSector ]
<1>1. ReadEntry(v, label) \in { w, x }
  BY DEF ReadEntry, With
<1> HIDE DEF wanted
<1>2. u(0) = v /\ \A k \in Nat : u(k + 1) = ReadPass(u(k), wanted, k + 1)
  BY Reading!PassByPass
<1> HIDE DEF u
<1>3. 0 \in T
  BY <1>2, DirSame
<1>4. ASSUME NEW k \in Nat, k \in T PROVE k + 1 \in T
  <2>1. DirStays(v, u(k))
    BY <1>4
  <2>2. DirStays(u(k), u(k + 1))
    BY <1>2, <2>1, DirTwice, ReadPassStays
  <2> QED
    BY <2>1, <2>2, DirTwice
<1>5. Nat \subseteq T
  <2> HIDE DEF T
  <2> QED
    BY <1>3, <1>4, Reading!Upwards
<1>6. DirStays(v, w) /\ VolumeOK(w) /\ DirOK(w.dir)
  BY <1>5, EntryNumbers, DirTwice
<1> HIDE DEF w
<1>7. DirStays(w, x)
  <2> DEFINE d == [ w.dir EXCEPT !.sector = NoSector ]
  <2>1. x = [ w EXCEPT !.dir = d ]
    BY <1>6, Fields DEF VolumeFields
  <2>2. DirOK(d)
    BY <1>6, DirFields DEF DirOK, HasFields
  <2> HIDE DEF d
  <2> QED
    BY <1>6, <2>1, <2>2, DirPut
<1> QED
  BY <1>1, <1>6, <1>7, DirTwice

LEMMA ButNoFileStays ==
  ASSUME NEW v, VolumeOK(v), DirOK(v.dir), NEW r
  PROVE  DirStays(v, ButNoFile(v, r))
  BY FailsDir, DirSame DEF ButNoFile

LEMMA SimpleEntries ==
  /\ EntryOK(Deleted) /\ EntryOK(Entry("label", "label", 0, 0))
  /\ \A e : EntryOK(e) => \A b : EntryOK([ e EXCEPT !.readOnly = b ])
<1>1. EntryOK(Deleted) /\ EntryOK(Entry("label", "label", 0, 0))
  BY DEF EntryOK, HasFields, Deleted, Entry
<1>2. ASSUME NEW e, EntryOK(e), NEW b PROVE EntryOK([ e EXCEPT !.readOnly = b ])
  BY <1>2 DEF EntryOK, HasFields
<1> QED
  BY <1>1, <1>2

\* A pass of remove (2624).
LEMMA RemovePassStays ==
  ASSUME NEW v, VolumeOK(v), DirOK(v.dir), NEW i, NEW k
  PROVE  DirStays(v, RemovePass(v, i, k))
<1> DEFINE w == MoveWindow(v, v.dir.sector)
           m == Mark(w, Deleted)
           n == NextEntry(m, FALSE)
<1>1. RemovePass(v, i, k) \in { v, w, m, n }
  BY DEF RemovePass, Then
<1>2. DirStays(v, w) /\ VolumeOK(w) /\ DirOK(w.dir)
  BY DirMoveWindow, DirTwice
<1> HIDE DEF w
<1>3. DirStays(w, m) /\ VolumeOK(m) /\ DirOK(m.dir)
  BY <1>2, MarkStays, SimpleEntries, DirTwice
<1> HIDE DEF m
<1>4. DirStays(m, n)
  BY <1>3, NextEntryStays
<1> HIDE DEF n
<1>5. DirStays(w, n)
  BY <1>3, <1>4, DirTwice
<1>6. DirStays(v, m) /\ DirStays(v, n)
  BY <1>2, <1>3, <1>5, DirTwice
<1> QED
  BY <1>1, <1>2, <1>6, DirSame

\* remove (2617).
LEMMA RemoveStays ==
  ASSUME NEW v, VolumeOK(v), DirOK(v.dir)
  PROVE  DirStays(v, Remove(v))
<1> DEFINE i == IF v.dir.long = Ones THEN v.dir.index ELSE v.dir.long
           s == SetIndex(v, i)
           p == v.dir.index
           u(k) == Removing!Passes(s, p)[k]
           T == { k \in Nat : DirStays(v, u(k)) }
           w == IF s.result = "OK" THEN u(MaxEntries) ELSE s
<1>1. Remove(v) = ButNoFile(w, "INT_ERR")
  BY DEF Remove, Then
<1>2. DirStays(v, s) /\ VolumeOK(s) /\ DirOK(s.dir)
  <2>1. i \in Nat
    BY DEF DirOK
  <2> HIDE DEF i
  <2> QED
    BY <2>1, SetIndexStays, DirTwice
<1> HIDE DEF s, p
<1>3. u(0) = s /\ \A k \in Nat : u(k + 1) = RemovePass(u(k), p, k + 1)
  BY Removing!PassByPass
<1> HIDE DEF u
<1>4. 0 \in T
  BY <1>2, <1>3
<1>5. ASSUME NEW k \in Nat, k \in T PROVE k + 1 \in T
  <2>1. DirStays(v, u(k))
    BY <1>5
  <2>2. DirStays(u(k), u(k + 1))
    BY <1>3, <2>1, DirTwice, RemovePassStays
  <2> QED
    BY <2>1, <2>2, DirTwice
<1>6. Nat \subseteq T
  <2> HIDE DEF T
  <2> QED
    BY <1>4, <1>5, Removing!Upwards
<1>7. DirStays(v, u(MaxEntries))
  BY <1>6, EntryNumbers
<1>8. DirStays(v, w)
  BY <1>2, <1>7
<1> HIDE DEF w
<1> QED
  BY <1>1, <1>8, DirTwice, ButNoFileStays

\* What is done after an error is nothing.
LEMMA DirOrFailsTwice ==
  ASSUME NEW v, NEW u, DirStaysOrFails(v, u), u.result = "OK", NEW w
  PROVE  /\ VolumeOK(u) /\ DirOK(u.dir)
         /\ DirStays(u, w) => DirStaysOrFails(v, w)
         /\ DirStaysOrFails(u, w) => DirStaysOrFails(v, w)
  BY OrFailsAgain, NoErrors DEF DirStaysOrFails, StaysOrFails

LEMMA DirIsDirOrFails ==
  ASSUME NEW v, NEW w, DirStays(v, w)
  PROVE  DirStaysOrFails(v, w)
  BY StaysIsEnds DEF DirStays, DirStaysOrFails

\* A pass of allocate (2484).
LEMMA AllocatePassStays ==
  ASSUME NEW v, VolumeOK(v), DirOK(v.dir), NEW p, NEW k
  PROVE  DirStaysOrFails(v, AllocatePass(v, p, k)) /\ (v.result # "OK" => AllocatePass(v, p, k) = v)
<1> DEFINE m == MoveWindow(v, v.dir.sector)
           n == NextEntry(m, TRUE)
<1>1. AllocatePass(v, p, k) \in { v, m, n } /\ (v.result # "OK" => AllocatePass(v, p, k) = v)
  BY DEF AllocatePass, Then
<1>2. DirStays(v, m) /\ VolumeOK(m) /\ DirOK(m.dir)
  BY DirMoveWindow, DirTwice
<1> HIDE DEF m
<1>3. DirStaysOrFails(m, n)
  BY <1>2, NextEntryStays
<1> HIDE DEF n
<1>4. DirStaysOrFails(v, n)
  BY <1>2, <1>3, DirTwice
<1> QED
  BY <1>1, <1>2, <1>4, DirSame, DirIsDirOrFails

\* allocate (2478).
LEMMA AllocateStays ==
  ASSUME NEW v, VolumeOK(v), DirOK(v.dir)
  PROVE  DirStaysOrFails(v, Allocate(v))
<1> DEFINE s == SetIndex(v, 0)
           u(k) == Allocating!Passes(s, 0)[k]
           T == { k \in Nat : DirStaysOrFails(v, u(k)) }
           w == IF s.result = "OK" THEN u(MaxEntries) ELSE s
<1>1. Allocate(v) = IF w.result = "NO_FILE" THEN Fails(w, "DENIED") ELSE w
  BY DEF Allocate, Then, ButNoFile
<1>2. DirStays(v, s) /\ VolumeOK(s) /\ DirOK(s.dir)
  BY SetIndexStays, DirTwice
<1> HIDE DEF s
<1>3. u(0) = s /\ \A k \in Nat : u(k + 1) = AllocatePass(u(k), 0, k + 1)
  BY Allocating!PassByPass
<1> HIDE DEF u
<1>4. 0 \in T
  BY <1>2, <1>3, DirIsDirOrFails
<1>5. ASSUME NEW k \in Nat, k \in T PROVE k + 1 \in T
  <2>1. DirStaysOrFails(v, u(k)) /\ VolumeOK(u(k)) /\ DirOK(u(k).dir)
    BY <1>5 DEF DirStaysOrFails, StaysOrFails
  <2>2. DirStaysOrFails(u(k), u(k + 1)) /\ (u(k).result # "OK" => u(k + 1) = u(k))
    BY <1>3, <2>1, AllocatePassStays
  <2> QED
    BY <2>1, <2>2, DirOrFailsTwice
<1>6. Nat \subseteq T
  <2> HIDE DEF T
  <2> QED
    BY <1>4, <1>5, Allocating!Upwards
<1>7. DirStaysOrFails(v, u(MaxEntries))
  BY <1>6, EntryNumbers
<1>8. DirStaysOrFails(v, w) /\ VolumeOK(w) /\ DirOK(w.dir)
  BY <1>2, <1>7, DirIsDirOrFails DEF DirStaysOrFails, StaysOrFails
<1> HIDE DEF w
<1>9. DirStays(w, Fails(w, "DENIED"))
  BY <1>8, FailsDir
<1> QED
  BY <1>1, <1>8, <1>9, OrFailsAgain, NoErrors DEF DirStaysOrFails

-----------------------------------------------------------------------------
(* The path. *)

\* A pass of followPath (2093).
LEMMA FollowPassStays ==
  ASSUME NEW v, VolumeOK(v), DirOK(v.dir), NEW path, NEW k
  PROVE  DirStays(v, FollowPass(v, path, k))
<1> DEFINE x == Shown(v).start
           s == [ v EXCEPT !.dir.start = x ]
           f == Fails(v, "NO_PATH")
           e == IF v.result = "OK"
                  THEN IF k = 1 THEN v ELSE IF Shown(v).kind # "dir" THEN f ELSE s
                  ELSE v
           name == path[k]
           g == Find(e, name)
           r == IF k < Len(path) THEN "NO_PATH" ELSE "NO_FILE"
           b == ButNoFile(g, r)
<1>1. FollowPass(v, path, k) \in { e, b }
  BY DEF FollowPass, Then
<1>2. DirStays(v, e) /\ VolumeOK(e) /\ DirOK(e.dir)
  <2>1. DirStays(v, v) /\ DirStays(v, f)
    BY DirSame, FailsDir
  <2>2. DirStays(v, s)
    <3> HIDE DEF x
    <3> QED
      BY StartStays
  <2>3. e \in { v, f, s }
    OBVIOUS
  <2> HIDE DEF e, s, f
  <2> QED
    BY <2>1, <2>2, <2>3, DirTwice
<1> HIDE DEF e
<1>3. DirStays(e, g) /\ VolumeOK(g) /\ DirOK(g.dir)
  <2> HIDE DEF name
  <2> QED
    BY <1>2, FindStays, DirTwice
<1> HIDE DEF g, r
<1>4. DirStays(g, b)
  BY <1>3, ButNoFileStays
<1> HIDE DEF b
<1>5. DirStays(e, b)
  BY <1>3, <1>4, DirTwice
<1> QED
  BY <1>1, <1>2, <1>5, DirTwice

\* followPath (2073).
LEMMA FollowPathStays ==
  ASSUME NEW v, VolumeOK(v), NEW path \in Seq(STRING)
  PROVE  DirStays(v, FollowPath(v, path))
<1> DEFINE v0 == [ v EXCEPT !.dir = NoDir, !.result = "OK" ]
           u(k) == Walking!Passes(v0, path)[k]
           T == { k \in Nat : DirStays(v, u(k)) }
<1>1. FollowPath(v, path) = u(Len(path)) /\ Len(path) \in Nat
  BY DEF FollowPath
<1>2. u(0) = v0 /\ \A k \in Nat : u(k + 1) = FollowPass(u(k), path, k + 1)
  BY Walking!PassByPass
<1>3. DirStays(v, v0)
  <2>1. v0 = [ f \in DOMAIN v0 |-> v0[f] ] /\ SameBut(v, v0, { "dir", "result" }) /\ v0.dir = NoDir
    BY Fields DEF SameBut, VolumeFields, TableFields
  <2> HIDE DEF v0
  <2> QED
    BY <2>1, DirSet, DirFields DEF SameBut, OuterFields
<1> HIDE DEF u, v0
<1>4. 0 \in T
  BY <1>2, <1>3
<1>5. ASSUME NEW k \in Nat, k \in T PROVE k + 1 \in T
  <2>1. DirStays(v, u(k))
    BY <1>5
  <2>2. DirStays(u(k), u(k + 1))
    BY <1>2, <2>1, DirTwice, FollowPassStays
  <2> QED
    BY <2>1, <2>2, DirTwice
<1>6. Nat \subseteq T
  <2> HIDE DEF T
  <2> QED
    BY <1>4, <1>5, Walking!Upwards
<1> QED
  BY <1>1, <1>6

\* followPath as the methods of cFatFs call it.
LEMMA WalkStays ==
  ASSUME NEW v, VolumeOK(v), NEW path \in Seq(STRING)
  PROVE  DirStays(v, Walk(v, path)) /\ Walk(v, path).result = "OK"
<1> DEFINE w == FollowPath(v, path)
           x == w.result = "OK"
           y == w.result # "OK" /\ ~OnBlank(w)
           z == [ w EXCEPT !.result = "OK", !.found = x, !.misled = @ \/ y ]
<1>1. Walk(v, path) = z
  BY DEF Walk, With
<1>2. DirStays(v, w) /\ VolumeOK(w) /\ DirOK(w.dir)
  BY FollowPathStays, DirTwice
<1> HIDE DEF w, x, y
<1>3. z = [ f \in DOMAIN z |-> z[f] ] /\ SameBut(w, z, { "result", "found", "misled" }) /\ z.result = "OK"
      /\ z.dir = w.dir
  BY <1>2, Fields DEF SameBut, VolumeFields, TableFields
<1> HIDE DEF z
<1>4. DirStays(w, z)
  BY <1>2, <1>3, DirSet DEF SameBut, OuterFields
<1> QED
  BY <1>1, <1>2, <1>3, <1>4, DirTwice

-----------------------------------------------------------------------------
(* The methods on names. *)

LEMMA FreeStays ==
  ASSUME NEW v, VolumeOK(v), DirOK(v.dir)
  PROVE  DirStays(v, Free(v))
  BY DirSame, FailsDir DEF Free

\* The look into the sub-directory that unlink makes (942).
LEMMA IfEmptyStays ==
  ASSUME NEW v, VolumeOK(v), DirOK(v.dir), NEW e
  PROVE  DirStays(v, IfEmpty(v, e))
<1> DEFINE start == e.start
           v0 == [ v EXCEPT !.dir.start = start ]
           s == SetIndex(v0, 2)
           r == ReadEntry(s, FALSE)
           w == IF s.result = "OK" THEN r ELSE s
           b == [ w EXCEPT !.dir = v.dir ]
<1>1. IfEmpty(v, e) \in { v, TimesOut(b) }
  BY DEF IfEmpty, Then
<1> HIDE DEF start
<1>2. DirStays(v, v0) /\ VolumeOK(v0) /\ DirOK(v0.dir)
  BY StartStays, DirTwice
<1> HIDE DEF v0
<1>3. DirStays(v, s) /\ VolumeOK(s) /\ DirOK(s.dir)
  BY <1>2, SetIndexStays, DirTwice
<1> HIDE DEF s
<1>4. DirStays(v, r)
  BY <1>3, ReadEntryStays, DirTwice
<1> HIDE DEF r
<1>5. DirStays(v, w) /\ VolumeOK(w)
  BY <1>3, <1>4, DirTwice
<1> HIDE DEF w
<1>6. DirStays(v, b) /\ VolumeOK(b) /\ DirOK(b.dir)
  BY <1>5, DirPut, DirTwice
<1> HIDE DEF b
<1>7. DirStays(v, TimesOut(b))
  BY <1>6, FailsDir, DirTwice DEF TimesOut
<1> QED
  BY <1>1, <1>7, DirSame

LEMMA FreeChainStays ==
  ASSUME NEW v, VolumeOK(v), DirOK(v.dir), NEW e
  PROVE  DirStays(v, FreeChain(v, e))
<1> DEFINE w == RemoveChain(v, e.start)
<1>1. Stays(v, w) /\ SameBut(v, w, ChainFields)
  BY RemoveChainStays
<1> HIDE DEF w
<1>2. DirStays(v, w)
  BY <1>1, TableKeepsDir
<1> QED
  BY <1>2, DirSame DEF FreeChain, w

LEMMA SyncFsDir ==
  ASSUME NEW v, VolumeOK(v), DirOK(v.dir)
  PROVE  DirStays(v, SyncFs(v))
<1> DEFINE w == SyncFs(v)
<1>1. Stays(v, w) /\ SameBut(v, w, ChainFields)
  BY SyncFsStays
<1> HIDE DEF w
<1> QED
  BY <1>1, TableKeepsDir DEF w

\* An entry is changed, and all written.
LEMMA MarkSyncStays ==
  ASSUME NEW v, VolumeOK(v), DirOK(v.dir), NEW e, EntryOK(e)
  PROVE  DirStays(v, SyncFs(Mark(v, e)))
<1> DEFINE m == Mark(v, e)
<1>1. DirStays(v, m) /\ VolumeOK(m) /\ DirOK(m.dir)
  BY MarkStays, DirTwice
<1> HIDE DEF m
<1>2. DirStays(v, SyncFs(m))
  BY <1>1, SyncFsDir, DirTwice
<1> QED
  BY <1>2 DEF m

\* unlink (918).
LEMMA UnlinkStays ==
  ASSUME NEW v, VolumeOK(v), NEW path \in Seq(STRING)
  PROVE  DirStays(v, Unlink(v, path))
<1> DEFINE a == Walk(v, path)
           f == Free(a)
           p == IF f.result = "OK" THEN IF Shown(f).readOnly THEN Fails(f, "DENIED") ELSE f ELSE f
           e == Shown(p)
           i == IfEmpty(p, e)
           r == IF i.result = "OK" THEN Remove(i) ELSE i
           c == IF r.result = "OK" THEN FreeChain(r, e) ELSE r
           s == IF c.result = "OK" THEN SyncFs(c) ELSE c
<1>1. Unlink(v, path) \in { p, s }
  BY DEF Unlink, Then
<1>2. DirStays(v, a) /\ VolumeOK(a) /\ DirOK(a.dir)
  BY WalkStays, DirTwice
<1> HIDE DEF a
<1>3. DirStays(v, f) /\ VolumeOK(f) /\ DirOK(f.dir)
  BY <1>2, FreeStays, DirTwice
<1> HIDE DEF f
<1>4. DirStays(v, p) /\ VolumeOK(p) /\ DirOK(p.dir)
  <2>1. DirStays(v, Fails(f, "DENIED"))
    BY <1>3, FailsDir, DirTwice
  <2>2. DirStays(v, p)
    BY <1>3, <2>1
  <2> HIDE DEF p
  <2> QED
    BY <2>2, DirTwice
<1> HIDE DEF p, e
<1>5. DirStays(v, i) /\ VolumeOK(i) /\ DirOK(i.dir)
  BY <1>4, IfEmptyStays, DirTwice
<1> HIDE DEF i
<1>6. DirStays(v, r) /\ VolumeOK(r) /\ DirOK(r.dir)
  <2>1. DirStays(v, Remove(i))
    BY <1>5, RemoveStays, DirTwice
  <2>2. DirStays(v, r)
    BY <1>5, <2>1
  <2> HIDE DEF r
  <2> QED
    BY <2>2, DirTwice
<1> HIDE DEF r
<1>7. DirStays(v, c) /\ VolumeOK(c) /\ DirOK(c.dir)
  <2>1. DirStays(v, FreeChain(r, e))
    BY <1>6, FreeChainStays, DirTwice
  <2>2. DirStays(v, c)
    BY <1>6, <2>1
  <2> HIDE DEF c
  <2> QED
    BY <2>2, DirTwice
<1> HIDE DEF c
<1>8. DirStays(v, s)
  BY <1>7, SyncFsDir, DirTwice
<1> QED
  BY <1>1, <1>4, <1>8

\* changeAttributes (840).
LEMMA ChangeAttributesStays ==
  ASSUME NEW v, VolumeOK(v), NEW path \in Seq(STRING), NEW b
  PROVE  DirStays(v, ChangeAttributes(v, path, b))
<1> DEFINE w == Walk(v, path)
           e == [ Shown(w) EXCEPT !.readOnly = b ]
<1>1. ChangeAttributes(v, path, b) = SyncFs(Mark(w, e))
  BY DEF ChangeAttributes, With
<1>2. DirStays(v, w) /\ VolumeOK(w) /\ DirOK(w.dir)
  BY WalkStays, DirTwice
<1> HIDE DEF w
<1>3. EntryOK(e)
  BY <1>2, ShownOK, SimpleEntries
<1> HIDE DEF e
<1> QED
  BY <1>1, <1>2, <1>3, MarkSyncStays, DirTwice

\* utime (889).
LEMMA UtimeStays ==
  ASSUME NEW v, VolumeOK(v), NEW path \in Seq(STRING)
  PROVE  DirStays(v, Utime(v, path))
<1> DEFINE w == Walk(v, path)
<1>1. Utime(v, path) = SyncFs(Mark(w, Shown(w)))
  BY DEF Utime, With
<1>2. DirStays(v, w) /\ VolumeOK(w) /\ DirOK(w.dir)
  BY WalkStays, DirTwice
<1> HIDE DEF w
<1> QED
  BY <1>1, <1>2, ShownOK, MarkSyncStays, DirTwice

\* makeSubDirectory (690).
LEMMA MakeSubDirectoryStays ==
  ASSUME NEW v, VolumeOK(v), NEW path \in Seq(STRING)
  PROVE  DirStays(v, MakeSubDirectory(v, path))
<1> DEFINE w == Walk(v, path)
<1>1. MakeSubDirectory(v, path) \in { w, Fails(w, "EXIST") }
  BY DEF MakeSubDirectory, With
<1>2. DirStays(v, w) /\ VolumeOK(w) /\ DirOK(w.dir)
  BY WalkStays, DirTwice
<1> HIDE DEF w
<1> QED
  BY <1>1, <1>2, FailsDir, DirTwice

\* rename (769).
LEMMA RenameStays ==
  ASSUME NEW v, VolumeOK(v), NEW path \in Seq(STRING), NEW new \in Seq(STRING)
  PROVE  DirStays(v, Rename(v, path, new))
<1> DEFINE w == Walk(v, path)
           f == Free(w)
           n == Walk(f, new)
<1>1. Rename(v, path, new) \in { TimesOut(f), TimesOut(n) }
  BY DEF Rename, Then
<1>2. DirStays(v, w) /\ VolumeOK(w) /\ DirOK(w.dir)
  BY WalkStays, DirTwice
<1> HIDE DEF w
<1>3. DirStays(v, f) /\ VolumeOK(f) /\ DirOK(f.dir)
  BY <1>2, FreeStays, DirTwice
<1> HIDE DEF f
<1>4. DirStays(v, n) /\ VolumeOK(n) /\ DirOK(n.dir)
  BY <1>3, WalkStays, DirTwice
<1> HIDE DEF n
<1> QED
  BY <1>1, <1>3, <1>4, FailsDir, DirTwice DEF TimesOut

\* setLabel (976).
LEMMA SetLabelStays ==
  ASSUME NEW v, VolumeOK(v), NEW set
  PROVE  DirStaysOrFails(v, SetLabel(v, set))
<1> DEFINE label == Entry("label", "label", 0, 0)
           v0 == [ v EXCEPT !.dir = NoDir ]
           s == SetIndex(v0, 0)
           w == IF s.result = "OK" THEN ReadEntry(s, TRUE) ELSE s
           e == IF set THEN label ELSE Deleted
           m == SyncFs(Mark(w, e))
           a == Allocate(w)
           n == SyncFs(Mark(a, label))
<1>1. SetLabel(v, set) \in { m, IF a.result = "OK" THEN n ELSE a, Fails(w, "OK"), w }
  BY DEF SetLabel, With, Then
<1>2. DirStays(v, v0) /\ VolumeOK(v0) /\ DirOK(v0.dir)
  BY DirPut, DirFields, DirTwice
<1> HIDE DEF v0
<1>3. DirStays(v, s) /\ VolumeOK(s) /\ DirOK(s.dir)
  BY <1>2, SetIndexStays, DirTwice
<1> HIDE DEF s
<1>4. DirStays(v, w) /\ VolumeOK(w) /\ DirOK(w.dir)
  <2>1. DirStays(v, ReadEntry(s, TRUE))
    BY <1>3, ReadEntryStays, DirTwice
  <2>2. DirStays(v, w)
    BY <1>3, <2>1
  <2> HIDE DEF w
  <2> QED
    BY <2>2, DirTwice
<1> HIDE DEF w
<1>5. DirStays(v, m)
  <2>1. EntryOK(e)
    BY SimpleEntries
  <2> HIDE DEF e
  <2> QED
    BY <1>4, <2>1, MarkSyncStays, DirTwice
<1> HIDE DEF m
<1>6. DirStays(v, Fails(w, "OK"))
  BY <1>4, FailsDir, DirTwice
<1>7. DirStaysOrFails(v, a) /\ (a.result = "OK" => DirStaysOrFails(v, n))
  <2>1. DirStaysOrFails(v, a)
    BY <1>4, AllocateStays, DirTwice
  <2> HIDE DEF a
  <2>2. ASSUME a.result = "OK" PROVE DirStaysOrFails(v, n)
    <3>1. VolumeOK(a) /\ DirOK(a.dir)
      BY <2>1 DEF DirStaysOrFails, StaysOrFails
    <3>2. DirStays(a, n)
      <4> HIDE DEF label
      <4>1. EntryOK(label)
        BY SimpleEntries DEF label
      <4> QED
        BY <3>1, <4>1, MarkSyncStays
    <3> HIDE DEF n
    <3> QED
      BY <2>1, <2>2, <3>2, DirOrFailsTwice
  <2> QED
    BY <2>1, <2>2
<1> HIDE DEF a, n
<1> QED
  BY <1>1, <1>4, <1>5, <1>6, <1>7, DirIsDirOrFails

-----------------------------------------------------------------------------
(* Open files. *)

\* What holds of an object in the middle of a call, and after one that failed.
LooseOK(o) ==
  /\ HasFields(o, DOMAIN Closed)
  /\ o.start \in Clusters \cup { 0 }
  /\ o.position \in Nat /\ o.size \in Nat
  /\ o.cached \in DataSectors \cup { NoSector }
  /\ o.units \in UnitsOK
  /\ o.dirty \in BOOLEAN /\ o.write \in BOOLEAN /\ o.open \in BOOLEAN

\* A method of cFile leaves the volume as it should be, with an object.
FileStays(v, w) == Stays(v, w) /\ LooseOK(w.o)
FileStaysOrFails(v, w) == StaysOrFails(v, w) /\ LooseOK(w.o)

LEMMA ClosedFields ==
  DOMAIN Closed = { "open", "write", "key", "start", "size", "position", "cluster", "cached", "units",
                    "dirty", "written", "dirSector", "ownSector", "slot", "result", "shortened" }
  BY DEF Closed

LEMMA FileUnits ==
  /\ UnitsPerSector \in Nat \ {0} /\ SectorsPerCluster \in Nat \ {0} /\ UnitsPerCluster \in Nat \ {0}
  /\ NoUnits \in UnitsOK
<1>1. UnitsPerSector \in Nat \ {0} /\ SectorsPerCluster \in Nat \ {0}
  BY FileAssumption, TableAssumption
<1>2. UnitsPerCluster \in Nat \ {0}
  BY <1>1 DEF UnitsPerCluster
<1>3. NoUnits \in UnitsOK
  BY DEF NoUnits, UnitsOK
<1> QED
  BY <1>1, <1>2, <1>3

LEMMA ClosedOK == LooseOK(Closed) /\ ObjectOK(Closed)
  BY FileUnits DEF LooseOK, ObjectOK, Closed, HasFields

\* An object whose call failed may have a position beyond its size.
LEMMA LooseAndResult ==
  ASSUME NEW o
  PROVE  ObjectOK(o) <=> LooseOK(o) /\ (o.result = "OK" => o.position <= o.size)
  BY DEF ObjectOK, LooseOK

LEMMA FileTwice ==
  ASSUME NEW v, NEW u, FileStays(v, u), NEW w
  PROVE  /\ VolumeOK(u) /\ LooseOK(u.o)
         /\ FileStays(u, w) => FileStays(v, w)
         /\ FileStaysOrFails(u, w) => FileStaysOrFails(v, w)
  BY StaysAgain DEF FileStays, FileStaysOrFails, Stays

\* What is done after an error is nothing.
LEMMA FileOrFailsTwice ==
  ASSUME NEW v, NEW u, FileStaysOrFails(v, u), u.result \notin Errors, NEW w
  PROVE  /\ VolumeOK(u) /\ LooseOK(u.o)
         /\ FileStays(u, w) => FileStaysOrFails(v, w)
         /\ FileStaysOrFails(u, w) => FileStaysOrFails(v, w)
  BY OrFailsAgain DEF FileStays, FileStaysOrFails, StaysOrFails

LEMMA FileIsFileOrFails ==
  ASSUME NEW v, NEW w, FileStays(v, w)
  PROVE  FileStaysOrFails(v, w)
  BY StaysIsEnds DEF FileStays, FileStaysOrFails

LEMMA FileSame ==
  ASSUME NEW v, VolumeOK(v), LooseOK(v.o)
  PROVE  FileStays(v, v)
  BY DEF FileStays, Stays

\* The object, the result, and the data are changed.
LEMMA FileSet ==
  ASSUME NEW v, VolumeOK(v), NEW w, w = [ f \in DOMAIN w |-> w[f] ], SameBut(v, w, OuterFields), LooseOK(w.o)
  PROVE  FileStays(v, w) /\ VolumeOK(w)
  BY OuterStays DEF FileStays

LEMMA FailsFile ==
  ASSUME NEW v, VolumeOK(v), LooseOK(v.o), NEW r
  PROVE  LET w == Fails(v, r)
         IN  /\ FileStays(v, w) /\ VolumeOK(w) /\ LooseOK(w.o)
             /\ w.o = v.o /\ w.data = v.data /\ w.value = v.value /\ w.result = r /\ w.disk = v.disk
<1> DEFINE w == Fails(v, r)
<1>1. VolumeOK(w) /\ Stays(v, w) /\ SameBut(v, w, { "result" }) /\ w.result = r
  BY FailsStays
<1> HIDE DEF w
<1>2. w.o = v.o /\ w.data = v.data /\ w.value = v.value /\ w.disk = v.disk
  BY <1>1, Fields DEF SameBut, VolumeFields, TableFields
<1> QED
  BY <1>1, <1>2 DEF FileStays, w

LEMMA GivesFile ==
  ASSUME NEW v, VolumeOK(v), LooseOK(v.o), NEW x
  PROVE  LET w == Gives(v, x)
         IN  /\ FileStays(v, w) /\ VolumeOK(w) /\ LooseOK(w.o)
             /\ w.o = v.o /\ w.data = v.data /\ w.value = x /\ w.result = v.result
<1> DEFINE w == Gives(v, x)
<1>1. VolumeOK(w) /\ Stays(v, w) /\ SameBut(v, w, { "value" }) /\ w.value = x
  BY GivesStays
<1> HIDE DEF w
<1>2. w.o = v.o /\ w.data = v.data /\ w.result = v.result
  BY <1>1, Fields DEF SameBut, VolumeFields, TableFields
<1> QED
  BY <1>1, <1>2 DEF FileStays, w

LEMMA TableKeepsFile ==
  ASSUME NEW v, VolumeOK(v), LooseOK(v.o), NEW w, Stays(v, w), SameBut(v, w, ChainFields)
  PROVE  FileStays(v, w) /\ VolumeOK(w) /\ w.o = v.o /\ w.data = v.data
  BY RestIsKept DEF FileStays, Stays

-----------------------------------------------------------------------------
(* The data path. *)

LEMMA DiskReadStays ==
  ASSUME NEW v, VolumeOK(v), NEW s
  PROVE  LET w == DiskRead(v, s)
         IN  /\ Stays(v, w) /\ VolumeOK(w) /\ SameBut(v, w, { "fuse", "result" })
             /\ w.result \in { "OK", "DISK_ERR" }
             /\ w.result = "OK" => s \in Sectors
<1> DEFINE r == IF (BurnsOut(v) /\ v.fault = "error") \/ s \notin Sectors THEN "DISK_ERR" ELSE "OK"
           b == IF v.fault = "error" THEN Burn(v) ELSE v
           w == DiskRead(v, s)
<1> SUFFICES /\ Stays(v, w) /\ VolumeOK(w) /\ SameBut(v, w, { "fuse", "result" })
             /\ w.result \in { "OK", "DISK_ERR" }
             /\ w.result = "OK" => s \in Sectors
  OBVIOUS
<1>1. w = Fails(b, r)
  BY DEF DiskRead
<1>2. b = [ f \in DOMAIN b |-> b[f] ] /\ SameBut(v, b, { "fuse" }) /\ b.fuse \in Nat
  <2>1. v.fuse \in Nat
    BY DEF VolumeOK, IsVolume
  <2> QED
    BY <2>1, Fields DEF Burn, SameBut, TableFields
<1> HIDE DEF w, b
<1>3. w = [ f \in DOMAIN w |-> w[f] ] /\ SameBut(b, w, { "result" }) /\ w.result = r
  BY <1>1, <1>2, Fields DEF Fails, SameBut, TableFields
<1>4. SameBut(v, w, { "fuse", "result" }) /\ w.fuse = b.fuse
  BY <1>2, <1>3, Fields DEF SameBut, TableFields
<1>5. /\ VolumeFields \subseteq DOMAIN v /\ DOMAIN w = DOMAIN v
      /\ w.disk = v.disk /\ w.sector = v.sector /\ w.buffer = v.buffer /\ w.dirty = v.dirty
      /\ w.free = v.free /\ w.fsInfoDirty = v.fsInfoDirty /\ w.dead = v.dead /\ w.fault = v.fault
  BY <1>4, Fields DEF SameBut, VolumeFields, TableFields
<1>6. VolumeOK(w)
  BY <1>2, <1>3, <1>4, <1>5 DEF VolumeOK, IsVolume, HasFields
<1>7. Stays(v, w)
  <2>1. Logical(w) = Logical(v)
    BY <1>5 DEF Logical
  <2> QED
    BY <1>5, <1>6, <2>1 DEF Stays, Right, Accurate, Informed
<1> QED
  BY <1>3, <1>4, <1>6, <1>7

LEMMA UnitsBelong ==
  ASSUME NEW s \in DataSectors \cup { NoSector }, NEW u \in UnitsOK
  PROVE  Belongs(s, Units(u))
<1>1. s \notin FatSectors /\ s # FsInfoSector
  BY SectorPlaces
<1> QED
  BY <1>1 DEF Belongs, HasFields, Units

LEMMA CardUnits ==
  ASSUME NEW v, VolumeOK(v), NEW s \in DataSectors
  PROVE  UnitsOf(v.disk[s]) \in UnitsOK
<1>1. Belongs(s, v.disk[s])
  BY SectorPlaces DEF VolumeOK
<1> QED
  BY <1>1, FileUnits DEF Belongs, UnitsOf

\* The cached sector goes to the card (2898).
LEMMA WriteBackStays ==
  ASSUME NEW v, VolumeOK(v), LooseOK(v.o)
  PROVE  LET w == WriteBack(v)
         IN  /\ FileStays(v, w) /\ VolumeOK(w) /\ LooseOK(w.o)
             /\ SameBut(v.o, w.o, { "dirty" }) /\ w.data = v.data /\ w.value = v.value
<1> DEFINE b == Units(v.o.units)
           d == DiskWrite(v, v.o.cached, b)
           x == [ d EXCEPT !.o.dirty = FALSE ]
           w == WriteBack(v)
<1> SUFFICES FileStays(v, w) /\ SameBut(v.o, w.o, { "dirty" }) /\ w.data = v.data /\ w.value = v.value
  BY FileTwice
<1>1. w \in { Fails(v, "OK"), d, x }
  BY DEF WriteBack, Then
<1> HIDE DEF w
<1>2. FileStays(v, d) /\ VolumeOK(d) /\ d.o = v.o /\ d.data = v.data /\ d.value = v.value
  <2>1. v.o.cached \in DataSectors \cup { NoSector } /\ v.o.units \in UnitsOK
    BY DEF LooseOK
  <2>2. Belongs(v.o.cached, b)
    BY <2>1, UnitsBelong
  <2> HIDE DEF b
  <2>3. Stays(v, d) /\ VolumeOK(d) /\ SameBut(v, d, { "disk", "fuse", "dead", "result" })
    BY <2>1, <2>2, DataWriteStays
  <2> HIDE DEF d
  <2>4. d.o = v.o /\ d.data = v.data /\ d.value = v.value
    BY <2>3, Fields DEF SameBut, VolumeFields, TableFields
  <2> QED
    BY <2>3, <2>4 DEF FileStays
<1> HIDE DEF d
<1>3. FileStays(v, x) /\ SameBut(v.o, x.o, { "dirty" }) /\ x.data = v.data /\ x.value = v.value
  <2>1. /\ x = [ f \in DOMAIN x |-> x[f] ] /\ SameBut(d, x, { "o" })
        /\ x.o = [ v.o EXCEPT !.dirty = FALSE ] /\ x.data = v.data /\ x.value = v.value
    BY <1>2, Fields DEF SameBut, VolumeFields, TableFields
  <2> HIDE DEF x
  <2>2. LooseOK(x.o) /\ SameBut(v.o, x.o, { "dirty" })
    BY <2>1, ClosedFields DEF LooseOK, HasFields, SameBut
  <2> QED
    BY <1>2, <2>1, <2>2, FileSet, FileTwice DEF SameBut, OuterFields
<1>4. SameBut(v.o, v.o, { "dirty" })
  BY DEF SameBut
<1> HIDE DEF x
<1> QED
  BY <1>1, <1>2, <1>3, <1>4, FailsFile

\* A sector comes into the cache (2905).
LEMMA FillStays ==
  ASSUME NEW v, VolumeOK(v), LooseOK(v.o), NEW s \in DataSectors \cup { NoSector }
  PROVE  LET w == Fill(v, s)
         IN  /\ FileStays(v, w) /\ VolumeOK(w) /\ LooseOK(w.o)
             /\ SameBut(v.o, w.o, { "units", "cached" }) /\ w.data = v.data
<1> DEFINE d == DiskRead(v, s)
           u == UnitsOf(v.disk[s])
           x == [ d EXCEPT !.o.units = u, !.o.cached = s ]
           w == Fill(v, s)
<1> SUFFICES FileStays(v, w) /\ SameBut(v.o, w.o, { "units", "cached" }) /\ w.data = v.data
  BY FileTwice
<1>1. w = IF d.result = "OK" THEN x ELSE d
  BY DEF Fill, Then
<1> HIDE DEF w
<1>2. FileStays(v, d) /\ VolumeOK(d) /\ d.o = v.o /\ d.data = v.data /\ (d.result = "OK" => s \in Sectors)
  <2>1. Stays(v, d) /\ VolumeOK(d) /\ SameBut(v, d, { "fuse", "result" }) /\ (d.result = "OK" => s \in Sectors)
    BY DiskReadStays
  <2> HIDE DEF d
  <2>2. d.o = v.o /\ d.data = v.data
    BY <2>1, Fields DEF SameBut, VolumeFields, TableFields
  <2> QED
    BY <2>1, <2>2 DEF FileStays
<1> HIDE DEF d
<1>3. ASSUME d.result = "OK"
      PROVE  FileStays(v, x) /\ SameBut(v.o, x.o, { "units", "cached" }) /\ x.data = v.data
  <2>1. s \in DataSectors
    BY <1>2, <1>3, SectorPlaces
  <2>2. u \in UnitsOK
    BY <2>1, CardUnits
  <2> HIDE DEF u
  <2>3. /\ x = [ f \in DOMAIN x |-> x[f] ] /\ SameBut(d, x, { "o" })
        /\ x.o = [ v.o EXCEPT !.units = u, !.cached = s ] /\ x.data = v.data
    BY <1>2, Fields DEF SameBut, VolumeFields, TableFields
  <2> HIDE DEF x
  <2>4. LooseOK(x.o) /\ SameBut(v.o, x.o, { "units", "cached" })
    <3>1. HasFields(v.o, DOMAIN Closed)
      BY DEF LooseOK
    <3>2. /\ x.o = [ f \in DOMAIN x.o |-> x.o[f] ] /\ SameBut(v.o, x.o, { "units", "cached" })
          /\ x.o.units = u /\ x.o.cached = s
      BY <2>3, <3>1, ClosedFields DEF HasFields, SameBut
    <3>3. HasFields(x.o, DOMAIN Closed)
      BY <3>1, <3>2 DEF HasFields, SameBut
    <3>4. /\ x.o.start = v.o.start /\ x.o.position = v.o.position /\ x.o.size = v.o.size
          /\ x.o.dirty = v.o.dirty /\ x.o.write = v.o.write /\ x.o.open = v.o.open
      BY <3>1, <3>2, ClosedFields DEF HasFields, SameBut
    <3> QED
      BY <2>1, <2>2, <3>2, <3>3, <3>4 DEF LooseOK
  <2> QED
    BY <1>2, <2>3, <2>4, FileSet, FileTwice DEF SameBut, OuterFields
<1>4. SameBut(v.o, v.o, { "units", "cached" })
  BY DEF SameBut
<1> QED
  BY <1>1, <1>2, <1>3, <1>4

\* A position has a sector within its cluster, and a unit within its sector.
LEMMA PlaceInFile ==
  ASSUME NEW position \in Nat
  PROVE  /\ UnitIndex(position) \in 1 .. UnitsPerSector
         /\ SectorInFile(position) \in 0 .. SectorsPerCluster - 1
<1> DEFINE U == UnitsPerSector
           S == SectorsPerCluster
<1>1. U \in Nat \ {0} /\ S \in Nat \ {0}
  BY FileUnits
<1> HIDE DEF U, S
<1>2. position % U \in 0 .. U - 1 /\ position \div U \in Nat
  BY <1>1
<1>3. (position \div U) % S \in 0 .. S - 1
  BY <1>1, <1>2
<1> QED
  BY <1>1, <1>2, <1>3 DEF UnitIndex, SectorInFile, U, S

LEMMA CurrentPlace ==
  ASSUME NEW o, LooseOK(o)
  PROVE  CurrentSector(o) \in DataSectors \cup { 0 }
  BY PlaceInFile, ClusterPlaces DEF LooseOK, CurrentSector

\* The number of a cluster, or one that stands for an error, is put into the object.
LEMMA EnterClusterStays ==
  ASSUME NEW v, VolumeOK(v), LooseOK(v.o)
  PROVE  LET w == EnterCluster(v)
         IN  /\ FileStays(v, w) /\ VolumeOK(w) /\ LooseOK(w.o)
             /\ SameBut(v.o, w.o, { "cluster" }) /\ w.data = v.data /\ w.value = v.value
             /\ w.result \in Errors \/ (w.result = "OK" /\ ~(v.value < 2) /\ v.value # Ones)
             /\ v.value \in { 0, 1, Ones } => w.result \in Errors
<1> DEFINE w == EnterCluster(v)
           x == [ v EXCEPT !.o.cluster = v.value, !.result = "OK" ]
           P(u) == /\ FileStays(v, u) /\ VolumeOK(u) /\ LooseOK(u.o)
                   /\ SameBut(v.o, u.o, { "cluster" }) /\ u.data = v.data /\ u.value = v.value
<1>1. P(x) /\ x.result = "OK"
  <2>1. /\ x = [ f \in DOMAIN x |-> x[f] ] /\ SameBut(v, x, { "o", "result" }) /\ x.result = "OK"
        /\ x.o = [ v.o EXCEPT !.cluster = v.value ] /\ x.data = v.data /\ x.value = v.value
    BY Fields DEF SameBut, VolumeFields, TableFields
  <2> HIDE DEF x
  <2>2. LooseOK(x.o) /\ SameBut(v.o, x.o, { "cluster" })
    BY <2>1, ClosedFields DEF LooseOK, HasFields, SameBut
  <2> QED
    BY <2>1, <2>2, FileSet DEF SameBut, OuterFields
<1>2. \A r : P(Fails(v, r)) /\ Fails(v, r).result = r
  <2>1. SameBut(v.o, v.o, { "cluster" })
    BY DEF SameBut
  <2> QED
    BY <2>1, FailsFile
<1>3. \/ v.value < 2 /\ w = Fails(v, "INT_ERR")
      \/ v.value = Ones /\ w = Fails(v, "DISK_ERR")
      \/ ~(v.value < 2) /\ v.value # Ones /\ w = x
  <2> HIDE DEF x
  <2>1. w = CASE v.value < 2    -> Fails(v, "INT_ERR")
              [] v.value = Ones -> Fails(v, "DISK_ERR")
              [] OTHER          -> x
    BY DEF EnterCluster, x
  <2> HIDE DEF w
  <2> QED
    BY <2>1
<1>4. v.value \in { 0, 1, Ones } => v.value < 2 \/ v.value = Ones
  OBVIOUS
<1> HIDE DEF x, w, P
<1>5. P(w) /\ (w.result \in Errors \/ (w.result = "OK" /\ ~(v.value < 2) /\ v.value # Ones))
      /\ (v.value \in { 0, 1, Ones } => w.result \in Errors)
  <2>1. CASE v.value < 2 /\ w = Fails(v, "INT_ERR")
    BY <1>2, <2>1, NoErrors
  <2>2. CASE v.value = Ones /\ w = Fails(v, "DISK_ERR")
    BY <1>2, <2>2, NoErrors
  <2>3. CASE ~(v.value < 2) /\ v.value # Ones /\ w = x
    BY <1>1, <1>4, <2>3
  <2> QED
    BY <1>3, <2>1, <2>2, <2>3
<1> QED
  BY <1>5 DEF P, w

\* read on a cluster boundary (2851).
LEMMA ReadClusterStays ==
  ASSUME NEW v, VolumeOK(v), LooseOK(v.o)
  PROVE  LET w == ReadCluster(v)
         IN  /\ FileStays(v, w) /\ VolumeOK(w) /\ LooseOK(w.o)
             /\ SameBut(v.o, w.o, { "cluster" })
<1> DEFINE g == GetFat(v, v.o.cluster)
           s == Gives(v, v.o.start)
           c == IF v.o.position = 0 THEN s ELSE g
           e == EnterCluster(c)
           w == ReadCluster(v)
<1>1. w \in { Fails(v, "OK"), e }
  BY DEF ReadCluster
<1>2. FileStays(v, g) /\ VolumeOK(g) /\ g.o = v.o
  <2>1. Stays(v, g) /\ SameBut(v, g, WindowFields \cup { "value" })
    BY GetFatStays
  <2> HIDE DEF g
  <2>2. SameBut(v, g, ChainFields)
    BY <2>1 DEF SameBut, ChainFields
  <2> QED
    BY <2>1, <2>2, TableKeepsFile
<1> HIDE DEF g
<1>3. FileStays(v, s) /\ VolumeOK(s) /\ s.o = v.o
  BY GivesFile DEF LooseOK
<1> HIDE DEF s
<1>4. FileStays(v, c) /\ VolumeOK(c) /\ c.o = v.o
  BY <1>2, <1>3
<1> HIDE DEF c
<1>5. FileStays(c, e) /\ SameBut(c.o, e.o, { "cluster" })
  BY <1>4, EnterClusterStays
<1> HIDE DEF e
<1>6. FileStays(v, e) /\ SameBut(v.o, e.o, { "cluster" }) /\ VolumeOK(e) /\ LooseOK(e.o)
  BY <1>4, <1>5, FileTwice DEF FileStays, Stays
<1>7. SameBut(v.o, v.o, { "cluster" })
  BY DEF SameBut
<1> HIDE DEF w
<1> QED
  BY <1>1, <1>6, <1>7, FailsFile DEF w

\* The fields that reading and writing change.
MoveFields == { "position", "cluster", "cached", "units", "dirty" }

\* The whole sectors of a transfer are no more than asked for, and within the cluster.
LEMMA WholeUnits ==
  ASSUME NEW o, LooseOK(o), NEW n \in Nat
  PROVE  LET whole == WholeSectors(o, n)
         IN  /\ whole \in 0 .. SectorsPerCluster - SectorInFile(o.position)
             /\ whole * UnitsPerSector \in 0 .. n
<1> DEFINE U == UnitsPerSector
           S == SectorsPerCluster
           k == SectorInFile(o.position)
           q == n \div U
           whole == WholeSectors(o, n)
<1>1. U \in Nat \ {0} /\ S \in Nat \ {0} /\ k \in 0 .. S - 1
  BY FileUnits, PlaceInFile DEF LooseOK
<1>2. whole = SmallerOf(q, S - k)
  BY DEF WholeSectors
<1> HIDE DEF k, whole, U, S
<1>3. q \in Nat /\ n = U * q + (n % U) /\ n % U \in 0 .. U - 1
  <2>1. q \in Nat
    BY <1>1
  <2>2. n = U * q + (n % U)
    BY <1>1
  <2>3. n % U \in 0 .. U - 1
    BY <1>1
  <2> QED
    BY <2>1, <2>2, <2>3
<1> HIDE DEF q
<1>4. whole \in 0 .. S - k /\ whole \in 0 .. q
  BY <1>1, <1>2, <1>3 DEF SmallerOf
<1>5. PICK j \in Nat : q = whole + j
  <2>1. q - whole \in Nat /\ q = whole + (q - whole)
    BY <1>3, <1>4
  <2> QED
    BY <2>1
<1>6. U * q = U * whole + U * j /\ U * j \in Nat /\ U * whole \in Nat
  BY <1>1, <1>3, <1>4, <1>5
<1>7. whole * U = U * whole
  BY <1>1, <1>4
<1>8. U * whole \in 0 .. n
  BY <1>1, <1>3, <1>6
<1> QED
  BY <1>4, <1>7, <1>8 DEF whole, U, S, k

\* The part of a sector that a transfer of n units takes.
LEMMA PartUnits ==
  ASSUME NEW p \in Nat, NEW n \in Nat \ {0}
  PROVE  SmallerOf(UnitsPerSector - UnitIndex(p) + 1, n) \in 1 .. n
<1>1. UnitsPerSector \in Nat \ {0} /\ UnitIndex(p) \in 1 .. UnitsPerSector
  BY FileUnits, PlaceInFile
<1> QED
  BY <1>1 DEF SmallerOf

\* The rest of a sector out of the cache (2913).
LEMMA ReadPartStays ==
  ASSUME NEW v, VolumeOK(v), LooseOK(v.o), NEW n \in Nat \ {0}
  PROVE  LET w == ReadPart(v, n)
         IN  /\ FileStays(v, w) /\ VolumeOK(w) /\ LooseOK(w.o)
             /\ SameBut(v.o, w.o, MoveFields)
             /\ w.o.position <= v.o.position + n
<1> DEFINE from == UnitIndex(v.o.position)
           count == SmallerOf(UnitsPerSector - from + 1, n)
           p == v.o.position + count
           y == v.data \o SubSeq(v.o.units, from, from + count - 1)
           w == ReadPart(v, n)
<1>1. w = [ v EXCEPT !.data = y, !.o.position = p ]
  BY Fields, ClosedFields DEF ReadPart, VolumeFields, LooseOK, HasFields
<1>2. p \in Nat /\ p <= v.o.position + n
  <2>1. v.o.position \in Nat
    BY DEF LooseOK
  <2>2. count \in 1 .. n
    BY <2>1, PartUnits
  <2> HIDE DEF count
  <2> QED
    BY <2>1, <2>2
<1> HIDE DEF p, y, w
<1>3. /\ w = [ f \in DOMAIN w |-> w[f] ] /\ SameBut(v, w, { "o", "data" })
      /\ w.o = [ v.o EXCEPT !.position = p ]
  BY <1>1, Fields DEF SameBut, VolumeFields
<1>4. LooseOK(w.o) /\ SameBut(v.o, w.o, { "position" }) /\ w.o.position = p
  BY <1>2, <1>3, ClosedFields DEF LooseOK, HasFields, SameBut
<1>5. SameBut(v.o, w.o, MoveFields)
  BY <1>4 DEF SameBut, MoveFields
<1> QED
  BY <1>2, <1>3, <1>4, <1>5, FileSet DEF SameBut, OuterFields, w

\* Whole sectors straight to the caller (2884).
LEMMA ReadSectorsStays ==
  ASSUME NEW v, VolumeOK(v), LooseOK(v.o), NEW s, NEW n, n * UnitsPerSector \in Nat
  PROVE  LET w == ReadSectors(v, s, n)
         IN  /\ FileStays(v, w) /\ VolumeOK(w) /\ LooseOK(w.o)
             /\ SameBut(v.o, w.o, MoveFields)
             /\ w.o.position <= v.o.position + n * UnitsPerSector
<1> DEFINE d == DiskRead(v, s)
           Cached(t) == v.o.dirty /\ v.o.cached = t
           At(t) == IF Cached(t) THEN v.o.units ELSE UnitsOf(v.disk[t])
           Unit(k) == At(s + (k - 1) \div UnitsPerSector)[UnitIndex(k - 1)]
           y == [ k \in 1 .. n * UnitsPerSector |-> Unit(k) ]
           x == [ d EXCEPT !.data = @ \o y, !.o.position = @ + n * UnitsPerSector ]
           m == n * UnitsPerSector
           w == ReadSectors(v, s, n)
<1> SUFFICES FileStays(v, w) /\ SameBut(v.o, w.o, MoveFields) /\ w.o.position <= v.o.position + m
  BY FileTwice
<1>1. w = IF d.result = "OK" THEN x ELSE d
  BY DEF ReadSectors, Then
<1> HIDE DEF w, y
<1>2. FileStays(v, d) /\ VolumeOK(d) /\ d.o = v.o
  <2>1. Stays(v, d) /\ VolumeOK(d) /\ SameBut(v, d, { "fuse", "result" })
    BY DiskReadStays
  <2> HIDE DEF d
  <2>2. d.o = v.o
    BY <2>1, Fields DEF SameBut, VolumeFields
  <2> QED
    BY <2>1, <2>2 DEF FileStays
<1> HIDE DEF d, m
<1>3. v.o.position \in Nat /\ m \in Nat
  BY DEF LooseOK, m
<1>4. FileStays(v, x) /\ SameBut(v.o, x.o, MoveFields) /\ x.o.position = v.o.position + m
  <2> DEFINE p == v.o.position + m
  <2>1. /\ x = [ f \in DOMAIN x |-> x[f] ] /\ SameBut(d, x, { "o", "data" })
        /\ x.o = [ v.o EXCEPT !.position = p ]
    <3>1. x = [ d EXCEPT !.data = d.data \o y, !.o.position = d.o.position + m ]
      BY DEF m
    <3> HIDE DEF x
    <3> QED
      BY <1>2, <3>1, Fields DEF SameBut, VolumeFields
  <2>2. p \in Nat
    BY <1>3
  <2> HIDE DEF x, p
  <2>3. LooseOK(x.o) /\ SameBut(v.o, x.o, { "position" }) /\ x.o.position = p
    BY <2>1, <2>2, ClosedFields DEF LooseOK, HasFields, SameBut
  <2>4. SameBut(v.o, x.o, MoveFields)
    BY <2>3 DEF SameBut, MoveFields
  <2>5. FileStays(v, x)
    BY <1>2, <2>1, <2>3, FileSet, FileTwice DEF SameBut, OuterFields
  <2> QED
    BY <2>3, <2>4, <2>5 DEF p
<1>5. SameBut(v.o, v.o, MoveFields)
  BY DEF SameBut
<1> HIDE DEF x
<1> QED
  BY <1>1, <1>2, <1>3, <1>4, <1>5

\* From one object to the next, in loops.
LEMMA MovesOn ==
  ASSUME NEW a, LooseOK(a), NEW b, SameBut(a, b, MoveFields)
  PROVE  /\ b.size = a.size /\ b.result = a.result /\ b.write = a.write /\ b.open = a.open /\ b.start = a.start
         /\ \A c : SameBut(b, c, MoveFields) => SameBut(a, c, MoveFields)
  BY ClosedFields DEF SameBut, MoveFields, LooseOK, HasFields

\* read on a sector boundary (2872).
LEMMA ReadAlignedStays ==
  ASSUME NEW v, VolumeOK(v), LooseOK(v.o), NEW n \in Nat \ {0}
  PROVE  LET w == ReadAligned(v, n)
         IN  /\ FileStays(v, w) /\ VolumeOK(w) /\ LooseOK(w.o)
             /\ SameBut(v.o, w.o, MoveFields)
             /\ w.o.position <= v.o.position + n
<1> DEFINE s == CurrentSector(v.o)
           whole == WholeSectors(v.o, n)
           b == WriteBack(v)
           f == Fill(b, s)
           c == IF b.result = "OK" THEN f ELSE b
           e == ReadSectors(v, s, whole)
           w == ReadAligned(v, n)
           P(u) == /\ FileStays(v, u) /\ SameBut(v.o, u.o, MoveFields)
                   /\ u.o.position <= v.o.position + n
<1> SUFFICES P(w)
  BY FileTwice
<1>1. \/ w = Fails(v, "INT_ERR")
      \/ w = e
      \/ w = ReadPart(v, n)
      \/ w = c
      \/ w = ReadPart(c, n)
  BY DEF ReadAligned, Then
<1>1a. s = 0 => w = Fails(v, "INT_ERR")
  BY DEF ReadAligned
<1> HIDE DEF w
<1>2. v.o.position \in Nat /\ s \in DataSectors \cup { 0 }
  BY CurrentPlace DEF LooseOK
<1>3. P(Fails(v, "INT_ERR"))
  <2>1. SameBut(v.o, v.o, MoveFields)
    BY DEF SameBut
  <2>2. FileStays(v, Fails(v, "INT_ERR")) /\ Fails(v, "INT_ERR").o = v.o
    BY FailsFile
  <2> QED
    BY <1>2, <2>1, <2>2
<1>4. P(e)
  <2>1. whole * UnitsPerSector \in 0 .. n
    BY WholeUnits
  <2> HIDE DEF whole, s
  <2>2. FileStays(v, e) /\ SameBut(v.o, e.o, MoveFields) /\ e.o.position <= v.o.position + whole * UnitsPerSector
    BY <2>1, ReadSectorsStays
  <2>3. e.o.position \in Nat
    BY <2>2 DEF FileStays, LooseOK
  <2> HIDE DEF e
  <2> QED
    BY <1>2, <2>1, <2>2, <2>3
<1>5. P(ReadPart(v, n))
  BY ReadPartStays
<1>6. CASE s \in DataSectors
  <2>1. FileStays(v, b) /\ VolumeOK(b) /\ LooseOK(b.o) /\ SameBut(v.o, b.o, MoveFields)
        /\ b.o.position = v.o.position
    <3>1. FileStays(v, b) /\ VolumeOK(b) /\ LooseOK(b.o) /\ SameBut(v.o, b.o, { "dirty" })
      BY WriteBackStays
    <3> HIDE DEF b
    <3> QED
      BY <3>1, ClosedFields DEF SameBut, MoveFields, LooseOK, HasFields
  <2> HIDE DEF b
  <2>2. FileStays(b, f) /\ VolumeOK(f) /\ LooseOK(f.o) /\ SameBut(b.o, f.o, MoveFields)
        /\ f.o.position = b.o.position
    <3>1. FileStays(b, f) /\ VolumeOK(f) /\ LooseOK(f.o) /\ SameBut(b.o, f.o, { "units", "cached" })
      <4> HIDE DEF s
      <4> QED
        BY <1>6, <2>1, FillStays
    <3> HIDE DEF f
    <3> QED
      BY <2>1, <3>1, ClosedFields DEF SameBut, MoveFields, LooseOK, HasFields
  <2> HIDE DEF f
  <2>3. FileStays(v, f) /\ SameBut(v.o, f.o, MoveFields)
    BY <2>1, <2>2, FileTwice, MovesOn
  <2>4. FileStays(v, c) /\ VolumeOK(c) /\ LooseOK(c.o) /\ SameBut(v.o, c.o, MoveFields)
        /\ c.o.position = v.o.position
    BY <2>1, <2>2, <2>3
  <2> HIDE DEF c
  <2>5. P(c)
    BY <1>2, <2>4
  <2>6. P(ReadPart(c, n))
    <3> DEFINE r == ReadPart(c, n)
    <3>1. FileStays(c, r) /\ SameBut(c.o, r.o, MoveFields) /\ r.o.position <= c.o.position + n
      BY <2>4, ReadPartStays
    <3> HIDE DEF r
    <3> QED
      BY <2>4, <3>1, FileTwice, MovesOn DEF r
  <2> HIDE DEF P
  <2> QED
    BY <1>1, <1>3, <1>4, <1>5, <2>5, <2>6
<1>7. CASE s = 0
  <2> HIDE DEF P
  <2> QED
    BY <1>1a, <1>3, <1>7
<1> QED
  BY <1>2, <1>6, <1>7

\* A pass of read (2847): the position moves on, and not past its end.
LEMMA MovePassStays ==
  ASSUME NEW v, VolumeOK(v), LooseOK(v.o), NEW end \in Nat, NEW k,
         v.result = "OK" => v.o.position <= end
  PROVE  LET w == MovePass(v, end, k)
         IN  /\ FileStays(v, w) /\ VolumeOK(w) /\ LooseOK(w.o)
             /\ SameBut(v.o, w.o, MoveFields)
             /\ v.o.position <= end => w.o.position <= end
             /\ w.result = "OK" => w.o.position <= end
<1> DEFINE n == end - v.o.position
           c == ReadCluster(v)
           a == ReadAligned(c, n)
           b == IF c.result = "OK" THEN a ELSE c
           w == MovePass(v, end, k)
           P(u) == FileStays(v, u) /\ SameBut(v.o, u.o, MoveFields) /\ u.o.position <= end
<1>1. v.o.position \in Nat
  BY DEF LooseOK
<1>2. CASE v.result # "OK" \/ n = 0
  <2>1. w = v
    BY <1>2 DEF MovePass
  <2>2. FileStays(v, v) /\ SameBut(v.o, v.o, MoveFields)
    BY FileSame DEF SameBut
  <2> HIDE DEF w
  <2> QED
    BY <2>1, <2>2 DEF w
<1>3. CASE v.result = "OK" /\ n # 0
  <2>1. n \in Nat \ {0} /\ v.o.position + n = end
    BY <1>1, <1>3
  <2>2. w \in { b, ReadPart(v, n) }
    BY <1>3 DEF MovePass, Then
  <2> HIDE DEF w, n
  <2>3. P(ReadPart(v, n))
    BY <2>1, ReadPartStays
  <2>4. FileStays(v, c) /\ VolumeOK(c) /\ LooseOK(c.o) /\ SameBut(v.o, c.o, MoveFields) /\ c.o.position = v.o.position
    <3>1. FileStays(v, c) /\ VolumeOK(c) /\ LooseOK(c.o) /\ SameBut(v.o, c.o, { "cluster" })
      BY ReadClusterStays
    <3> HIDE DEF c
    <3> QED
      BY <3>1, ClosedFields DEF SameBut, MoveFields, LooseOK, HasFields
  <2> HIDE DEF c
  <2>5. P(c)
    BY <1>1, <2>1, <2>4
  <2>6. P(a)
    <3>1. FileStays(c, a) /\ SameBut(c.o, a.o, MoveFields) /\ a.o.position <= c.o.position + n
      BY <2>1, <2>4, ReadAlignedStays
    <3> HIDE DEF a
    <3> QED
      BY <2>1, <2>4, <3>1, FileTwice, MovesOn
  <2> HIDE DEF P, a
  <2>7. P(w)
    BY <2>2, <2>3, <2>5, <2>6
  <2> QED
    BY <2>7, FileTwice DEF P, w
<1> QED
  BY <1>2, <1>3

\* ABORT (124) leaves its error in the object.
LEMMA AbortStays ==
  ASSUME NEW v, VolumeOK(v), LooseOK(v.o)
  PROVE  LET w == Abort(v)
         IN  /\ FileStays(v, w) /\ VolumeOK(w) /\ LooseOK(w.o)
             /\ w.result = v.result
             /\ v.result = "OK" => w = v
             /\ v.result # "OK" => w.o.result = v.result
<1> DEFINE r == v.result
           x == [ v EXCEPT !.o.result = r ]
           w == Abort(v)
<1>1. w = IF v.result = "OK" THEN v ELSE x
  BY DEF Abort
<1> HIDE DEF w
<1>2. FileStays(v, x) /\ x.o.result = r /\ x.result = v.result
  <2> HIDE DEF r
  <2>1. /\ x = [ f \in DOMAIN x |-> x[f] ] /\ SameBut(v, x, { "o" })
        /\ x.o = [ v.o EXCEPT !.result = r ] /\ x.result = v.result
    BY Fields DEF SameBut, VolumeFields, TableFields
  <2> HIDE DEF x
  <2>2. LooseOK(x.o) /\ x.o.result = r
    BY <2>1, ClosedFields DEF LooseOK, HasFields
  <2> QED
    BY <2>1, <2>2, FileSet DEF SameBut, OuterFields
<1> HIDE DEF x
<1>3. FileStays(v, w)
  BY <1>1, <1>2, FileSame
<1> QED
  BY <1>1, <1>2, <1>3, FileTwice DEF w, r

\* What a method of cFile is proved to do: the object it leaves is in order as well.
CallStays(v, w) == StaysOrFails(v, w) /\ ObjectOK(w.o)

\* read (2825): the position stays within the size.
LEMMA ReadStays ==
  ASSUME NEW v, VolumeOK(v), ObjectOK(v.o), v.o.result = "OK", NEW n \in Nat
  PROVE  CallStays(v, Read(v, n))
<1> DEFINE end == v.o.position + SmallerOf(n, v.o.size - v.o.position)
           u(k) == Moving!Passes(v, end)[k]
           P(x) == /\ FileStays(v, x) /\ SameBut(v.o, x.o, MoveFields)
                   /\ x.o.position <= end
           T == { k \in Nat : P(u(k)) }
           w == Abort(u(n))
<1>1. Read(v, n) = w
  BY DEF Read
<1>2. LooseOK(v.o) /\ v.o.position \in Nat /\ v.o.size \in Nat /\ v.o.position <= v.o.size
  BY LooseAndResult DEF ObjectOK
<1>3. end \in Nat /\ v.o.position <= end /\ end <= v.o.size
  BY <1>2 DEF SmallerOf
<1> HIDE DEF end
<1>4. u(0) = v /\ \A k \in Nat : u(k + 1) = MovePass(u(k), end, k + 1)
  BY Moving!PassByPass
<1> HIDE DEF u
<1>5. 0 \in T
  BY <1>2, <1>3, <1>4, FileSame DEF SameBut
<1>6. ASSUME NEW k \in Nat, k \in T PROVE k + 1 \in T
  <2>1. P(u(k)) /\ VolumeOK(u(k)) /\ LooseOK(u(k).o)
    BY <1>6, FileTwice
  <2>2. FileStays(u(k), u(k + 1)) /\ SameBut(u(k).o, u(k + 1).o, MoveFields) /\ u(k + 1).o.position <= end
    BY <1>3, <1>4, <2>1, MovePassStays
  <2> QED
    BY <1>2, <2>1, <2>2, FileTwice, MovesOn
<1>7. Nat \subseteq T
  <2> HIDE DEF T
  <2> QED
    BY <1>5, <1>6, Moving!Upwards
<1>8. P(u(n)) /\ VolumeOK(u(n)) /\ LooseOK(u(n).o)
  BY <1>7, FileTwice
<1>9. FileStays(v, w) /\ LooseOK(w.o) /\ (w.o.result = "OK" => w = u(n))
  BY <1>8, AbortStays, FileTwice
<1>10. w = u(n) => w.o.position <= w.o.size
  <2>1. u(n).o.size = v.o.size /\ u(n).o.position \in Nat
    BY <1>2, <1>8, MovesOn DEF LooseOK
  <2> HIDE DEF w
  <2> QED
    BY <1>2, <1>3, <1>8, <2>1
<1> HIDE DEF w
<1> QED
  BY <1>1, <1>9, <1>10, LooseAndResult, StaysIsEnds DEF CallStays, FileStays

-----------------------------------------------------------------------------
(* Writing. *)

WriteFields == MoveFields \cup { "start" }
Unit == (Files \cup { NoFile }) \X Nat

LEMMA WritesOn ==
  ASSUME NEW a, LooseOK(a), NEW b
  PROVE  /\ SameBut(a, b, MoveFields) => SameBut(a, b, WriteFields)
         /\ SameBut(a, b, WriteFields) =>
              /\ b.size = a.size /\ b.result = a.result /\ b.write = a.write /\ b.open = a.open
              /\ \A c : SameBut(b, c, WriteFields) => SameBut(a, c, WriteFields)
  BY ClosedFields DEF SameBut, MoveFields, WriteFields, LooseOK, HasFields

\* write on a cluster boundary (2956).
LEMMA WriteClusterStays ==
  ASSUME NEW v, VolumeOK(v), LooseOK(v.o)
  PROVE  LET w == WriteCluster(v)
         IN  /\ FileStaysOrFails(v, w)
             /\ SameBut(v.o, w.o, WriteFields)
             /\ w.data = v.data
<1> DEFINE g == Gives(v, v.o.start)
           h == CreateChain(v, IF v.o.position = 0 THEN 0 ELSE v.o.cluster)
           c == IF v.o.position = 0 /\ v.o.start # 0 THEN g ELSE h
           e == EnterCluster(c)
           x == [ e EXCEPT !.o.start = e.value ]
           w == WriteCluster(v)
           P(u) == FileStaysOrFails(v, u) /\ SameBut(v.o, u.o, WriteFields) /\ u.data = v.data
<1> SUFFICES P(w)
  OBVIOUS
<1>1. \/ w = Fails(v, "OK")
      \/ c.value = 0 /\ w = Fails(c, "FULL")
      \/ c.value # 0 /\ w = e /\ (e.result # "OK" \/ e.o.start # 0)
      \/ c.value # 0 /\ w = x /\ e.result = "OK"
  BY DEF WriteCluster, With, Then
<1> HIDE DEF w
<1>2. SameBut(v.o, v.o, WriteFields)
  BY DEF SameBut
<1>3. P(Fails(v, "OK"))
  BY <1>2, FailsFile, FileIsFileOrFails
<1>4. /\ VolumeOK(c) /\ DOMAIN c = DOMAIN v /\ c.fault = v.fault /\ c.o = v.o /\ c.data = v.data
      /\ c.value \in Clusters \cup { 0, 1, Ones }
      /\ c.value \notin { 1, Ones } => (Right(v) => Right(c))
  <2>1. CASE c = h
    <3>1. ChainStays(v, h)
      BY CreateChainStays
    <3> HIDE DEF h, c
    <3> QED
      BY <2>1, <3>1, RestIsKept DEF ChainStays
  <2>2. CASE c = g
    <3>1. v.o.start \in Clusters \cup { 0 }
      BY DEF LooseOK
    <3>2. FileStays(v, g) /\ VolumeOK(g) /\ g.o = v.o /\ g.data = v.data /\ g.value = v.o.start
      BY GivesFile
    <3> HIDE DEF g, c
    <3> QED
      BY <2>2, <3>1, <3>2 DEF FileStays, Stays
  <2> QED
    BY <2>1, <2>2
<1> HIDE DEF c
<1>5. ASSUME c.value = 0 PROVE P(Fails(c, "FULL"))
  <2>1. c.value \notin { 1, Ones }
    BY <1>5, CountIsSmall
  <2>2. FileStays(c, Fails(c, "FULL")) /\ Fails(c, "FULL").o = v.o /\ Fails(c, "FULL").data = v.data
    BY <1>4, FailsFile
  <2> QED
    BY <1>2, <1>4, <2>1, <2>2 DEF FileStays, FileStaysOrFails, Stays, StaysOrFails
<1>6. /\ FileStays(c, e) /\ VolumeOK(e) /\ LooseOK(e.o)
      /\ SameBut(v.o, e.o, { "cluster" }) /\ e.data = v.data /\ e.value = c.value
      /\ e.result \in Errors \/ (e.result = "OK" /\ c.value \notin { 0, 1, Ones })
  <2>1. /\ FileStays(c, e) /\ VolumeOK(e) /\ LooseOK(e.o)
        /\ SameBut(c.o, e.o, { "cluster" }) /\ e.data = c.data /\ e.value = c.value
        /\ e.result \in Errors \/ (e.result = "OK" /\ ~(c.value < 2) /\ c.value # Ones)
    BY <1>4, EnterClusterStays
  <2> HIDE DEF e
  <2>2. ~(c.value < 2) => c.value \notin { 0, 1 }
    OBVIOUS
  <2> QED
    BY <1>4, <2>1, <2>2
<1> HIDE DEF e
<1>7. P(e)
  <2>1. SameBut(v.o, e.o, WriteFields)
    BY <1>6 DEF SameBut, WriteFields, MoveFields
  <2> QED
    BY <1>4, <1>6, <2>1 DEF FileStays, FileStaysOrFails, Stays, StaysOrFails
<1>8. ASSUME e.result = "OK" PROVE P(x)
  <2>1. c.value \in Clusters
    BY <1>4, <1>6, <1>8, NoErrors
  <2>2. /\ x = [ f \in DOMAIN x |-> x[f] ] /\ SameBut(e, x, { "o" })
        /\ x.o = [ e.o EXCEPT !.start = c.value ] /\ x.data = v.data
    BY <1>6, Fields DEF SameBut, VolumeFields
  <2> HIDE DEF x
  <2>3. LooseOK(x.o) /\ SameBut(e.o, x.o, { "start" })
    BY <1>6, <2>1, <2>2, ClosedFields DEF LooseOK, HasFields, SameBut
  <2>4. SameBut(v.o, x.o, WriteFields)
    BY <1>6, <2>3 DEF SameBut, WriteFields, MoveFields
  <2>5. FileStays(e, x)
    BY <1>6, <2>2, <2>3, FileSet DEF SameBut, OuterFields
  <2> QED
    BY <1>7, <1>8, <2>2, <2>4, <2>5, FileOrFailsTwice, NoErrors
<1> HIDE DEF x, P
<1> QED
  BY <1>1, <1>3, <1>5, <1>7, <1>8

\* What is cut off the front of the data, and what stays.
LEMMA DataParts ==
  ASSUME NEW d \in Seq(Unit), NEW n \in 0 .. Len(d)
  PROVE  /\ SubSeq(d, n + 1, Len(d)) \in Seq(Unit)
         /\ Len(SubSeq(d, n + 1, Len(d))) = Len(d) - n
         /\ n + UnitsPerSector <= Len(d) => SubSeq(d, n + 1, n + UnitsPerSector) \in UnitsOK
<1>1. UnitsPerSector \in Nat \ {0} /\ Len(d) \in Nat
  BY FileUnits
<1>2. SubSeq(d, n + 1, Len(d)) \in Seq(Unit) /\ Len(SubSeq(d, n + 1, Len(d))) = Len(d) - n
  BY <1>1
<1>3. ASSUME n + UnitsPerSector <= Len(d)
      PROVE  SubSeq(d, n + 1, n + UnitsPerSector) \in UnitsOK
  <2> DEFINE e == SubSeq(d, n + 1, n + UnitsPerSector)
  <2>1. e \in Seq(Unit) /\ Len(e) = UnitsPerSector
    BY <1>1, <1>3
  <2> HIDE DEF e
  <2>2. e \in [ 1 .. Len(e) -> Unit ]
    BY <2>1
  <2> QED
    BY <2>1, <2>2 DEF UnitsOK, Unit, e
<1> QED
  BY <1>2, <1>3

\* diskWrite of several sectors, each of which takes units.
LEMMA WriteSectorsFromStays ==
  ASSUME NEW v, VolumeOK(v), LooseOK(v.o), v.data \in Seq(Unit), NEW s \in Nat, NEW n \in Nat,
         \A j \in 0 .. n - 1 : s + j \in DataSectors,
         n * UnitsPerSector <= Len(v.data)
  PROVE  LET w == WriteSectorsFrom(v, s, n)
         IN  FileStays(v, w) /\ VolumeOK(w) /\ w.o = v.o /\ w.data \in Seq(Unit)
<1> DEFINE U == UnitsPerSector
           v0 == Fails(v, "OK")
           u(k) == Sending!Passes(v0, s)[k]
           Inv(k, x) == /\ FileStays(v, x) /\ VolumeOK(x) /\ x.o = v.o
                        /\ x.data \in Seq(Unit)
                        /\ x.result = "OK" => Len(x.data) = Len(v.data) - k * U
           T == { k \in Nat : k <= n => Inv(k, u(k)) }
<1>1. WriteSectorsFrom(v, s, n) = u(n)
  BY DEF WriteSectorsFrom
<1>2. U \in Nat \ {0}
  BY FileUnits
<1> HIDE DEF U
<1>3. u(0) = v0 /\ \A k \in Nat : u(k + 1) = SectorPass(u(k), s, k + 1)
  BY Sending!PassByPass
<1> HIDE DEF u
<1>4. 0 \in T
  <2>1. FileStays(v, v0) /\ VolumeOK(v0) /\ v0.o = v.o /\ v0.data = v.data
    BY FailsFile
  <2>2. Len(v.data) = Len(v.data) - 0 * U
    <3>1. Len(v.data) \in Nat /\ 0 * U = 0
      BY <1>2
    <3> QED
      BY <3>1
  <2> QED
    BY <1>3, <2>1, <2>2
<1>5. ASSUME NEW k \in Nat, k \in T PROVE k + 1 \in T
  <2> SUFFICES ASSUME k + 1 <= n PROVE Inv(k + 1, u(k + 1))
    OBVIOUS
  <2> DEFINE x == u(k)
             t == s + k
             b == Units(SubSeq(x.data, 1, UnitsPerSector))
             d == DiskWrite(x, t, b)
             z == SubSeq(d.data, UnitsPerSector + 1, Len(d.data))
             y == [ d EXCEPT !.data = z ]
  <2>1. Inv(k, x) /\ LooseOK(x.o)
    BY <1>5
  <2>2. k \in 0 .. n - 1 /\ t \in DataSectors
    OBVIOUS
  <2>3. u(k + 1) = IF x.result = "OK" THEN IF d.result = "OK" THEN y ELSE d ELSE x
    <3>1. u(k + 1) = SectorPass(x, s, k + 1) /\ s + (k + 1) - 1 = t
      BY <1>3
    <3> HIDE DEF x, t
    <3> QED
      BY <3>1 DEF SectorPass, Then
  <2> HIDE DEF x, t
  <2>4. CASE x.result # "OK"
    BY <2>1, <2>3, <2>4
  <2>5. CASE x.result = "OK"
    <3>1. Len(x.data) = Len(v.data) - k * U /\ Len(x.data) >= U
      <4>1. Len(v.data) \in Nat /\ Len(x.data) = Len(v.data) - k * U
        BY <2>1, <2>5
      <4>2. PICK j \in Nat : n = k + 1 + j
        <5>1. n - (k + 1) \in Nat /\ n = k + 1 + (n - (k + 1))
          BY <2>2
        <5> QED
          BY <5>1
      <4>3. n * U = k * U + U + j * U /\ j * U \in Nat /\ k * U \in Nat
        BY <1>2, <4>2
      <4>4. n * U <= Len(v.data)
        BY DEF U
      <4> QED
        BY <1>2, <4>1, <4>3, <4>4
    <3>2. /\ SubSeq(x.data, 1, UnitsPerSector) \in UnitsOK
          /\ SubSeq(x.data, UnitsPerSector + 1, Len(x.data)) \in Seq(Unit)
          /\ Len(SubSeq(x.data, UnitsPerSector + 1, Len(x.data))) = Len(x.data) - UnitsPerSector
      <4>1. x.data \in Seq(Unit) /\ Len(x.data) \in Nat /\ UnitsPerSector \in 0 .. Len(x.data) /\ 0 \in 0 .. Len(x.data)
            /\ 0 + UnitsPerSector <= Len(x.data) /\ 0 + UnitsPerSector = UnitsPerSector /\ 0 + 1 = 1
        BY <1>2, <2>1, <3>1 DEF U
      <4> QED
        BY <4>1, DataParts
    <3>3. Stays(x, d) /\ VolumeOK(d) /\ SameBut(x, d, { "disk", "fuse", "dead", "result" })
          /\ d.result \in { "OK", "DISK_ERR" }
      <4>1. Belongs(t, b)
        BY <2>2, <3>2, UnitsBelong
      <4> HIDE DEF b
      <4> QED
        BY <2>1, <2>2, <4>1, DataWriteStays
    <3> HIDE DEF d
    <3>4. d.o = x.o /\ d.data = x.data
      BY <2>1, <3>3, Fields DEF SameBut, VolumeFields
    <3>5. FileStays(v, d) /\ d.o = v.o /\ d.data \in Seq(Unit)
      BY <2>1, <3>3, <3>4, FileTwice DEF FileStays
    <3>6. CASE d.result # "OK"
      BY <2>3, <2>5, <3>3, <3>5, <3>6
    <3>7. CASE d.result = "OK"
      <4>1. u(k + 1) = y
        BY <2>3, <2>5, <3>7
      <4>2. z \in Seq(Unit) /\ Len(z) = Len(x.data) - U
        BY <3>2, <3>4 DEF U
      <4> HIDE DEF z
      <4>3. /\ y = [ f \in DOMAIN y |-> y[f] ] /\ SameBut(d, y, { "data" }) /\ y.o = d.o /\ y.data = z
        BY <3>3, Fields DEF SameBut, VolumeFields
      <4> HIDE DEF y
      <4>4. FileStays(d, y) /\ VolumeOK(y)
        BY <2>1, <3>3, <3>5, <4>3, FileSet DEF SameBut, OuterFields
      <4>5. FileStays(v, y)
        BY <3>5, <4>4, FileTwice
      <4>6. Len(z) = Len(v.data) - (k + 1) * U
        <5> DEFINE a == k * U
                   b1 == (k + 1) * U
                   l == Len(v.data)
        <5>1. b1 = a + U /\ a \in Nat /\ l \in Nat
          BY <1>2
        <5>2. Len(z) = (l - a) - U
          BY <3>1, <4>2
        <5> HIDE DEF a, b1, l
        <5>3. Len(z) = l - b1
          BY <1>2, <5>1, <5>2
        <5> QED
          BY <5>3 DEF l, b1
      <4> QED
        BY <3>5, <4>1, <4>2, <4>3, <4>4, <4>5, <4>6
    <3> QED
      BY <3>6, <3>7
  <2> QED
    BY <2>4, <2>5
<1>6. Nat \subseteq T
  <2> HIDE DEF T
  <2> QED
    BY <1>4, <1>5, Sending!Upwards
<1> QED
  BY <1>1, <1>6

\* The cached sector is among those that are written: it takes its part of the data.
LEMMA RefillUnits ==
  ASSUME NEW d \in Seq(Unit), NEW s \in Nat, NEW n \in Nat, n * UnitsPerSector <= Len(d),
         NEW c \in s .. s + n - 1
  PROVE  LET at == (c - s) * UnitsPerSector
         IN  SubSeq(d, at + 1, at + UnitsPerSector) \in UnitsOK
<1> DEFINE U == UnitsPerSector
           j == c - s
           r == n - 1 - j
           at == j * U
<1>1. U \in Nat \ {0} /\ Len(d) \in Nat /\ j \in Nat /\ r \in Nat /\ n = j + 1 + r
  BY FileUnits
<1>2. n * U <= Len(d)
  OBVIOUS
<1> HIDE DEF U, r
<1>3. at \in Nat /\ r * U \in Nat /\ n * U = at + U + r * U
  <2> HIDE DEF j
  <2> QED
    BY <1>1
<1> HIDE DEF at
<1>4. at \in 0 .. Len(d) /\ at + U <= Len(d)
  BY <1>1, <1>2, <1>3
<1>5. SubSeq(d, at + 1, at + U) \in UnitsOK
  BY <1>4, DataParts DEF U
<1> QED
  BY <1>5 DEF at, U

\* Whole sectors from the caller (3005), which a cached sector among them follows.
LEMMA WriteSectorsStays ==
  ASSUME NEW v, VolumeOK(v), LooseOK(v.o), v.data \in Seq(Unit), NEW s \in Nat, NEW n \in Nat,
         \A j \in 0 .. n - 1 : s + j \in DataSectors,
         n * UnitsPerSector <= Len(v.data)
  PROVE  LET w == WriteSectors(v, s, n)
         IN  FileStays(v, w) /\ VolumeOK(w) /\ SameBut(v.o, w.o, MoveFields) /\ w.data \in Seq(Unit)
<1> DEFINE at == (v.o.cached - s) * UnitsPerSector
           f == WriteSectorsFrom(v, s, n)
           units == SubSeq(v.data, at + 1, at + UnitsPerSector)
           r == [ f EXCEPT !.o.units = units, !.o.dirty = FALSE ]
           t == IF f.result = "OK" THEN IF v.o.cached \in s .. s + n - 1 THEN r ELSE f ELSE f
           p == t.o.position + n * UnitsPerSector
           x == [ t EXCEPT !.o.position = p ]
           w == WriteSectors(v, s, n)
           P(u) == FileStays(v, u) /\ VolumeOK(u) /\ LooseOK(u.o) /\ SameBut(v.o, u.o, MoveFields) /\ u.data \in Seq(Unit)
<1> SUFFICES P(w)
  OBVIOUS
<1>1. w = IF t.result = "OK" THEN x ELSE t
  BY DEF WriteSectors, Then
<1> HIDE DEF w
<1>2. FileStays(v, f) /\ VolumeOK(f) /\ f.o = v.o /\ f.data \in Seq(Unit)
  BY WriteSectorsFromStays
<1>3. P(f)
  BY <1>2 DEF SameBut
<1> HIDE DEF f
<1>4. v.o.cached \in s .. s + n - 1 => P(r)
  <2> SUFFICES ASSUME v.o.cached \in s .. s + n - 1 PROVE P(r)
    OBVIOUS
  <2>1. units \in UnitsOK
    BY RefillUnits
  <2> HIDE DEF units
  <2>2. /\ r = [ g \in DOMAIN r |-> r[g] ] /\ SameBut(f, r, { "o" }) /\ r.data = f.data
        /\ r.o = [ v.o EXCEPT !.units = units, !.dirty = FALSE ]
    BY <1>2, Fields DEF SameBut, VolumeFields
  <2> HIDE DEF r
  <2>3. LooseOK(r.o) /\ SameBut(v.o, r.o, MoveFields)
    <3>1. LooseOK(v.o) /\ HasFields(v.o, DOMAIN Closed)
      BY DEF LooseOK
    <3>2. /\ r.o = [ g \in DOMAIN r.o |-> r.o[g] ] /\ SameBut(v.o, r.o, { "units", "dirty" })
          /\ r.o.units = units /\ r.o.dirty = FALSE
      BY <2>2, <3>1, ClosedFields DEF HasFields, SameBut
    <3>3. HasFields(r.o, DOMAIN Closed)
      BY <3>1, <3>2 DEF HasFields, SameBut
    <3>4. /\ r.o.start = v.o.start /\ r.o.position = v.o.position /\ r.o.size = v.o.size
          /\ r.o.cached = v.o.cached /\ r.o.write = v.o.write /\ r.o.open = v.o.open
      BY <3>1, <3>2, ClosedFields DEF HasFields, SameBut
    <3>5. LooseOK(r.o)
      BY <2>1, <3>1, <3>2, <3>3, <3>4 DEF LooseOK
    <3> QED
      BY <3>2, <3>5 DEF SameBut, MoveFields
  <2>4. FileStays(f, r) /\ VolumeOK(r)
    BY <1>2, <2>2, <2>3, FileSet DEF SameBut, OuterFields
  <2> QED
    BY <1>2, <2>2, <2>3, <2>4, FileTwice
<1> HIDE DEF r
<1>5. P(t)
  <2> HIDE DEF P
  <2> QED
    BY <1>3, <1>4
<1> HIDE DEF t
<1>6. P(x)
  <2>1. p \in Nat
    <3>1. n * UnitsPerSector \in Nat
      BY FileUnits
    <3> QED
      BY <1>5, <3>1 DEF LooseOK
  <2> HIDE DEF p
  <2>2. /\ x = [ g \in DOMAIN x |-> x[g] ] /\ SameBut(t, x, { "o" }) /\ x.data = t.data
        /\ x.o = [ t.o EXCEPT !.position = p ]
    BY <1>5, Fields DEF SameBut, VolumeFields
  <2> HIDE DEF x
  <2>3. LooseOK(x.o) /\ SameBut(t.o, x.o, MoveFields)
    BY <1>5, <2>1, <2>2, ClosedFields DEF LooseOK, HasFields, SameBut, MoveFields
  <2>4. FileStays(t, x) /\ VolumeOK(x)
    BY <1>5, <2>2, <2>3, FileSet DEF SameBut, OuterFields
  <2> QED
    BY <1>5, <2>2, <2>3, <2>4, FileTwice, MovesOn
<1> HIDE DEF P, x
<1> QED
  BY <1>1, <1>5, <1>6

\* The cache takes units, and the position moves.
LEMMA ObjectTakes ==
  ASSUME NEW o, LooseOK(o), NEW q \in UnitsOK, NEW p \in Nat
  PROVE  LET r == [ o EXCEPT !.units = q, !.dirty = TRUE, !.position = p ]
         IN  LooseOK(r) /\ SameBut(o, r, MoveFields)
<1> DEFINE a == [ o EXCEPT !.units = q ]
           b == [ a EXCEPT !.dirty = TRUE ]
           r == [ b EXCEPT !.position = p ]
<1>1. LooseOK(a) /\ SameBut(o, a, MoveFields)
  BY ClosedFields DEF LooseOK, HasFields, SameBut, MoveFields
<1> HIDE DEF a
<1>2. LooseOK(b) /\ SameBut(a, b, MoveFields)
  BY <1>1, ClosedFields DEF LooseOK, HasFields, SameBut, MoveFields
<1> HIDE DEF b
<1>3. LooseOK(r) /\ SameBut(b, r, MoveFields)
  BY <1>2, ClosedFields DEF LooseOK, HasFields, SameBut, MoveFields
<1>4. r = [ o EXCEPT !.units = q, !.dirty = TRUE, !.position = p ]
  BY DEF a, b
<1> HIDE DEF r
<1>5. SameBut(o, r, MoveFields)
  BY <1>1, <1>2, <1>3, MovesOn
<1> QED
  BY <1>3, <1>4, <1>5

\* A part of a sector into the cache (3032).
LEMMA WritePartStays ==
  ASSUME NEW v, VolumeOK(v), LooseOK(v.o), v.data \in Seq(Unit), v.data # << >>
  PROVE  LET w == WritePart(v)
         IN  FileStays(v, w) /\ VolumeOK(w) /\ SameBut(v.o, w.o, MoveFields) /\ w.data \in Seq(Unit)
<1> DEFINE from == UnitIndex(v.o.position)
           count == SmallerOf(UnitsPerSector - from + 1, Len(v.data))
           patched == [ i \in 1 .. UnitsPerSector |->
                          IF i \in from .. from + count - 1 THEN v.data[i - from + 1] ELSE v.o.units[i] ]
           p == v.o.position + count
           z == SubSeq(v.data, count + 1, Len(v.data))
           w == WritePart(v)
           x == [ v EXCEPT !.o.units = patched, !.o.dirty = TRUE, !.o.position = v.o.position + count, !.data = z ]
<1>1. w = x
  BY Fields, ClosedFields DEF WritePart, VolumeFields, LooseOK, HasFields
<1>2. /\ count \in 1 .. Len(v.data) /\ from \in 1 .. UnitsPerSector /\ v.o.position \in Nat
      /\ Len(v.data) \in Nat /\ UnitsPerSector \in Nat \ {0}
  <2>1. v.o.position \in Nat /\ Len(v.data) \in Nat \ {0}
    BY DEF LooseOK
  <2> QED
    BY <2>1, PartUnits, PlaceInFile, FileUnits
<1> HIDE DEF count, from
<1>3. patched \in UnitsOK
  <2>1. v.o.units \in [ 1 .. UnitsPerSector -> Unit ]
    BY DEF LooseOK, UnitsOK, Unit
  <2>2. ASSUME NEW i \in from .. from + count - 1 PROVE v.data[i - from + 1] \in Unit
    BY <1>2
  <2>3. patched \in [ 1 .. UnitsPerSector -> Unit ]
    BY <2>1, <2>2
  <2> QED
    BY <2>3 DEF UnitsOK, Unit
<1>4. z \in Seq(Unit)
  BY <1>2, DataParts
<1>5. p \in Nat
  BY <1>2
<1> HIDE DEF patched, z, w
<1>6. /\ w = [ g \in DOMAIN w |-> w[g] ] /\ SameBut(v, w, { "o", "data" }) /\ w.data = z
      /\ w.o = [ v.o EXCEPT !.units = patched, !.dirty = TRUE, !.position = p ]
  BY <1>1, Fields DEF SameBut, VolumeFields
<1> HIDE DEF p
<1>7. LooseOK(w.o) /\ SameBut(v.o, w.o, MoveFields)
  <2> DEFINE r == [ v.o EXCEPT !.units = patched, !.dirty = TRUE, !.position = p ]
  <2>1. LooseOK(r) /\ SameBut(v.o, r, MoveFields)
    BY <1>3, <1>5, ObjectTakes
  <2>2. w.o = r
    BY <1>6
  <2> HIDE DEF r
  <2> QED
    BY <2>1, <2>2
<1> QED
  BY <1>4, <1>6, <1>7, FileSet DEF SameBut, OuterFields, w

\* write on a sector boundary (2995).
LEMMA WriteAlignedStays ==
  ASSUME NEW v, VolumeOK(v), LooseOK(v.o), v.data \in Seq(Unit), v.data # << >>
  PROVE  LET w == WriteAligned(v)
         IN  FileStays(v, w) /\ VolumeOK(w) /\ SameBut(v.o, w.o, MoveFields) /\ w.data \in Seq(Unit)
<1> DEFINE s == CurrentSector(v.o)
           whole == WholeSectors(v.o, Len(v.data))
           f == Fill(v, s)
           g == [ v EXCEPT !.o.cached = s, !.result = "OK" ]
           e == WriteSectors(v, s, whole)
           w == WriteAligned(v)
           P(u) == FileStays(v, u) /\ VolumeOK(u) /\ LooseOK(u.o) /\ SameBut(v.o, u.o, MoveFields) /\ u.data \in Seq(Unit)
<1> SUFFICES P(w)
  OBVIOUS
<1>1. \/ s = 0 /\ w = Fails(v, "INT_ERR")
      \/ s # 0 /\ w \in { e, f, WritePart(f), g, WritePart(g) }
  BY DEF WriteAligned, Then
<1> HIDE DEF w
<1>2. Len(v.data) \in Nat /\ s \in DataSectors \cup { 0 }
  BY CurrentPlace
<1>3. P(Fails(v, "INT_ERR"))
  BY FailsFile DEF SameBut
<1>4. ASSUME s # 0 PROVE P(e)
  <2> DEFINE k == SectorInFile(v.o.position)
             c == v.o.cluster
  <2>1. whole \in 0 .. SectorsPerCluster - k /\ whole * UnitsPerSector \in 0 .. Len(v.data)
    BY <1>2, WholeUnits
  <2>2. c \in Clusters /\ s = ClusterToSector(c) + k
    BY <1>4 DEF CurrentSector
  <2>3. k \in 0 .. SectorsPerCluster - 1 /\ SectorsPerCluster \in Nat \ {0}
    BY PlaceInFile, FileUnits DEF LooseOK
  <2> HIDE DEF k, c, s, whole
  <2>4. ClusterToSector(c) \in Nat
    BY <2>2, <2>3, ClusterPlaces
  <2>5. ASSUME NEW j \in 0 .. whole - 1 PROVE s + j \in DataSectors
    <3>1. k + j \in 0 .. SectorsPerCluster - 1 /\ s + j = ClusterToSector(c) + (k + j)
      BY <2>1, <2>2, <2>3, <2>4
    <3> QED
      BY <2>2, <3>1, ClusterPlaces
  <2>6. FileStays(v, e) /\ VolumeOK(e) /\ SameBut(v.o, e.o, MoveFields) /\ e.data \in Seq(Unit)
    <3>1. s \in Nat /\ whole \in Nat /\ whole * UnitsPerSector <= Len(v.data)
      BY <1>2, <2>1, <2>2, <2>3, <2>4
    <3> QED
      BY <2>5, <3>1, WriteSectorsStays
  <2> QED
    BY <2>6, FileTwice
<1>5. ASSUME s # 0 PROVE P(f) /\ f.data = v.data
  <2> HIDE DEF s
  <2>1. FileStays(v, f) /\ SameBut(v.o, f.o, { "units", "cached" }) /\ f.data = v.data
    BY <1>2, <1>5, FillStays
  <2> HIDE DEF f
  <2> QED
    BY <2>1, FileTwice DEF SameBut, MoveFields
<1>6. ASSUME s # 0 PROVE P(g) /\ g.data = v.data
  <2> HIDE DEF s
  <2>1. /\ g = [ h \in DOMAIN g |-> g[h] ] /\ SameBut(v, g, { "o", "result" }) /\ g.data = v.data
        /\ g.o = [ v.o EXCEPT !.cached = s ]
    BY Fields DEF SameBut, VolumeFields, TableFields
  <2> HIDE DEF g
  <2>2. LooseOK(g.o) /\ SameBut(v.o, g.o, MoveFields)
    BY <1>2, <1>6, <2>1, ClosedFields DEF LooseOK, HasFields, SameBut, MoveFields
  <2> QED
    BY <2>1, <2>2, FileSet DEF SameBut, OuterFields
<1> HIDE DEF f, g, e, s
<1>7. ASSUME NEW u, P(u), u.data = v.data PROVE P(WritePart(u))
  <2> DEFINE x == WritePart(u)
  <2>1. FileStays(u, x) /\ VolumeOK(x) /\ SameBut(u.o, x.o, MoveFields) /\ x.data \in Seq(Unit)
    BY <1>7, WritePartStays
  <2> HIDE DEF x
  <2> QED
    BY <1>7, <2>1, FileTwice, MovesOn DEF x
<1> HIDE DEF P
<1> QED
  BY <1>1, <1>3, <1>4, <1>5, <1>6, <1>7

\* A pass of write (2951).
LEMMA WritePassStays ==
  ASSUME NEW v, VolumeOK(v), LooseOK(v.o), v.data \in Seq(Unit), NEW k
  PROVE  LET w == WritePass(v, 0, k)
         IN  /\ FileStaysOrFails(v, w) /\ SameBut(v.o, w.o, WriteFields) /\ w.data \in Seq(Unit)
             /\ v.result # "OK" => w = v
<1> DEFINE c == WriteCluster(v)
           b == IF c.result = "OK" THEN WriteBack(c) ELSE c
           a == IF b.result = "OK" THEN WriteAligned(b) ELSE b
           w == WritePass(v, 0, k)
           P(u) == FileStaysOrFails(v, u) /\ SameBut(v.o, u.o, WriteFields) /\ u.data \in Seq(Unit)
<1>1. /\ v.result # "OK" \/ v.data = << >> => w = v
      /\ v.data # << >> => w \in { v, a, WritePart(v) }
  BY DEF WritePass, Then
<1> HIDE DEF w
<1>2. P(v)
  BY FileSame, FileIsFileOrFails DEF SameBut
<1>3. ASSUME v.data # << >> PROVE P(w)
  <2>1. P(c) /\ c.data = v.data
    BY WriteClusterStays
  <2> HIDE DEF c
  <2>2. P(b) /\ b.data = v.data
    <3> DEFINE x == WriteBack(c)
    <3>1. CASE c.result = "OK"
      <4>1. VolumeOK(c) /\ LooseOK(c.o)
        BY <2>1, <3>1, FileOrFailsTwice, NoErrors
      <4>2. FileStays(c, x) /\ SameBut(c.o, x.o, { "dirty" }) /\ x.data = c.data
        BY <4>1, WriteBackStays
      <4> HIDE DEF x
      <4>3. SameBut(c.o, x.o, WriteFields)
        BY <4>2 DEF SameBut, WriteFields, MoveFields
      <4>4. FileStaysOrFails(v, x)
        BY <2>1, <3>1, <4>2, FileOrFailsTwice, NoErrors
      <4>5. P(x) /\ x.data = v.data
        BY <2>1, <4>2, <4>3, <4>4, WritesOn
      <4>6. b = x
        BY <3>1 DEF x
      <4> HIDE DEF b
      <4> QED
        BY <4>5, <4>6
    <3>2. CASE c.result # "OK"
      BY <2>1, <3>2
    <3> QED
      BY <3>1, <3>2
  <2> HIDE DEF b
  <2>3. P(a)
    <3> DEFINE x == WriteAligned(b)
    <3>1. CASE b.result = "OK"
      <4>1. VolumeOK(b) /\ LooseOK(b.o)
        BY <2>2, <3>1, FileOrFailsTwice, NoErrors
      <4>2. FileStays(b, x) /\ SameBut(b.o, x.o, MoveFields) /\ x.data \in Seq(Unit)
        BY <1>3, <2>2, <4>1, WriteAlignedStays
      <4> HIDE DEF x
      <4>3. FileStaysOrFails(v, x)
        BY <2>2, <3>1, <4>2, FileOrFailsTwice, NoErrors
      <4>4. P(x)
        BY <2>2, <4>1, <4>2, <4>3, WritesOn
      <4>5. a = x
        BY <3>1 DEF x
      <4> HIDE DEF a
      <4> QED
        BY <4>4, <4>5
    <3>2. CASE b.result # "OK"
      BY <2>2, <3>2
    <3> QED
      BY <3>1, <3>2
  <2> HIDE DEF a
  <2>4. P(WritePart(v))
    <3> DEFINE x == WritePart(v)
    <3>1. FileStays(v, x) /\ SameBut(v.o, x.o, MoveFields) /\ x.data \in Seq(Unit)
      BY <1>3, WritePartStays
    <3> HIDE DEF x
    <3> QED
      BY <3>1, FileIsFileOrFails, WritesOn DEF x
  <2> HIDE DEF P
  <2> QED
    BY <1>1, <1>2, <1>3, <2>3, <2>4
<1>4. CASE v.data = << >>
  BY <1>1, <1>2, <1>4 DEF w
<1> QED
  BY <1>1, <1>3, <1>4 DEF w

\* write (2925): the size is brought up to the position.
LEMMA WriteStays ==
  ASSUME NEW v, VolumeOK(v), ObjectOK(v.o), NEW units \in Seq(Unit)
  PROVE  CallStays(v, Write(v, units))
<1> DEFINE v0 == [ v EXCEPT !.data = units ]
           u(k) == Writing!Passes(v0, 0)[k]
           P(x) == FileStaysOrFails(v, x) /\ LooseOK(x.o) /\ VolumeOK(x) /\ x.data \in Seq(Unit)
           T == { k \in Nat : P(u(k)) }
           n == Len(units)
           w == u(n)
           m == LargerOf(w.o.size, w.o.position)
           x == [ w EXCEPT !.o.size = m, !.o.written = TRUE, !.result = "OK" ]
           a == Abort(w)
<1>1. Write(v, units) = IF w.result \in { "OK", "FULL" } THEN x ELSE a
  <2> DEFINE y == [ w EXCEPT !.o.size = LargerOf(@, w.o.position), !.o.written = TRUE, !.result = "OK" ]
  <2>1. Write(v, units) = IF w.result \in { "OK", "FULL" } THEN y ELSE a
    BY DEF Write, With
  <2>2. P(w) => y = x
    <3> HIDE DEF w
    <3> QED
      BY Fields, ClosedFields DEF VolumeFields, LooseOK, HasFields
  <2> HIDE DEF x, y, a
  <2>3. y = x
    <3> HIDE DEF w
    <3> QED
      BY DEF x, y
  <2> QED
    BY <2>1, <2>3
<1>2. LooseOK(v.o)
  BY LooseAndResult
<1>3. P(v0)
  <2>1. v0 = [ g \in DOMAIN v0 |-> v0[g] ] /\ SameBut(v, v0, { "data" }) /\ v0.o = v.o /\ v0.data = units
    BY Fields DEF SameBut, VolumeFields
  <2> HIDE DEF v0
  <2> QED
    BY <1>2, <2>1, FileSet, FileIsFileOrFails DEF SameBut, OuterFields
<1>4. u(0) = v0 /\ \A k \in Nat : u(k + 1) = WritePass(u(k), 0, k + 1)
  BY Writing!PassByPass
<1> HIDE DEF u, v0
<1>5. 0 \in T
  BY <1>3, <1>4
<1>6. ASSUME NEW k \in Nat, k \in T PROVE k + 1 \in T
  <2> DEFINE y == u(k)
             z == u(k + 1)
  <2>1. P(y)
    BY <1>6
  <2>2. FileStaysOrFails(y, z) /\ z.data \in Seq(Unit) /\ (y.result # "OK" => z = y)
    BY <1>4, <2>1, WritePassStays
  <2> HIDE DEF y, z
  <2>3. CASE y.result = "OK"
    <3>1. FileStaysOrFails(v, z)
      BY <2>1, <2>2, <2>3, FileOrFailsTwice, NoErrors
    <3>2. P(z)
      BY <2>2, <3>1 DEF FileStaysOrFails, StaysOrFails
    <3> QED
      BY <3>2 DEF z
  <2>4. CASE y.result # "OK"
    BY <2>1, <2>2, <2>4 DEF z
  <2> QED
    BY <2>3, <2>4
<1>7. Nat \subseteq T
  <2> HIDE DEF T
  <2> QED
    BY <1>5, <1>6, Writing!Upwards
<1>8. P(w)
  <2>1. n \in Nat
    OBVIOUS
  <2> QED
    BY <1>7, <2>1
<1> HIDE DEF w
<1>9. ASSUME w.result \in { "OK", "FULL" } PROVE CallStays(v, x)
  <2>1. m \in Nat /\ w.o.position <= m
    BY <1>8 DEF LargerOf, LooseOK
  <2> HIDE DEF m
  <2>2. /\ x = [ g \in DOMAIN x |-> x[g] ] /\ SameBut(w, x, { "o", "result" })
        /\ x.o = [ w.o EXCEPT !.size = m, !.written = TRUE ]
    BY <1>8, Fields DEF SameBut, VolumeFields, TableFields
  <2> HIDE DEF x
  <2>3. LooseOK(x.o) /\ x.o.position <= x.o.size
    <3>0. LooseOK(w.o)
      BY <1>8
    <3>1. HasFields(w.o, DOMAIN Closed)
      BY <3>0 DEF LooseOK
    <3>2. /\ x.o = [ g \in DOMAIN x.o |-> x.o[g] ] /\ SameBut(w.o, x.o, { "size", "written" }) /\ x.o.size = m
      <4>1. x.o = [ g \in DOMAIN x.o |-> x.o[g] ] /\ DOMAIN x.o = DOMAIN w.o
        BY <2>2, <3>1 DEF HasFields
      <4>2. x.o.size = m
        BY <2>2, <3>1, ClosedFields DEF HasFields
      <4>3. \A g \in DOMAIN w.o \ { "size", "written" } : x.o[g] = w.o[g]
        BY <2>2, <3>1 DEF HasFields
      <4> QED
        BY <4>1, <4>2, <4>3 DEF SameBut
    <3>3. HasFields(x.o, DOMAIN Closed)
      BY <3>1, <3>2 DEF HasFields, SameBut
    <3>4. /\ x.o.start = w.o.start /\ x.o.position = w.o.position /\ x.o.cached = w.o.cached /\ x.o.units = w.o.units
          /\ x.o.dirty = w.o.dirty /\ x.o.write = w.o.write /\ x.o.open = w.o.open
      BY <3>1, <3>2, ClosedFields DEF HasFields, SameBut
    <3> QED
      BY <2>1, <3>0, <3>2, <3>3, <3>4 DEF LooseOK
  <2>4. FileStays(w, x)
    BY <1>8, <2>2, <2>3, FileSet DEF SameBut, OuterFields
  <2>5. w.result \notin Errors
    BY <1>9, NoErrors
  <2>6. FileStaysOrFails(v, x)
    BY <1>8, <2>4, <2>5, FileOrFailsTwice
  <2> QED
    BY <2>3, <2>6, LooseAndResult DEF CallStays, FileStaysOrFails
<1>10. ASSUME w.result \notin { "OK", "FULL" } PROVE CallStays(v, a)
  <2>1. FileStays(w, a) /\ LooseOK(a.o) /\ a.result = w.result /\ a.o.result = w.result
    BY <1>8, <1>10, AbortStays
  <2> HIDE DEF a
  <2>2. StaysOrFails(v, a)
    BY <1>8, <2>1 DEF FileStays, FileStaysOrFails, Stays, StaysOrFails
  <2> QED
    BY <1>10, <2>1, <2>2, LooseAndResult DEF CallStays
<1> QED
  BY <1>1, <1>9, <1>10

-----------------------------------------------------------------------------
(* Seeking. *)

SeekFields == { "cluster", "position", "start" }

LEMMA SeeksOn ==
  ASSUME NEW a, LooseOK(a), NEW b, SameBut(a, b, SeekFields)
  PROVE  /\ b.size = a.size /\ b.result = a.result /\ b.write = a.write /\ b.open = a.open
         /\ b.cached = a.cached
         /\ \A c : SameBut(b, c, SeekFields) => SameBut(a, c, SeekFields)
  BY ClosedFields DEF SameBut, SeekFields, LooseOK, HasFields

\* The object goes on to another cluster, at another position.
LEMMA SoughtOK ==
  ASSUME NEW o, LooseOK(o), NEW c, NEW p \in Nat, NEW y, y = [ o EXCEPT !.cluster = c, !.position = p ]
  PROVE  LooseOK(y) /\ SameBut(o, y, SeekFields)
  BY ClosedFields DEF LooseOK, HasFields, SameBut, SeekFields

LEMMA PlacedOK ==
  ASSUME NEW o, LooseOK(o), NEW p \in Nat, NEW y, y = [ o EXCEPT !.position = p ]
  PROVE  LooseOK(y) /\ SameBut(o, y, SeekFields) /\ y.position = p
  BY ClosedFields DEF LooseOK, HasFields, SameBut, SeekFields

\* A pass of seek (3171).
LEMMA SeekPassStays ==
  ASSUME NEW v, VolumeOK(v), LooseOK(v.o), NEW k
  PROVE  LET w == SeekPass(v, 0, k)
         IN  /\ FileStaysOrFails(v, w) /\ SameBut(v.o, w.o, SeekFields)
             /\ v.result # "OK" => w = v
<1> DEFINE h == CreateChain(v, v.o.cluster)
           g == GetFat(v, v.o.cluster)
           c == IF v.o.write THEN h ELSE g
           p == v.o.position + UnitsPerCluster
           x == [ c EXCEPT !.o.cluster = c.value, !.o.position = p, !.result = "OK" ]
           w == SeekPass(v, 0, k)
           P(u) == FileStaysOrFails(v, u) /\ SameBut(v.o, u.o, SeekFields)
<1> SUFFICES P(w) /\ (v.result # "OK" => w = v)
  OBVIOUS
<1>1. P(v)
  BY FileSame, FileIsFileOrFails DEF SameBut
<1>2. /\ VolumeOK(c) /\ DOMAIN c = DOMAIN v /\ c.fault = v.fault /\ c.o = v.o
      /\ c.value \notin { 1, Ones } => (Right(v) => Right(c))
  <2>1. CASE c = h
    <3>1. ChainStays(v, h)
      BY CreateChainStays
    <3> HIDE DEF h, c
    <3> QED
      BY <2>1, <3>1, RestIsKept DEF ChainStays
  <2>2. CASE c = g
    <3>1. Stays(v, g) /\ VolumeOK(g) /\ SameBut(v, g, WindowFields \cup { "value" })
      BY GetFatStays
    <3> HIDE DEF g, c
    <3>2. SameBut(v, g, ChainFields)
      BY <3>1 DEF SameBut, ChainFields
    <3> QED
      BY <2>2, <3>1, <3>2, RestIsKept DEF Stays
  <2> QED
    BY <2>1, <2>2
<1>3. \/ w = v
      \/ v.result = "OK" /\ c.value = 0 /\ w = Fails(c, "FULL")
      \/ v.result = "OK" /\ w \in { Fails(c, "DISK_ERR"), Fails(c, "INT_ERR") }
      \/ v.result = "OK" /\ c.value \in Clusters /\ w = x
  <2> DEFINE y == [ c EXCEPT !.o.cluster = c.value, !.o.position = @ + UnitsPerCluster, !.result = "OK" ]
  <2>1. y = x
    <3>1. c.o.position = v.o.position
      BY <1>2
    <3>2. "o" \in DOMAIN c /\ c = [ f \in DOMAIN c |-> c[f] ] /\ c.o = [ f \in DOMAIN c.o |-> c.o[f] ]
          /\ "position" \in DOMAIN c.o
      BY <1>2, Fields, ClosedFields DEF VolumeFields, LooseOK, HasFields
    <3> HIDE DEF c
    <3> QED
      BY <3>1, <3>2
  <2>2. \/ w = v
        \/ v.result = "OK" /\ c.value = 0 /\ w = Fails(c, "FULL")
        \/ v.result = "OK" /\ w \in { Fails(c, "DISK_ERR"), Fails(c, "INT_ERR") }
        \/ v.result = "OK" /\ c.value \in Clusters /\ w = y
    BY DEF SeekPass, With
  <2> HIDE DEF x, y, w, c
  <2> QED
    BY <2>1, <2>2
<1>4. v.result # "OK" => w = v
  BY DEF SeekPass
<1> HIDE DEF w, c
<1>5. ASSUME c.value = 0 PROVE P(Fails(c, "FULL"))
  <2>1. c.value \notin { 1, Ones }
    BY <1>5, CountIsSmall
  <2>2. FileStays(c, Fails(c, "FULL")) /\ Fails(c, "FULL").o = v.o
    BY <1>2, FailsFile
  <2> QED
    BY <1>1, <1>2, <2>1, <2>2 DEF FileStays, FileStaysOrFails, Stays, StaysOrFails
<1>6. ASSUME NEW r \in Errors PROVE P(Fails(c, r))
  <2>1. StaysOrFails(v, Fails(c, r))
    BY <1>2, ErrorIsToldOf
  <2>2. Fails(c, r).o = v.o
    BY <1>2, FailsFile
  <2> QED
    BY <1>1, <2>1, <2>2 DEF FileStaysOrFails
<1>7. ASSUME c.value \in Clusters PROVE P(x)
  <2>1. c.value \notin { 1, Ones }
    BY <1>7, Numbers
  <2>2. p \in Nat
    BY FileUnits DEF LooseOK
  <2>3. /\ x = [ f \in DOMAIN x |-> x[f] ] /\ SameBut(c, x, { "o", "result" })
        /\ x.o = [ v.o EXCEPT !.cluster = c.value, !.position = p ]
    <3> HIDE DEF p
    <3> QED
      BY <1>2, Fields DEF SameBut, VolumeFields, TableFields
  <2> HIDE DEF x, p
  <2>4. LooseOK(x.o) /\ SameBut(v.o, x.o, SeekFields)
    BY <2>2, <2>3, SoughtOK
  <2>5. FileStays(c, x)
    BY <1>2, <2>3, <2>4, FileSet DEF SameBut, OuterFields
  <2> QED
    BY <1>2, <2>1, <2>4, <2>5 DEF FileStays, FileStaysOrFails, Stays, StaysOrFails
<1> HIDE DEF x, P
<1> QED
  BY <1>1, <1>3, <1>4, <1>5, <1>6, <1>7, NoErrors

\* What is left to go in the last cluster.
LEMMA LastUnits ==
  ASSUME NEW rest \in Nat \ {0}
  PROVE  LET clusters == (rest - 1) \div UnitsPerCluster
             last == rest - clusters * UnitsPerCluster
         IN  /\ clusters \in Nat
             /\ last \in 1 .. UnitsPerCluster
             /\ last % UnitsPerSector # 0 => last \div UnitsPerSector \in 0 .. SectorsPerCluster - 1
<1> DEFINE C == UnitsPerCluster
           U == UnitsPerSector
           S == SectorsPerCluster
           clusters == (rest - 1) \div C
           last == rest - clusters * C
           j == last \div U
           r == last % U
<1>1. U \in Nat \ {0} /\ S \in Nat \ {0} /\ C \in Nat \ {0} /\ C = U * S
  BY FileUnits DEF UnitsPerCluster
<1>2. clusters \in Nat /\ last \in 1 .. C
  <2> DEFINE m == rest - 1
  <2>0. m \in Nat
    OBVIOUS
  <2>1. clusters \in Nat /\ m = C * clusters + (m % C) /\ m % C \in 0 .. C - 1
    <3>0. clusters = m \div C
      OBVIOUS
    <3> HIDE DEF C, m, clusters
    <3>1. clusters \in Nat
      BY <1>1, <2>0, <3>0
    <3>2. m = C * clusters + (m % C)
      BY <1>1, <2>0, <3>0
    <3>3. m % C \in 0 .. C - 1
      BY <1>1, <2>0
    <3> QED
      BY <3>1, <3>2, <3>3
  <2>2. clusters * C = C * clusters /\ C * clusters \in Nat
    <3> HIDE DEF C, clusters
    <3> QED
      BY <1>1, <2>1
  <2> HIDE DEF clusters, C
  <2> QED
    BY <1>1, <2>1, <2>2
<1> HIDE DEF clusters, last, C, U, S
<1>3. last \in Nat /\ j \in Nat /\ r \in 0 .. U - 1 /\ last = U * j + r
  BY <1>1, <1>2
<1> HIDE DEF j, r
<1>4. ASSUME r # 0 PROVE j \in 0 .. S - 1
  <2> SUFFICES ASSUME ~(j < S) PROVE FALSE
    BY <1>1, <1>3
  <2>1. PICK d \in Nat : j = S + d
    <3>1. j - S \in Nat /\ j = S + (j - S)
      BY <1>1, <1>3
    <3> QED
      BY <3>1
  <2>2. U * j = U * S + U * d /\ U * d \in Nat /\ U * S \in Nat
    BY <1>1, <2>1
  <2> QED
    BY <1>1, <1>2, <1>3, <1>4, <2>2
<1> QED
  BY <1>2, <1>4 DEF clusters, last, j, r, C, U, S

\* seek from the start of a cluster: the sector it gives is one of the data.
LEMMA SeekOnStays ==
  ASSUME NEW v, VolumeOK(v), LooseOK(v.o), NEW rest \in Nat \ {0}
  PROVE  LET w == SeekOn(v, rest)
         IN  /\ FileStaysOrFails(v, w) /\ SameBut(v.o, w.o, SeekFields)
             /\ w.result = "OK" => w.value \in DataSectors \cup { NoSector }
<1> DEFINE v0 == Fails(v, "OK")
           u(i) == Seeking!Passes(v0, 0)[i]
           P(x) == FileStaysOrFails(v, x) /\ LooseOK(x.o) /\ VolumeOK(x) /\ SameBut(v.o, x.o, SeekFields)
           T == { i \in Nat : P(u(i)) }
           clusters == (rest - 1) \div UnitsPerCluster
           last == rest - clusters * UnitsPerCluster
           n == clusters
           w == u(n)
           p == w.o.position + last
           q == w.o.position + UnitsPerCluster
           a == [ w EXCEPT !.o.position = p, !.value = NoSector ]
           b == [ w EXCEPT !.o.position = p, !.result = "INT_ERR" ]
           c == [ w EXCEPT !.o.position = p, !.value = ClusterToSector(w.o.cluster) + last \div UnitsPerSector ]
           d == [ w EXCEPT !.o.position = q, !.result = "OK", !.value = NoSector ]
           z == SeekOn(v, rest)
           R(x) == /\ FileStaysOrFails(v, x) /\ SameBut(v.o, x.o, SeekFields)
                   /\ x.result = "OK" => x.value \in DataSectors \cup { NoSector }
<1> SUFFICES R(z)
  OBVIOUS
<1>1. n \in Nat /\ last \in 1 .. UnitsPerCluster /\ (last % UnitsPerSector # 0 => last \div UnitsPerSector \in 0 .. SectorsPerCluster - 1)
  BY LastUnits
<1>2. P(v0)
  <2>1. FileStays(v, v0) /\ VolumeOK(v0) /\ LooseOK(v0.o) /\ v0.o = v.o
    BY FailsFile
  <2> HIDE DEF v0
  <2> QED
    BY <2>1, FileIsFileOrFails DEF SameBut
<1>3. u(0) = v0 /\ \A i \in Nat : u(i + 1) = SeekPass(u(i), 0, i + 1)
  BY Seeking!PassByPass
<1>4. \/ w.result = "OK" /\ last % UnitsPerSector = 0 /\ z = a
      \/ w.result = "OK" /\ z = b
      \/ w.result = "OK" /\ last % UnitsPerSector # 0 /\ w.o.cluster \in Clusters /\ z = c
      \/ w.result = "FULL" /\ z = d
      \/ w.result # "OK" /\ z = w
  <2>0. z = SeekOn(v, rest)
    OBVIOUS
  <2> HIDE DEF z
  <2> QED
    BY <2>0 DEF SeekOn, With
<1> HIDE DEF u, v0, clusters, last, z
<1>5. 0 \in T
  BY <1>2, <1>3
<1>6. ASSUME NEW i \in Nat, i \in T PROVE i + 1 \in T
  <2> DEFINE y == u(i)
             x == u(i + 1)
  <2>1. P(y)
    BY <1>6
  <2>2. FileStaysOrFails(y, x) /\ SameBut(y.o, x.o, SeekFields) /\ (y.result # "OK" => x = y)
    BY <1>3, <2>1, SeekPassStays
  <2> HIDE DEF y, x
  <2>3. CASE y.result = "OK"
    <3>1. FileStaysOrFails(v, x)
      BY <2>1, <2>2, <2>3, FileOrFailsTwice, NoErrors
    <3>2. SameBut(v.o, x.o, SeekFields)
      BY <2>1, <2>2, SeeksOn
    <3>3. P(x)
      BY <3>1, <3>2 DEF FileStaysOrFails, StaysOrFails
    <3> QED
      BY <3>3 DEF x
  <2>4. CASE y.result # "OK"
    BY <2>1, <2>2, <2>4 DEF x
  <2> QED
    BY <2>3, <2>4
<1>7. Nat \subseteq T
  <2> HIDE DEF T
  <2> QED
    BY <1>5, <1>6, Seeking!Upwards
<1>8. P(w)
  BY <1>1, <1>7
<1> HIDE DEF w
<1>9. p \in Nat /\ q \in Nat
  BY <1>1, <1>8, FileUnits DEF LooseOK
<1> HIDE DEF p, q
<1>10. ASSUME NEW x, NEW j \in { p, q }, x = [ f \in DOMAIN x |-> x[f] ], SameBut(w, x, { "o", "result", "value" }),
              x.o = [ w.o EXCEPT !.position = j ], w.result \in { "OK", "FULL" }
       PROVE  FileStaysOrFails(v, x) /\ SameBut(v.o, x.o, SeekFields)
  <2>1. LooseOK(x.o) /\ SameBut(w.o, x.o, SeekFields)
    BY <1>8, <1>9, <1>10, PlacedOK
  <2>2. SameBut(v.o, x.o, SeekFields)
    BY <1>8, <2>1, SeeksOn
  <2>3. FileStays(w, x)
    BY <1>8, <1>10, <2>1, FileSet DEF SameBut, OuterFields
  <2> QED
    BY <1>8, <1>10, <2>2, <2>3, FileOrFailsTwice, NoErrors
<1>11. VolumeFields \subseteq DOMAIN w /\ w = [ f \in DOMAIN w |-> w[f] ]
  BY <1>8, Fields
<1>12. w.result = "OK" => R(a)
  <2>1. a = [ f \in DOMAIN a |-> a[f] ] /\ SameBut(w, a, { "o", "result", "value" })
        /\ a.o = [ w.o EXCEPT !.position = p ] /\ a.value = NoSector
    BY <1>11 DEF SameBut, VolumeFields, TableFields
  <2> HIDE DEF a
  <2> QED
    BY <1>10, <2>1
<1>13. w.result = "OK" => R(b)
  <2>1. b = [ f \in DOMAIN b |-> b[f] ] /\ SameBut(w, b, { "o", "result", "value" })
        /\ b.o = [ w.o EXCEPT !.position = p ] /\ b.result = "INT_ERR"
    BY <1>11 DEF SameBut, VolumeFields, TableFields
  <2> HIDE DEF b
  <2> QED
    BY <1>10, <2>1
<1>14. w.result = "OK" /\ last % UnitsPerSector # 0 /\ w.o.cluster \in Clusters => R(c)
  <2> SUFFICES ASSUME w.result = "OK", last % UnitsPerSector # 0, w.o.cluster \in Clusters PROVE R(c)
    OBVIOUS
  <2> DEFINE s == ClusterToSector(w.o.cluster) + last \div UnitsPerSector
  <2>1. s \in DataSectors
    BY <1>1, ClusterPlaces
  <2> HIDE DEF s
  <2>2. c = [ f \in DOMAIN c |-> c[f] ] /\ SameBut(w, c, { "o", "result", "value" })
        /\ c.o = [ w.o EXCEPT !.position = p ] /\ c.value = s
    <3>1. c = [ w EXCEPT !.o.position = p, !.value = s ]
      BY DEF s
    <3> HIDE DEF c
    <3> QED
      BY <1>11, <3>1 DEF SameBut, VolumeFields, TableFields
  <2> HIDE DEF c
  <2> QED
    BY <1>10, <2>1, <2>2
<1>15. w.result = "FULL" => R(d)
  <2>1. d = [ f \in DOMAIN d |-> d[f] ] /\ SameBut(w, d, { "o", "result", "value" })
        /\ d.o = [ w.o EXCEPT !.position = q ] /\ d.value = NoSector
    BY <1>11 DEF SameBut, VolumeFields, TableFields
  <2> HIDE DEF d
  <2> QED
    BY <1>10, <2>1
<1>16. w.result # "OK" => R(w)
  BY <1>8
<1> HIDE DEF R, a, b, c, d
<1> QED
  BY <1>4, <1>12, <1>13, <1>14, <1>15, <1>16

\* What a part of seek leaves: the place of the data, or an error.
Sought(v, w) ==
  /\ FileStaysOrFails(v, w)
  /\ SameBut(v.o, w.o, SeekFields)
  /\ w.result = "OK" => w.value \in DataSectors \cup { NoSector }

\* The object gets its first cluster; it grows to where it is.
LEMMA StartedOK ==
  ASSUME NEW o, LooseOK(o), NEW c \in Clusters \cup { 0 }, NEW y,
         y = [ o EXCEPT !.start = c, !.cluster = c, !.position = 0 ]
  PROVE  LooseOK(y) /\ SameBut(o, y, SeekFields)
<1>1. /\ DOMAIN y = DOMAIN o /\ y = [ f \in DOMAIN y |-> y[f] ]
      /\ y.start = c /\ y.position = 0
      /\ \A f \in DOMAIN o \ SeekFields : y[f] = o[f]
  BY ClosedFields DEF LooseOK, HasFields, SeekFields
<1> QED
  BY <1>1, ClosedFields DEF LooseOK, HasFields, SameBut, SeekFields

LEMMA GrownOK ==
  ASSUME NEW o, LooseOK(o), NEW y, y = [ f \in DOMAIN y |-> y[f] ], SameBut(o, y, { "size", "written" }),
         y.size = o.position
  PROVE  LooseOK(y) /\ y.position = o.position /\ y.result = o.result
  BY ClosedFields DEF LooseOK, HasFields, SameBut

\* The start of the cluster at hand is before the target.
LEMMA HereBefore ==
  ASSUME NEW o, LooseOK(o), NEW target \in Nat \ {0}, SeekForward(o, target)
  PROVE  LET base == ((o.position - 1) \div UnitsPerCluster) * UnitsPerCluster
         IN  base \in Nat /\ target - base \in Nat \ {0}
<1> DEFINE C == UnitsPerCluster
           a == (o.position - 1) \div C
           b == (target - 1) \div C
           base == a * C
<1>1. C \in Nat \ {0} /\ o.position - 1 \in Nat /\ target - 1 \in Nat /\ a <= b
  BY FileUnits DEF LooseOK, SeekForward
<1>2. base \in Nat /\ base <= target - 1
  <2> DEFINE m == o.position - 1
             t == target - 1
  <2>1. m \in Nat /\ t \in Nat /\ a = m \div C /\ b = t \div C
    BY <1>1
  <2> HIDE DEF m, t, a, b, C
  <2>2. a \in Nat /\ b \in Nat
    BY <1>1, <2>1
  <2>3. t = C * b + (t % C) /\ t % C \in 0 .. C - 1
    <3>1. t = C * b + (t % C)
      BY <1>1, <2>1
    <3>2. t % C \in 0 .. C - 1
      BY <1>1, <2>1
    <3> QED
      BY <3>1, <3>2
  <2>4. PICK d \in Nat : b = a + d
    <3>1. b - a \in Nat /\ b = a + (b - a)
      BY <1>1, <2>2
    <3> QED
      BY <3>1
  <2>5. C * b = C * a + C * d /\ C * d \in Nat /\ C * a \in Nat /\ a * C = C * a
    BY <1>1, <2>2, <2>4
  <2> QED
    BY <1>1, <2>3, <2>5 DEF t
<1> HIDE DEF base
<1>3. target - base \in Nat \ {0}
  BY <1>2
<1> QED
  BY <1>2, <1>3 DEF base

\* seek from the current cluster (3146).
LEMMA SeekFromHereStays ==
  ASSUME NEW v, VolumeOK(v), LooseOK(v.o), NEW target \in Nat \ {0}, SeekForward(v.o, target)
  PROVE  Sought(v, SeekFromHere(v, target))
<1> DEFINE base == ((v.o.position - 1) \div UnitsPerCluster) * UnitsPerCluster
           x == [ v EXCEPT !.o.position = base ]
           rest == target - base
           w == SeekOn(x, rest)
<1>1. SeekFromHere(v, target) = w
  BY DEF SeekFromHere
<1>3. base \in Nat /\ rest \in Nat \ {0}
  BY HereBefore
<1> HIDE DEF base
<1>4. rest \in Nat \ {0}
  BY <1>3
<1>5. FileStays(v, x) /\ VolumeOK(x) /\ LooseOK(x.o) /\ SameBut(v.o, x.o, SeekFields)
  <2>1. /\ x = [ f \in DOMAIN x |-> x[f] ] /\ SameBut(v, x, { "o" })
        /\ x.o = [ v.o EXCEPT !.position = base ]
    BY Fields DEF SameBut, VolumeFields
  <2> HIDE DEF x
  <2>2. LooseOK(x.o) /\ SameBut(v.o, x.o, SeekFields)
    BY <1>3, <2>1, PlacedOK
  <2> QED
    BY <2>1, <2>2, FileSet DEF SameBut, OuterFields
<1> HIDE DEF x, rest
<1>6. FileStaysOrFails(x, w) /\ SameBut(x.o, w.o, SeekFields) /\ (w.result = "OK" => w.value \in DataSectors \cup { NoSector })
  BY <1>4, <1>5, SeekOnStays
<1> HIDE DEF w
<1> QED
  BY <1>1, <1>5, <1>6, FileTwice, SeeksOn DEF Sought

\* seek from the first cluster (3153).
LEMMA SeekFromStartStays ==
  ASSUME NEW v, VolumeOK(v), LooseOK(v.o), NEW target \in Nat \ {0}
  PROVE  Sought(v, SeekFromStart(v, target))
<1> DEFINE h == CreateChain(v, 0)
           g == Gives(v, v.o.start)
           c == IF v.o.start = 0 THEN h ELSE g
           y == [ c EXCEPT !.o.start = c.value, !.o.cluster = c.value, !.o.position = 0 ]
           r == IF c.value = 1 THEN "INT_ERR" ELSE "DISK_ERR"
           x == [ c EXCEPT !.o.position = 0, !.result = r ]
           z == [ y EXCEPT !.result = "OK", !.value = NoSector ]
           s == SeekOn(y, target)
           w == SeekFromStart(v, target)
<1>1. /\ VolumeOK(c) /\ DOMAIN c = DOMAIN v /\ c.fault = v.fault /\ c.o = v.o
      /\ c.value \in Clusters \cup { 0, 1, Ones }
      /\ c.value \notin { 1, Ones } => (Right(v) => Right(c))
  <2>1. CASE c = h
    <3>1. ChainStays(v, h)
      BY CreateChainStays
    <3> HIDE DEF h, c
    <3> QED
      BY <2>1, <3>1, RestIsKept DEF ChainStays
  <2>2. CASE c = g
    <3>1. v.o.start \in Clusters \cup { 0 }
      BY DEF LooseOK
    <3>2. FileStays(v, g) /\ VolumeOK(g) /\ g.o = v.o /\ g.value = v.o.start
      BY GivesFile
    <3> HIDE DEF g, c
    <3> QED
      BY <2>2, <3>1, <3>2 DEF FileStays, Stays
  <2> QED
    BY <2>1, <2>2
<1>2. \/ c.value \in { 1, Ones } /\ w = x
      \/ c.value = 0 /\ c.value \notin { 1, Ones } /\ w = z
      \/ c.value \notin { 0, 1, Ones } /\ w = s
  <2>0. w = SeekFromStart(v, target)
    OBVIOUS
  <2> HIDE DEF w
  <2> QED
    BY <2>0 DEF SeekFromStart, With
<1> HIDE DEF c, w
<1>3. VolumeFields \subseteq DOMAIN c /\ c = [ f \in DOMAIN c |-> c[f] ]
  BY <1>1, Fields
<1>4. ASSUME c.value \in { 1, Ones } PROVE Sought(v, x)
  <2>1. r \in Errors
    BY NoErrors
  <2> HIDE DEF r
  <2>2. /\ x = [ f \in DOMAIN x |-> x[f] ] /\ SameBut(c, x, { "o", "result" }) /\ x.result = r
        /\ x.o = [ v.o EXCEPT !.position = 0 ]
    BY <1>1, <1>3 DEF SameBut, VolumeFields, TableFields
  <2> HIDE DEF x
  <2>3. LooseOK(x.o) /\ SameBut(v.o, x.o, SeekFields)
    BY <2>2, PlacedOK
  <2>4. FileStays(c, x)
    BY <1>1, <2>2, <2>3, FileSet DEF SameBut, OuterFields
  <2> QED
    BY <1>1, <2>1, <2>2, <2>3, <2>4, NoErrors DEF Sought, FileStays, FileStaysOrFails, Stays, StaysOrFails
<1>5. ASSUME c.value \notin { 1, Ones }
      PROVE  /\ FileStaysOrFails(v, y) /\ VolumeOK(y) /\ LooseOK(y.o) /\ SameBut(v.o, y.o, SeekFields)
             /\ Right(v) => Right(y)
             /\ y.fault = v.fault /\ DOMAIN y = DOMAIN v
  <2>1. c.value \in Clusters \cup { 0 }
    BY <1>1, <1>5
  <2>2. /\ y = [ f \in DOMAIN y |-> y[f] ] /\ SameBut(c, y, { "o" })
        /\ y.o = [ v.o EXCEPT !.start = c.value, !.cluster = c.value, !.position = 0 ]
    BY <1>1, <1>3 DEF SameBut, VolumeFields, TableFields
  <2> HIDE DEF y
  <2>3. LooseOK(y.o) /\ SameBut(v.o, y.o, SeekFields)
    BY <2>1, <2>2, StartedOK
  <2>4. FileStays(c, y)
    BY <1>1, <2>2, <2>3, FileSet DEF SameBut, OuterFields
  <2> QED
    BY <1>1, <1>5, <2>3, <2>4 DEF FileStays, FileStaysOrFails, Stays, StaysOrFails
<1>6. ASSUME c.value \notin { 1, Ones } PROVE Sought(v, z)
  <2>1. VolumeFields \subseteq DOMAIN y /\ y = [ f \in DOMAIN y |-> y[f] ]
    BY <1>5, <1>6, Fields
  <2>2. Right(v) => Right(y)
    BY <1>5, <1>6
  <2>3. /\ VolumeOK(y) /\ LooseOK(y.o) /\ SameBut(v.o, y.o, SeekFields) /\ y.fault = v.fault /\ DOMAIN y = DOMAIN v
    BY <1>5, <1>6
  <2> HIDE DEF y
  <2>4. /\ z = [ f \in DOMAIN z |-> z[f] ] /\ SameBut(y, z, { "result", "value" }) /\ z.value = NoSector
        /\ z.o = y.o
    BY <2>1 DEF SameBut, VolumeFields, TableFields
  <2> HIDE DEF z
  <2>5. FileStays(y, z)
    BY <2>3, <2>4, FileSet DEF SameBut, OuterFields
  <2> QED
    BY <2>2, <2>3, <2>4, <2>5 DEF Sought, FileStays, FileStaysOrFails, Stays, StaysOrFails
<1>7. ASSUME c.value \notin { 1, Ones } PROVE Sought(v, s)
  <2>1. Right(v) => Right(y)
    BY <1>5, <1>7
  <2>2. /\ VolumeOK(y) /\ LooseOK(y.o) /\ SameBut(v.o, y.o, SeekFields) /\ y.fault = v.fault /\ DOMAIN y = DOMAIN v
    BY <1>5, <1>7
  <2> HIDE DEF y
  <2>3. FileStaysOrFails(y, s) /\ SameBut(y.o, s.o, SeekFields) /\ (s.result = "OK" => s.value \in DataSectors \cup { NoSector })
    BY <2>2, SeekOnStays
  <2> HIDE DEF s
  <2>4. SameBut(v.o, s.o, SeekFields)
    BY <2>2, <2>3, SeeksOn
  <2> QED
    BY <2>1, <2>2, <2>3, <2>4 DEF Sought, FileStays, FileStaysOrFails, Stays, StaysOrFails
<1>8. Sought(v, w)
  <2> HIDE DEF x, z, s
  <2> QED
    BY <1>2, <1>4, <1>6, <1>7
<1> QED
  BY <1>8 DEF w

\* seek (3133): the size follows the position.
LEMMA SeekStays ==
  ASSUME NEW v, VolumeOK(v), ObjectOK(v.o), v.o.result = "OK", NEW position \in Nat
  PROVE  CallStays(v, Seek(v, position))
<1> DEFINE target == IF position > v.o.size /\ ~v.o.write THEN v.o.size ELSE position
           zero == [ v EXCEPT !.o.position = 0, !.value = NoSector ]
           m == IF target = 0 THEN zero
                ELSE IF SeekForward(v.o, target) THEN SeekFromHere(v, target)
                ELSE SeekFromStart(v, target)
           b == WriteBack(m)
           f == Fill(b, m.value)
           n == IF b.result = "OK" THEN f ELSE b
           c == IF m.result # "OK" THEN m
                ELSE IF Aligned(m.o.position) \/ m.value = m.o.cached THEN m ELSE n
           x == [ c EXCEPT !.o.size = c.o.position, !.o.written = TRUE ]
           g == IF c.result # "OK" THEN c ELSE IF c.o.position > c.o.size THEN x ELSE c
           a == Abort(g)
           w == Fails(a, a.o.result)
           P(u) == FileStaysOrFails(v, u) /\ VolumeOK(u) /\ LooseOK(u.o) /\ u.o.result = "OK"
<1>1. Seek(v, position) = w
  <2> HIDE DEF m, target
  <2>1. Seek(v, position) =
          LET Cache(e) ==
                IF Aligned(e.o.position) \/ e.value = e.o.cached THEN e
                ELSE Then(WriteBack(e), LAMBDA u : Fill(u, e.value))
              Grow(e) ==
                IF e.o.position > e.o.size THEN [ e EXCEPT !.o.size = e.o.position, !.o.written = TRUE ] ELSE e
          IN  With(Abort(Then(Then(m, Cache), Grow)), LAMBDA e : Fails(e, e.o.result))
    BY DEF Seek, m, target
  <2>2. c = LET Cache(e) ==
                IF Aligned(e.o.position) \/ e.value = e.o.cached THEN e
                ELSE Then(WriteBack(e), LAMBDA u : Fill(u, e.value))
            IN  Then(m, Cache)
    BY DEF Then
  <2> HIDE DEF c
  <2>3. g = LET Grow(e) ==
                IF e.o.position > e.o.size THEN [ e EXCEPT !.o.size = e.o.position, !.o.written = TRUE ] ELSE e
            IN  Then(c, Grow)
    BY DEF Then
  <2> HIDE DEF g
  <2> QED
    BY <2>1, <2>2, <2>3 DEF With
<1>2. LooseOK(v.o) /\ target \in Nat
  BY LooseAndResult DEF ObjectOK
<1> HIDE DEF target
<1>3. Sought(v, m)
  <2>1. CASE target = 0
    <3>1. /\ zero = [ e \in DOMAIN zero |-> zero[e] ] /\ SameBut(v, zero, { "o", "value" })
          /\ zero.o = [ v.o EXCEPT !.position = 0 ] /\ zero.value = NoSector
      BY Fields DEF SameBut, VolumeFields, TableFields
    <3>2. m = zero
      BY <2>1
    <3> HIDE DEF zero, m
    <3>3. LooseOK(zero.o) /\ SameBut(v.o, zero.o, SeekFields)
      BY <1>2, <3>1, PlacedOK
    <3>4. FileStays(v, zero)
      BY <3>1, <3>3, FileSet DEF SameBut, OuterFields
    <3> QED
      BY <3>1, <3>2, <3>3, <3>4, FileIsFileOrFails DEF Sought
  <2>2. CASE target # 0
    <3>1. target \in Nat \ {0}
      BY <1>2, <2>2
    <3>2. SeekForward(v.o, target) => Sought(v, SeekFromHere(v, target))
      BY <1>2, <3>1, SeekFromHereStays
    <3>3. Sought(v, SeekFromStart(v, target))
      BY <1>2, <3>1, SeekFromStartStays
    <3> QED
      BY <2>2, <3>2, <3>3
  <2> QED
    BY <2>1, <2>2
<1> HIDE DEF m
<1>4. P(m)
  BY <1>2, <1>3, SeeksOn DEF Sought, FileStaysOrFails, StaysOrFails
<1>5. P(c)
  <2>1. ASSUME m.result = "OK" PROVE P(n)
    <3>1. m.value \in DataSectors \cup { NoSector }
      BY <1>3, <2>1 DEF Sought
    <3>2. FileStays(m, b) /\ VolumeOK(b) /\ LooseOK(b.o) /\ SameBut(m.o, b.o, { "dirty" })
      BY <1>4, WriteBackStays
    <3> HIDE DEF b
    <3>3. FileStays(b, f) /\ VolumeOK(f) /\ LooseOK(f.o) /\ SameBut(b.o, f.o, { "units", "cached" })
      BY <3>1, <3>2, FillStays
    <3> HIDE DEF f
    <3>4. b.o.result = "OK" /\ f.o.result = "OK"
      BY <1>4, <3>2, <3>3, ClosedFields DEF SameBut, LooseOK, HasFields
    <3>5. FileStays(m, f)
      BY <3>2, <3>3, FileTwice
    <3>6. FileStaysOrFails(v, b) /\ FileStaysOrFails(v, f)
      BY <1>4, <2>1, <3>2, <3>5, FileOrFailsTwice, NoErrors
    <3> QED
      BY <3>2, <3>3, <3>4, <3>6
  <2> HIDE DEF n, P
  <2> QED
    BY <1>4, <2>1
<1> HIDE DEF c
<1>6. P(g) /\ g.result = c.result /\ (g.result = "OK" => g.o.position <= g.o.size)
  <2>1. c.result = "OK" => P(x) /\ x.result = c.result /\ x.o.position <= x.o.size
    <3> SUFFICES ASSUME c.result = "OK" PROVE P(x) /\ x.result = c.result /\ x.o.position <= x.o.size
      OBVIOUS
    <3> DEFINE p == c.o.position
    <3>1. p \in Nat
      BY <1>5 DEF LooseOK
    <3>2. /\ x = [ e \in DOMAIN x |-> x[e] ] /\ SameBut(c, x, { "o" }) /\ x.result = c.result
          /\ x.o = [ c.o EXCEPT !.size = p, !.written = TRUE ]
      BY <1>5, Fields DEF SameBut, VolumeFields, TableFields
    <3> HIDE DEF x
    <3>3. LooseOK(x.o) /\ x.o.position = p /\ x.o.size = p /\ x.o.result = "OK"
      <4> DEFINE a1 == c.o
                 b1 == x.o
      <4>1. LooseOK(a1) /\ a1.position = p /\ a1.result = "OK"
        BY <1>5
      <4>2. b1 = [ a1 EXCEPT !.size = p, !.written = TRUE ]
        BY <3>2
      <4> HIDE DEF p, P, a1, b1
      <4>3. DOMAIN Closed \subseteq DOMAIN a1 /\ a1 = [ e \in DOMAIN a1 |-> a1[e] ]
        BY <4>1, ClosedFields DEF LooseOK, HasFields
      <4>4. b1 = [ e \in DOMAIN b1 |-> b1[e] ] /\ SameBut(a1, b1, { "size", "written" }) /\ b1.size = p
        BY <4>2, <4>3, ClosedFields DEF SameBut
      <4> QED
        BY <4>1, <4>4, GrownOK DEF b1
    <3>4. FileStays(c, x)
      BY <1>5, <3>2, <3>3, FileSet DEF SameBut, OuterFields
    <3>5. FileStaysOrFails(v, x)
      BY <1>5, <3>4, FileOrFailsTwice, NoErrors
    <3> HIDE DEF p
    <3> QED
      BY <3>1, <3>2, <3>3, <3>5 DEF FileStaysOrFails, StaysOrFails
  <2>2. c.o.position \in Nat /\ c.o.size \in Nat
    BY <1>5 DEF LooseOK
  <2> HIDE DEF P, x
  <2> QED
    BY <1>5, <2>1, <2>2
<1> HIDE DEF g
<1>7. /\ FileStays(g, a) /\ VolumeOK(a) /\ LooseOK(a.o) /\ a.result = g.result
      /\ g.result = "OK" => a = g
      /\ g.result # "OK" => a.o.result = g.result
  BY <1>6, AbortStays
<1> HIDE DEF a
<1>8. FileStays(a, w) /\ w.o = a.o /\ w.result = a.o.result
  BY <1>7, FailsFile
<1> HIDE DEF w
<1>9. FileStays(g, w) /\ w.result = g.result
  BY <1>6, <1>7, <1>8, FileTwice
<1>10. StaysOrFails(v, w)
  BY <1>6, <1>9 DEF FileStays, FileStaysOrFails, Stays, StaysOrFails
<1>11. w.o.result = "OK" => w.o.position <= w.o.size
  BY <1>6, <1>7, <1>8
<1> QED
  BY <1>1, <1>7, <1>8, <1>10, <1>11, LooseAndResult DEF CallStays

-----------------------------------------------------------------------------
(* Truncating, syncing, closing, opening. *)

\* A cluster that was in use is marked as the last one: nothing is freed by that.
LEMMA LastLinkStays ==
  ASSUME NEW v, VolumeOK(v), NEW c \in Clusters, ~v.dead => LinkOn(Logical(v), c) # 0
  PROVE  LET w == PutFat(v, c, LastLink)
         IN  /\ VolumeOK(w) /\ DOMAIN w = DOMAIN v /\ w.fault = v.fault /\ w.o = v.o /\ w.value = v.value
             /\ w.result \in { "OK", "DISK_ERR" }
             /\ w.result = "OK" => (Right(v) => Right(w))
<1> DEFINE w == PutFat(v, c, LastLink)
<1>1. LinkStays(v, w, c, LastLink)
  BY PutFatStays DEF LinkValues
<1> HIDE DEF w
<1>2. VolumeOK(w) /\ SameBut(v, w, WindowFields) /\ w.result \in { "OK", "DISK_ERR" }
  BY <1>1 DEF LinkStays, LinkPut
<1>3. DOMAIN w = DOMAIN v /\ w.fault = v.fault /\ w.o = v.o /\ w.value = v.value /\ w.free = v.free
  BY <1>2, Fields DEF SameBut, WindowFields, VolumeFields, TableFields
<1>4. ASSUME w.result = "OK", v.fault = "none", Accurate(v) PROVE Accurate(w)
  <2>1. Informed(w) /\ ~v.dead
    BY <1>1, <1>4 DEF LinkStays, Accurate, Informed
  <2>2. Logical(w) = WithLink(Logical(v), c, LastLink)
    BY <1>1, <1>4, <2>1 DEF LinkStays, LinkPut, Informed
  <2>3. IsCard(Logical(v))
    BY LogicalIsCard DEF VolumeOK
  <2>4. LastLink \in 0 .. Ones /\ LastLink # 0 /\ LinkOn(Logical(v), c) # 0
    BY <2>1, Numbers
  <2>5. Cardinality(FreeClusters(Logical(w))) = Cardinality(FreeClusters(Logical(v)))
    BY <2>2, <2>3, <2>4, FreeAfter
  <2> QED
    BY <1>3, <1>4, <2>1, <2>5 DEF Accurate
<1> QED
  BY <1>2, <1>3, <1>4 DEF Right, w

\* The clusters that truncate frees (3247).
LEMMA CutOffStays ==
  ASSUME NEW v, VolumeOK(v), LooseOK(v.o)
  PROVE  LET w == CutOff(v)
         IN  FileStaysOrFails(v, w) /\ SameBut(v.o, w.o, { "start" })
<1> DEFINE r == RemoveChain(v, v.o.start)
           x == [ r EXCEPT !.o.start = 0 ]
           c == v.o.cluster
           g == GetFat(v, c)
           u == PutFat(g, c, LastLink)
           y == RemoveChain(u, u.value)
           w == CutOff(v)
           P(z) == FileStaysOrFails(v, z) /\ SameBut(v.o, z.o, { "start" })
<1> SUFFICES P(w)
  OBVIOUS
<1>1. \/ v.o.position = 0 /\ w = x
      \/ g.value = 1 /\ w = Fails(g, "INT_ERR")
      \/ g.value = Ones /\ w = Fails(g, "DISK_ERR")
      \/ w = Fails(g, "OK")
      \/ g.value \notin { 1, Ones } /\ ~(g.value >= NumFatEntries) /\ u.result # "OK" /\ w = u
      \/ g.value \notin { 1, Ones } /\ ~(g.value >= NumFatEntries) /\ u.result = "OK" /\ w = y
  BY DEF CutOff, With, Then
<1> HIDE DEF w
<1>2. P(x)
  <2>1. FileStays(v, r) /\ VolumeOK(r) /\ r.o = v.o
    <3>1. Stays(v, r) /\ SameBut(v, r, ChainFields)
      BY RemoveChainStays
    <3> HIDE DEF r
    <3> QED
      BY <3>1, TableKeepsFile
  <2> HIDE DEF r
  <2>2. x = [ f \in DOMAIN x |-> x[f] ] /\ SameBut(r, x, { "o" }) /\ x.o = [ v.o EXCEPT !.start = 0 ]
    BY <2>1, Fields DEF SameBut, VolumeFields
  <2> HIDE DEF x
  <2>3. LooseOK(x.o) /\ SameBut(v.o, x.o, { "start" })
    BY <2>2, ClosedFields DEF LooseOK, HasFields, SameBut
  <2>4. FileStays(v, x)
    BY <2>1, <2>2, <2>3, FileSet, FileTwice DEF SameBut, OuterFields
  <2> QED
    BY <2>3, <2>4, FileIsFileOrFails
<1>3. /\ FileStays(v, g) /\ VolumeOK(g) /\ LooseOK(g.o) /\ g.o = v.o
      /\ g.value \in LinkValues \cup { 1, Ones }
      /\ c \notin Clusters => g.value = 1
      /\ c \in Clusters /\ ~g.dead /\ g.value # Ones => LinkOn(Logical(g), c) = g.value
  <2>1. /\ Stays(v, g) /\ SameBut(v, g, WindowFields \cup { "value" })
        /\ g.value \in LinkValues \cup { 1, Ones }
        /\ c \notin Clusters => g.value = 1
        /\ c \in Clusters /\ ~g.dead =>
             /\ ~v.dead /\ Logical(g) = Logical(v)
             /\ g.value # Ones => g.value = LinkOn(Logical(v), c)
    BY GetFatStays
  <2> HIDE DEF g, c
  <2>2. SameBut(v, g, ChainFields)
    BY <2>1 DEF SameBut, ChainFields
  <2> QED
    BY <2>1, <2>2, TableKeepsFile
<1> HIDE DEF g
<1>4. SameBut(v.o, v.o, { "start" })
  BY DEF SameBut
<1>5. \A e : FileStays(v, Fails(g, e)) /\ Fails(g, e).o = v.o
  BY <1>3, FailsFile, FileTwice
<1>6. \A e : P(Fails(g, e))
  BY <1>4, <1>5, FileIsFileOrFails
<1>7. ASSUME g.value \notin { 1, Ones }, ~(g.value >= NumFatEntries)
      PROVE  (u.result # "OK" => P(u)) /\ (u.result = "OK" => P(y))
  <2>1. c \in Clusters /\ g.value \in Clusters \cup { 0 }
    BY <1>3, <1>7, TableAssumption DEF LinkValues
  <2>2. CASE g.value = 0
    <3>1. VolumeOK(u) /\ SameBut(g, u, WindowFields) /\ u.result \in { "OK", "DISK_ERR" }
      BY <1>3, <2>1, PutFatStays DEF LinkStays, LinkPut, LinkValues
    <3> DEFINE f == Fails(u, "INT_ERR")
    <3>2. y = f
      <4>1. u.value = 0
        BY <1>3, <2>2, <3>1, Fields DEF SameBut, WindowFields, TableFields
      <4> HIDE DEF u
      <4> QED
        BY <4>1, Numbers DEF RemoveChain
    <3> HIDE DEF u, y
    <3>3. DOMAIN u = DOMAIN v /\ u.fault = v.fault /\ u.o = v.o
      BY <1>3, <3>1, Fields DEF SameBut, WindowFields, VolumeFields, TableFields, FileStays, Stays
    <3>4. StaysOrFails(v, f)
      BY <3>1, <3>3, ErrorIsToldOf, NoErrors
    <3>5. f.o = v.o
      BY <3>1, <3>3, FailsFile
    <3>6. u.result # "OK" => StaysOrFails(v, u)
      BY <3>1, <3>3, NoErrors DEF StaysOrFails
    <3> HIDE DEF f
    <3> QED
      BY <1>4, <3>2, <3>3, <3>4, <3>5, <3>6 DEF FileStaysOrFails
  <2>3. CASE g.value # 0
    <3>1. /\ VolumeOK(u) /\ DOMAIN u = DOMAIN g /\ u.fault = g.fault /\ u.o = g.o
          /\ u.result \in { "OK", "DISK_ERR" }
          /\ u.result = "OK" => (Right(g) => Right(u))
      BY <1>3, <1>7, <2>1, <2>3, LastLinkStays
    <3> HIDE DEF u
    <3>2. StaysOrFails(v, u) /\ u.o = v.o
      BY <1>3, <3>1, NoErrors DEF StaysOrFails, FileStays, Stays
    <3>3. P(u)
      BY <1>4, <3>2 DEF FileStaysOrFails
    <3>4. FileStays(u, y) /\ y.o = u.o
      <4>1. Stays(u, y) /\ SameBut(u, y, ChainFields)
        BY <3>1, RemoveChainStays
      <4> HIDE DEF y
      <4> QED
        BY <3>1, <3>2, <4>1, TableKeepsFile
    <3> HIDE DEF y
    <3>5. u.result = "OK" => P(y)
      BY <1>4, <3>2, <3>3, <3>4, FileOrFailsTwice, NoErrors
    <3> QED
      BY <3>3, <3>5
  <2> QED
    BY <2>2, <2>3
<1> HIDE DEF P, x, u, y
<1> QED
  BY <1>1, <1>2, <1>6, <1>7

\* The result of the call becomes that of the object.
LEMMA KeepResultStays ==
  ASSUME NEW v, VolumeOK(v), LooseOK(v.o), NEW r, NEW w,
         w = [ f \in DOMAIN w |-> w[f] ], SameBut(v, w, { "o", "result" }),
         w.o = [ v.o EXCEPT !.result = r ]
  PROVE  /\ FileStays(v, w) /\ VolumeOK(w) /\ LooseOK(w.o)
         /\ SameBut(v.o, w.o, { "result" }) /\ w.o.result = r
<1>1. LooseOK(w.o) /\ SameBut(v.o, w.o, { "result" }) /\ w.o.result = r
  BY ClosedFields DEF LooseOK, HasFields, SameBut
<1> QED
  BY <1>1, FileSet DEF SameBut, OuterFields

\* truncate (3234).
LEMMA TruncateStays ==
  ASSUME NEW v, VolumeOK(v), ObjectOK(v.o)
  PROVE  CallStays(v, Truncate(v))
<1> DEFINE p == v.o.position
           o == [ v.o EXCEPT !.size = p, !.written = TRUE, !.shortened = TRUE ]
           v0 == [ v EXCEPT !.o = o ]
           c == CutOff(v0)
           b == WriteBack(c)
           e == IF c.result = "OK" THEN b ELSE c
           f == Fails(v, "OK")
           d == IF v.o.size > p THEN e ELSE f
           k == KeepResult(d)
           n == [ v EXCEPT !.o.result = "DENIED", !.result = "DENIED" ]
           w == Truncate(v)
<1>1. \/ ~v.o.write /\ w = n
      \/ v.o.write /\ v.o.result # "OK" /\ w = Fails(v, v.o.result)
      \/ v.o.result = "OK" /\ w = k
  BY DEF Truncate, Then, LooseOK, ObjectOK
<1> HIDE DEF w
<1>2. LooseOK(v.o) /\ p \in Nat /\ v.o.size \in Nat /\ (v.o.result = "OK" => p <= v.o.size)
  BY LooseAndResult DEF ObjectOK
<1>3. CallStays(v, n)
  <2>1. /\ n = [ g \in DOMAIN n |-> n[g] ] /\ SameBut(v, n, { "o", "result" })
        /\ n.o = [ v.o EXCEPT !.result = "DENIED" ]
    BY Fields DEF SameBut, VolumeFields, TableFields
  <2> HIDE DEF n
  <2>2. FileStays(v, n) /\ LooseOK(n.o) /\ n.o.result = "DENIED"
    BY <1>2, <2>1, KeepResultStays
  <2> QED
    BY <2>2, LooseAndResult, StaysIsEnds DEF CallStays, FileStays
<1>4. CallStays(v, Fails(v, v.o.result))
  <2>1. FileStays(v, Fails(v, v.o.result)) /\ Fails(v, v.o.result).o = v.o
    BY <1>2, FailsFile
  <2> QED
    BY <2>1, StaysIsEnds DEF CallStays, FileStays
<1>5. FileStaysOrFails(v, e) /\ e.o.position = e.o.size
  <2> DEFINE P(z) == FileStaysOrFails(v, z) /\ VolumeOK(z) /\ LooseOK(z.o) /\ z.o.position = p /\ z.o.size = p
  <2>1. FileStays(v, v0) /\ VolumeOK(v0) /\ LooseOK(v0.o) /\ v0.o.position = p /\ v0.o.size = p
    <3>1. LooseOK(o) /\ o.position = p /\ o.size = p
      <4> DEFINE a1 == v.o
      <4>1. DOMAIN Closed \subseteq DOMAIN a1 /\ a1 = [ z \in DOMAIN a1 |-> a1[z] ] /\ p = a1.position
            /\ LooseOK(a1) /\ o = [ a1 EXCEPT !.size = p, !.written = TRUE, !.shortened = TRUE ]
        BY <1>2 DEF LooseOK, HasFields
      <4> HIDE DEF a1, o, p
      <4>2. o = [ z \in DOMAIN o |-> o[z] ] /\ SameBut(a1, o, { "size", "written", "shortened" }) /\ o.size = p
        BY <4>1, ClosedFields DEF SameBut
      <4> QED
        BY <1>2, <4>1, <4>2, ClosedFields DEF LooseOK, HasFields, SameBut
    <3> HIDE DEF o
    <3>2. v0 = [ g \in DOMAIN v0 |-> v0[g] ] /\ SameBut(v, v0, { "o" }) /\ v0.o = o
      BY Fields DEF SameBut, VolumeFields
    <3> HIDE DEF v0, p
    <3> QED
      BY <3>1, <3>2, FileSet DEF SameBut, OuterFields
  <2> HIDE DEF v0, p
  <2>2. P(c)
    <3>1. FileStaysOrFails(v0, c) /\ SameBut(v0.o, c.o, { "start" })
      BY <2>1, CutOffStays
    <3> HIDE DEF c
    <3>2. c.o.position = p /\ c.o.size = p
      BY <2>1, <3>1, ClosedFields DEF LooseOK, HasFields, SameBut
    <3> QED
      BY <2>1, <3>1, <3>2, FileTwice DEF FileStaysOrFails, StaysOrFails
  <2> HIDE DEF c
  <2>3. ASSUME c.result = "OK" PROVE P(b)
    <3>1. FileStays(c, b) /\ VolumeOK(b) /\ LooseOK(b.o) /\ SameBut(c.o, b.o, { "dirty" })
      BY <2>2, WriteBackStays
    <3> HIDE DEF b
    <3>2. b.o.position = p /\ b.o.size = p
      BY <2>2, <3>1, ClosedFields DEF LooseOK, HasFields, SameBut
    <3> QED
      BY <2>2, <2>3, <3>1, <3>2, FileOrFailsTwice, NoErrors
  <2> HIDE DEF b
  <2>4. P(e)
    BY <2>2, <2>3
  <2> QED
    BY <2>4
<1> HIDE DEF e, p
<1>6. FileStays(v, f) /\ f.o = v.o
  BY <1>2, FailsFile
<1> HIDE DEF f
<1>7. v.o.result = "OK" => FileStaysOrFails(v, d) /\ d.o.position <= d.o.size
  <2>1. e.o.position \in Nat
    BY <1>5 DEF FileStaysOrFails, LooseOK
  <2> QED
    BY <1>2, <1>5, <1>6, <2>1, FileIsFileOrFails DEF p
<1> HIDE DEF d
<1>8. v.o.result = "OK" => CallStays(v, k)
  <2> SUFFICES ASSUME v.o.result = "OK" PROVE CallStays(v, k)
    OBVIOUS
  <2>1. VolumeOK(d) /\ LooseOK(d.o) /\ d.o.position <= d.o.size
    BY <1>7 DEF FileStaysOrFails, StaysOrFails
  <2> DEFINE r == d.result
  <2>2. k = [ g \in DOMAIN k |-> k[g] ] /\ SameBut(d, k, { "o", "result" }) /\ k.o = [ d.o EXCEPT !.result = r ]
        /\ k.result = d.result
    BY <2>1, Fields DEF KeepResult, SameBut, VolumeFields, TableFields
  <2> HIDE DEF k, r
  <2>3. FileStays(d, k) /\ LooseOK(k.o) /\ SameBut(d.o, k.o, { "result" })
    BY <2>1, <2>2, KeepResultStays
  <2>4. k.o.position <= k.o.size
    BY <2>1, <2>3, ClosedFields DEF LooseOK, HasFields, SameBut
  <2>5. StaysOrFails(v, k)
    BY <1>7, <2>2, <2>3 DEF FileStays, FileStaysOrFails, Stays, StaysOrFails
  <2> QED
    BY <2>3, <2>4, <2>5, LooseAndResult DEF CallStays
<1> HIDE DEF n, k
<1> QED
  BY <1>1, <1>3, <1>4, <1>8 DEF w

LEMMA WrittenOK ==
  ASSUME NEW o, LooseOK(o), NEW y, y = [ o EXCEPT !.written = FALSE ]
  PROVE  LooseOK(y) /\ SameBut(o, y, { "written" })
  BY ClosedFields DEF LooseOK, HasFields, SameBut

\* What sync puts into the entry.
LEMMA UpdateStays ==
  ASSUME NEW v, VolumeOK(v), LooseOK(v.o)
  PROVE  LET w == Update(v)
         IN  FileStays(v, w) /\ VolumeOK(w) /\ SameBut(v.o, w.o, { "written" })
<1> DEFINE w == Update(v)
           slot == v.o.slot
           old == v.buffer.entries[slot]
           size == v.o.size
           start == v.o.start
           e == [ old EXCEPT !.size = size, !.start = start ]
<1>1. VolumeFields \subseteq DOMAIN v /\ v = [ f \in DOMAIN v |-> v[f] ]
  BY Fields
<1>2. Belongs(v.sector, v.buffer)
  BY DEF VolumeOK
<1>3. /\ w = [ f \in DOMAIN w |-> w[f] ] /\ SameBut(v, w, { "buffer", "dirty", "o" }) /\ w.dirty = TRUE
      /\ w.o = [ v.o EXCEPT !.written = FALSE ]
      /\ HasFields(w.buffer, { "links", "entries", "units" })
      /\ w.buffer.links = v.buffer.links /\ w.buffer.units = v.buffer.units
      /\ w.buffer.entries = [ i \in DOMAIN w.buffer.entries |-> w.buffer.entries[i] ]
      /\ \A i \in DOMAIN w.buffer.entries : EntryOK(w.buffer.entries[i])
  <2>1. CASE slot \in DOMAIN v.buffer.entries
    <3> DEFINE es == [ v.buffer.entries EXCEPT ![slot] = e ]
               b == [ v.buffer EXCEPT !.entries = es ]
    <3>1. EntryOK(e)
      <4>1. EntryOK(old) /\ size \in Nat /\ start \in Clusters \cup { 0 }
        BY <1>2, <2>1 DEF Belongs, LooseOK
      <4> HIDE DEF old, size, start
      <4> QED
        BY <4>1 DEF EntryOK, HasFields
    <3>2. w = [ v EXCEPT !.buffer.entries[slot] = e, !.dirty = TRUE, !.o.written = FALSE ]
      BY <2>1 DEF Update
    <3> HIDE DEF e, w
    <3>3. b = [ f \in DOMAIN b |-> b[f] ] /\ DOMAIN b = DOMAIN v.buffer /\ b.entries = es
          /\ b.links = v.buffer.links /\ b.units = v.buffer.units
      <4> HIDE DEF es
      <4> QED
        BY <1>2 DEF Belongs, HasFields
    <3>4. /\ es = [ i \in DOMAIN es |-> es[i] ]
          /\ \A i \in DOMAIN es : EntryOK(es[i])
      <4> HIDE DEF slot
      <4> QED
        BY <1>2, <2>1, <3>1 DEF Belongs
    <3> DEFINE x == [ v.o EXCEPT !.written = FALSE ]
    <3>5. w = [ v EXCEPT !.buffer = b, !.dirty = TRUE, !.o = x ]
      BY <1>1, <1>2, <2>1, <3>2 DEF VolumeFields, TableFields, Belongs, HasFields
    <3> HIDE DEF b, es, x
    <3>6. w = [ f \in DOMAIN w |-> w[f] ] /\ SameBut(v, w, { "buffer", "dirty", "o" }) /\ w.dirty = TRUE
          /\ w.buffer = b /\ w.o = x
      BY <1>1, <3>5 DEF SameBut, VolumeFields, TableFields
    <3> QED
      BY <1>2, <3>3, <3>4, <3>6 DEF HasFields, Belongs, x
  <2>2. CASE slot \notin DOMAIN v.buffer.entries
    <3>1. w = [ v EXCEPT !.dirty = TRUE, !.o.written = FALSE ]
      BY <2>2 DEF Update
    <3> HIDE DEF w
    <3>2. w = [ f \in DOMAIN w |-> w[f] ] /\ SameBut(v, w, { "dirty", "o" }) /\ w.dirty = TRUE /\ w.buffer = v.buffer
          /\ w.o = [ v.o EXCEPT !.written = FALSE ]
      BY <1>1, <3>1 DEF SameBut, VolumeFields, TableFields
    <3> QED
      BY <1>2, <3>2 DEF SameBut, Belongs
  <2> QED
    BY <2>1, <2>2
<1> HIDE DEF w
<1>4. SameBut(v, w, { "buffer", "dirty" } \cup OuterFields)
  BY <1>1, <1>3 DEF SameBut, OuterFields
<1>5. LooseOK(w.o) /\ SameBut(v.o, w.o, { "written" })
  <2>1. w.o = [ v.o EXCEPT !.written = FALSE ]
    BY <1>3
  <2> QED
    BY <2>1, WrittenOK
<1>6. VolumeOK(w) /\ Stays(v, w)
  BY <1>3, <1>4, EntriesStay
<1> QED
  BY <1>5, <1>6 DEF FileStays, w

SyncFields == { "dirty", "written", "result" }

\* sync (3283).
LEMMA SyncStays ==
  ASSUME NEW v, VolumeOK(v), LooseOK(v.o)
  PROVE  LET w == Sync(v)
         IN  /\ FileStays(v, w) /\ VolumeOK(w) /\ LooseOK(w.o)
             /\ SameBut(v.o, w.o, SyncFields)
             /\ v.o.result = "OK" => (w.o.result = "OK" => w.o.position = v.o.position /\ w.o.size = v.o.size)
<1> DEFINE b == WriteBack(v)
           m == MoveWindow(b, b.o.dirSector)
           c == IF b.result = "OK" THEN m ELSE b
           u == Update(c)
           d == IF c.result = "OK" THEN u ELSE c
           s == SyncFs(d)
           e == IF d.result = "OK" THEN s ELSE d
           k == KeepResult(e)
           w == Sync(v)
           P(z) == FileStays(v, z) /\ VolumeOK(z) /\ LooseOK(z.o) /\ SameBut(v.o, z.o, SyncFields)
<1>1. w \in { k, Fails(v, v.o.result) }
  BY DEF Sync, Then
<1> HIDE DEF w
<1>2. P(Fails(v, v.o.result))
  <2>1. SameBut(v.o, v.o, SyncFields)
    BY DEF SameBut
  <2> QED
    BY <2>1, FailsFile
<1>3. P(b)
  <2>1. FileStays(v, b) /\ VolumeOK(b) /\ LooseOK(b.o) /\ SameBut(v.o, b.o, { "dirty" })
    BY WriteBackStays
  <2> HIDE DEF b
  <2> QED
    BY <2>1 DEF SameBut, SyncFields
<1> HIDE DEF b
<1>4. P(m)
  <2>1. Stays(b, m) /\ SameBut(b, m, WindowFields)
    BY <1>3, MoveWindowStays
  <2> HIDE DEF m
  <2>2. SameBut(b, m, ChainFields)
    BY <2>1 DEF SameBut, ChainFields
  <2>3. FileStays(b, m) /\ m.o = b.o
    BY <1>3, <2>1, <2>2, TableKeepsFile
  <2> QED
    BY <1>3, <2>3, FileTwice
<1> HIDE DEF m
<1>5. P(c)
  BY <1>3, <1>4
<1> HIDE DEF c
<1>6. P(u)
  <2>1. FileStays(c, u) /\ VolumeOK(u) /\ SameBut(c.o, u.o, { "written" })
    BY <1>5, UpdateStays
  <2> HIDE DEF u
  <2>2. SameBut(v.o, u.o, SyncFields)
    BY <1>5, <2>1 DEF SameBut, SyncFields
  <2> QED
    BY <1>5, <2>1, <2>2, FileTwice
<1> HIDE DEF u
<1>7. P(d)
  BY <1>5, <1>6
<1> HIDE DEF d
<1>8. P(s)
  <2>1. Stays(d, s) /\ SameBut(d, s, ChainFields)
    BY <1>7, SyncFsStays
  <2> HIDE DEF s
  <2>2. FileStays(d, s) /\ s.o = d.o
    BY <1>7, <2>1, TableKeepsFile
  <2> QED
    BY <1>7, <2>2, FileTwice
<1> HIDE DEF s
<1>9. P(e)
  BY <1>7, <1>8
<1> HIDE DEF e
<1>10. P(k)
  <2> DEFINE r == e.result
  <2>1. k = [ g \in DOMAIN k |-> k[g] ] /\ SameBut(e, k, { "o", "result" }) /\ k.o = [ e.o EXCEPT !.result = r ]
    BY <1>9, Fields DEF KeepResult, SameBut, VolumeFields, TableFields
  <2> HIDE DEF k, r
  <2>2. FileStays(e, k) /\ VolumeOK(k) /\ LooseOK(k.o) /\ SameBut(e.o, k.o, { "result" })
    BY <1>9, <2>1, KeepResultStays
  <2>3. SameBut(v.o, k.o, SyncFields)
    BY <1>9, <2>2 DEF SameBut, SyncFields
  <2> QED
    BY <1>9, <2>2, <2>3, FileTwice
<1> HIDE DEF k
<1>11. P(w)
  BY <1>1, <1>2, <1>10
<1>12. w.o.position = v.o.position /\ w.o.size = v.o.size
  BY <1>11, ClosedFields DEF SameBut, SyncFields, LooseOK, HasFields
<1> QED
  BY <1>11, <1>12 DEF w

\* sync as a call on an object without an error.
LEMMA SyncCallStays ==
  ASSUME NEW v, VolumeOK(v), ObjectOK(v.o), v.o.result = "OK"
  PROVE  CallStays(v, Sync(v))
<1> DEFINE w == Sync(v)
<1>1. LooseOK(v.o) /\ v.o.position <= v.o.size
  BY LooseAndResult
<1>2. /\ FileStays(v, w) /\ LooseOK(w.o)
      /\ w.o.result = "OK" => w.o.position = v.o.position /\ w.o.size = v.o.size
  BY <1>1, SyncStays
<1> HIDE DEF w
<1>3. CallStays(v, w)
  BY <1>1, <1>2, LooseAndResult, StaysIsEnds DEF CallStays, FileStays
<1> QED
  BY <1>3 DEF w

\* The destructor (2806).
LEMMA CloseStays ==
  ASSUME NEW v, VolumeOK(v), LooseOK(v.o)
  PROVE  LET w == Close(v) IN FileStays(v, w) /\ w.o.open = FALSE
<1> DEFINE opens == v.locks[v.o.key]
           left == IF opens \in { 1, WriteOpen } THEN [ k \in DOMAIN v.locks \ { v.o.key } |-> v.locks[k] ]
                   ELSE [ v.locks EXCEPT ![v.o.key] = opens - 1 ]
           s == Sync(v)
           x == [ s EXCEPT !.locks = left ]
           y == IF s.result = "OK" THEN x ELSE s
           w == Close(v)
<1>1. w = [ y EXCEPT !.o.open = FALSE ]
  BY DEF Close, Then
<1> HIDE DEF w, left
<1>2. FileStays(v, s) /\ VolumeOK(s) /\ LooseOK(s.o)
  BY SyncStays
<1> HIDE DEF s
<1>3. FileStays(v, x) /\ VolumeOK(x) /\ LooseOK(x.o)
  <2>1. x = [ f \in DOMAIN x |-> x[f] ] /\ SameBut(s, x, { "locks" }) /\ x.o = s.o
    BY <1>2, Fields DEF SameBut, VolumeFields
  <2> HIDE DEF x
  <2> QED
    BY <1>2, <2>1, FileSet, FileTwice DEF SameBut, OuterFields
<1> HIDE DEF x
<1>4. FileStays(v, y) /\ VolumeOK(y) /\ LooseOK(y.o)
  BY <1>2, <1>3
<1> HIDE DEF y
<1>5. w = [ f \in DOMAIN w |-> w[f] ] /\ SameBut(y, w, { "o" }) /\ w.o = [ y.o EXCEPT !.open = FALSE ]
  BY <1>1, <1>4, Fields DEF SameBut, VolumeFields
<1>6. LooseOK(w.o) /\ w.o.open = FALSE
  BY <1>4, <1>5, ClosedFields DEF LooseOK, HasFields
<1>7. FileStays(v, w)
  BY <1>4, <1>5, <1>6, FileSet, FileTwice DEF SameBut, OuterFields
<1> QED
  BY <1>6, <1>7 DEF w

\* The constructor (2708), where loadCluster takes the first cluster whole: the object has
\* that and the size of the entry.
OpenWhole(v, path, write, dirSector) == Open(v, path, write, dirSector, TRUE)

LEMMA OpenStays ==
  ASSUME NEW v, VolumeOK(v), NEW path \in Seq(STRING), NEW write \in BOOLEAN, NEW dirSector
  PROVE  CallStays(v, OpenWhole(v, path, write, dirSector))
<1> DEFINE a == Walk(v, path)
           w == [ a EXCEPT !.o = Closed ]
           e == Shown(w)
           opens == IF Key(w) \in DOMAIN w.locks THEN w.locks[Key(w)] ELSE 0
           key == Key(w)
           start == e.start
           size == e.size
           sector == w.sector
           slot == w.dir.slot
           o == [ Closed EXCEPT !.open = TRUE, !.write = write, !.key = key, !.start = start,
                                !.size = size, !.dirSector = dirSector, !.ownSector = sector,
                                !.slot = slot ]
           misled == ~w.found
           locks == Entered(w.locks, Key(w), IF write THEN WriteOpen ELSE opens + 1)
           x == [ w EXCEPT !.o = o, !.misled = misled, !.locks = locks ]
           z == OpenWhole(v, path, write, dirSector)
<1>1. z = x \/ \E r : z = Fails(w, r)
  <2>1. x = [ w EXCEPT !.o = o, !.misled = ~w.found, !.locks = Entered(@, Key(w), IF write THEN WriteOpen ELSE opens + 1) ]
    OBVIOUS
  <2>2. z = IF opens = WriteOpen \/ (write /\ opens > 0) THEN Fails(w, "LOCKED")
            ELSE IF opens = 0 /\ Cardinality(DOMAIN w.locks) >= FS_LOCK THEN Fails(w, "TOO_MANY_OPEN_FILES")
            ELSE IF e.kind = "dir" THEN Fails(w, "NO_FILE")
            ELSE IF write /\ e.readOnly THEN Fails(w, "DENIED")
            ELSE x
    <3> HIDE DEF x
    <3> QED
      BY <2>1 DEF OpenWhole, Open, LoadCluster
  <2> HIDE DEF x, z, w, e, opens
  <2> QED
    BY <2>2
<1> HIDE DEF z, misled, locks
<1>2. Stays(v, a) /\ VolumeOK(a)
  BY WalkStays DEF DirStays, Stays
<1> HIDE DEF a
<1>3. FileStays(v, w) /\ VolumeOK(w) /\ LooseOK(w.o) /\ w.o = Closed
  <2>1. w = [ f \in DOMAIN w |-> w[f] ] /\ SameBut(a, w, { "o" }) /\ w.o = Closed
    BY <1>2, Fields DEF SameBut, VolumeFields
  <2> HIDE DEF w
  <2>2. FileStays(a, w) /\ VolumeOK(w)
    BY <1>2, <2>1, ClosedOK, FileSet DEF SameBut, OuterFields
  <2> QED
    BY <1>2, <2>1, <2>2, ClosedOK, StaysAgain DEF FileStays
<1> HIDE DEF w
<1>4. \A r : CallStays(v, Fails(w, r))
  <2>1. \A r : FileStays(v, Fails(w, r)) /\ Fails(w, r).o = Closed
    BY <1>3, FailsFile, FileTwice
  <2> QED
    BY <2>1, ClosedOK, StaysIsEnds DEF CallStays, FileStays
<1>5. ObjectOK(o)
  <2>1. start \in Clusters \cup { 0 } /\ size \in Nat
    BY <1>3, ShownOK DEF EntryOK
  <2> HIDE DEF key, start, size, sector, slot
  <2> DEFINE o1 == [ Closed EXCEPT !.open = TRUE, !.write = write ]
             o2 == [ o1 EXCEPT !.key = key, !.start = start, !.size = size ]
             P(y) == /\ y = [ f \in DOMAIN y |-> y[f] ] /\ DOMAIN y = DOMAIN Closed
                     /\ y.position = 0 /\ y.cached = NoSector /\ y.units = NoUnits /\ y.dirty = FALSE
                     /\ y.open = TRUE /\ y.write = write
  <2>2. P(o1)
    BY DEF Closed
  <2>3. o = [ o2 EXCEPT !.dirSector = dirSector, !.ownSector = sector, !.slot = slot ]
    OBVIOUS
  <2> HIDE DEF o, o1
  <2>4. P(o2) /\ o2.start = start /\ o2.size = size
    BY <2>2, ClosedFields
  <2> HIDE DEF o2
  <2>5. P(o) /\ o.start = start /\ o.size = size
    BY <2>3, <2>4, ClosedFields
  <2>6. o = [ f \in DOMAIN o |-> o[f] ] /\ DOMAIN o = DOMAIN Closed
    BY <2>5
  <2>7. /\ o.start \in Clusters \cup { 0 } /\ o.position \in Nat /\ o.size \in Nat
        /\ o.position <= o.size
    BY <2>1, <2>5
  <2>8. o.cached \in DataSectors \cup { NoSector } /\ o.units \in UnitsOK
    BY <2>5, FileUnits
  <2>9. o.dirty \in BOOLEAN /\ o.write \in BOOLEAN /\ o.open \in BOOLEAN
    BY <2>5
  <2> HIDE DEF P
  <2> QED
    BY <2>6, <2>7, <2>8, <2>9 DEF ObjectOK, HasFields
<1> HIDE DEF o
<1>6. x = [ f \in DOMAIN x |-> x[f] ] /\ SameBut(w, x, { "o", "misled", "locks" }) /\ x.o = o
  BY <1>3, Fields DEF SameBut, VolumeFields
<1> HIDE DEF x
<1>7. CallStays(v, x)
  <2>1. FileStays(w, x)
    BY <1>3, <1>5, <1>6, LooseAndResult, FileSet DEF SameBut, OuterFields
  <2>2. FileStays(v, x)
    BY <1>3, <2>1, FileTwice
  <2> QED
    BY <1>5, <1>6, <2>2, StaysIsEnds DEF CallStays, FileStays
<1> QED
  BY <1>1, <1>4, <1>7 DEF z

\* Where loadCluster takes the low half (2793), an open comes to the same, or it has put
\* something else than the first cluster of the entry into the object.
Halved(w) == w.result = "OK" /\ w.o.start # Shown(w).start

LEMMA WholeOrHalf ==
  ASSUME NEW v, VolumeOK(v), NEW path \in Seq(STRING), NEW write, NEW dirSector, NEW whole
  PROVE  LET w == Open(v, path, write, dirSector, whole)
             y == OpenWhole(v, path, write, dirSector)
         IN  /\ w = y \/ (Halved(w) /\ w = [ f \in DOMAIN w |-> w[f] ] /\ SameBut(y, w, { "o" }))
             /\ Halved(w) => w.o.start = LoadCluster(Shown(w), whole)
<1> DEFINE a == Walk(v, path)
           c == [ a EXCEPT !.o = Closed ]
           e == Shown(c)
           opens == IF Key(c) \in DOMAIN c.locks THEN c.locks[Key(c)] ELSE 0
           locks == Entered(c.locks, Key(c), IF write THEN WriteOpen ELSE opens + 1)
           o(b) == [ Closed EXCEPT !.open = TRUE, !.write = write, !.key = Key(c), !.start = LoadCluster(e, b),
                                   !.size = e.size, !.dirSector = dirSector, !.ownSector = c.sector,
                                   !.slot = c.dir.slot ]
           x(b) == [ c EXCEPT !.o = o(b), !.misled = ~c.found, !.locks = locks ]
           z(b) == Open(v, path, write, dirSector, b)
<1> DEFINE refused == opens = WriteOpen \/ (write /\ opens > 0)
           full == opens = 0 /\ Cardinality(DOMAIN c.locks) >= FS_LOCK
<1>1. ASSUME NEW b
      PROVE  z(b) = IF refused THEN Fails(c, "LOCKED")
                    ELSE IF full THEN Fails(c, "TOO_MANY_OPEN_FILES")
                    ELSE IF e.kind = "dir" THEN Fails(c, "NO_FILE")
                    ELSE IF write /\ e.readOnly THEN Fails(c, "DENIED")
                    ELSE x(b)
  <2> DEFINE xb == x(b)
  <2>1. xb = [ c EXCEPT !.o = o(b), !.misled = ~c.found,
                        !.locks = Entered(@, Key(c), IF write THEN WriteOpen ELSE opens + 1) ]
    OBVIOUS
  <2> HIDE DEF xb
  <2>2. z(b) = IF refused THEN Fails(c, "LOCKED")
               ELSE IF full THEN Fails(c, "TOO_MANY_OPEN_FILES")
               ELSE IF e.kind = "dir" THEN Fails(c, "NO_FILE")
               ELSE IF write /\ e.readOnly THEN Fails(c, "DENIED")
               ELSE xb
    BY <2>1 DEF Open
  <2> QED
    BY <2>2 DEF xb
<1>2. VolumeOK(a) /\ a.result = "OK"
  BY WalkStays DEF DirStays, Stays
<1> HIDE DEF a, z, refused, full
<1>3. c = [ f \in DOMAIN c |-> c[f] ] /\ VolumeFields \subseteq DOMAIN c /\ c.result = "OK"
  BY <1>2, Fields DEF VolumeFields, TableFields
<1>r. \A r : Fails(c, r).result = r
  <2> HIDE DEF c
  <2> QED
    BY <1>3 DEF Fails, VolumeFields, TableFields
<1>c. (\A b : z(b) = x(b)) \/ (\A b : z(b) = z(TRUE) /\ z(b).result # "OK")
  <2> DEFINE fails == refused \/ full \/ e.kind = "dir" \/ (write /\ e.readOnly)
             why == IF refused THEN "LOCKED" ELSE IF full THEN "TOO_MANY_OPEN_FILES"
                    ELSE IF e.kind = "dir" THEN "NO_FILE" ELSE "DENIED"
  <2> HIDE DEF x, c, e
  <2>1. ASSUME NEW b PROVE z(b) = IF fails THEN Fails(c, why) ELSE x(b)
    BY <1>1
  <2>2. why # "OK"
    OBVIOUS
  <2> HIDE DEF fails, why
  <2>3. CASE fails
    <3>1. \A b : z(b) = Fails(c, why)
      BY <2>1, <2>3
    <3>2. z(TRUE) = Fails(c, why) /\ Fails(c, why).result # "OK"
      BY <3>1, <2>2, <1>r
    <3> QED
      BY <3>1, <3>2
  <2>4. CASE ~fails
    BY <2>1, <2>4
  <2> QED
    BY <2>3, <2>4
<1>s. "start" \in DOMAIN Closed
  BY ClosedFields
<1>4. \A b : /\ o(b).start = LoadCluster(e, b)
             /\ LoadCluster(e, b) = e.start => o(b) = o(TRUE)
  <2> HIDE DEF e, c
  <2>1. LoadCluster(e, TRUE) = e.start
    BY DEF LoadCluster
  <2> QED
    BY <1>s, <2>1, ClosedFields
<1> HIDE DEF o, locks
<1>5. \A b : /\ x(b) = [ f \in DOMAIN x(b) |-> x(b)[f] ] /\ SameBut(x(TRUE), x(b), { "o" })
             /\ x(b).o = o(b) /\ x(b).result = "OK" /\ Shown(x(b)) = e
  <2> HIDE DEF c
  <2> QED
    BY <1>3 DEF SameBut, VolumeFields, TableFields, Shown, e
<1>6. \A b : o(b) = o(TRUE) => x(b) = x(TRUE)
  OBVIOUS
<1> HIDE DEF x, e, c
<1>7. /\ z(whole) = z(TRUE) \/ (Halved(z(whole)) /\ z(whole) = x(whole) /\ z(TRUE) = x(TRUE))
      /\ Halved(z(whole)) => z(whole).o.start = LoadCluster(Shown(z(whole)), whole)
  <2>1. x(whole).o = o(whole) /\ x(whole).result = "OK" /\ Shown(x(whole)) = e
    BY <1>5
  <2>2. o(whole).start = LoadCluster(e, whole) /\ (LoadCluster(e, whole) = e.start => x(whole) = x(TRUE))
    BY <1>4, <1>6
  <2>3. LoadCluster(e, whole) # e.start => Halved(x(whole))
    BY <2>1, <2>2 DEF Halved
  <2>4. \/ z(whole) = x(whole) /\ z(TRUE) = x(TRUE)
        \/ z(whole) = z(TRUE) /\ ~Halved(z(whole))
    BY <1>c DEF Halved
  <2> QED
    BY <2>1, <2>2, <2>3, <2>4
<1> QED
  BY <1>5, <1>7 DEF z, OpenWhole

LEMMA HalvedStart ==
  ASSUME NEW v, VolumeOK(v), NEW path \in Seq(STRING), NEW write, NEW dirSector, NEW whole,
         NEW w, w = Open(v, path, write, dirSector, whole), Halved(w)
  PROVE  w.o.start = LoadCluster(Shown(w), whole)
<1> DEFINE z == Open(v, path, write, dirSector, whole)
<1>1. Halved(z) => z.o.start = LoadCluster(Shown(z), whole)
  BY WholeOrHalf
<1> HIDE DEF z
<1>2. w = z
  BY DEF z
<1> QED
  BY <1>1, <1>2

\* Either way the volume is in order, and so is the object unless it has half a number.
LEMMA OpenIsOK ==
  ASSUME NEW v, VolumeOK(v), NEW path \in Seq(STRING), NEW write \in BOOLEAN, NEW dirSector, NEW whole
  PROVE  LET w == Open(v, path, write, dirSector, whole)
         IN  VolumeOK(w) /\ StaysOrFails(v, w) /\ (ObjectOK(w.o) \/ Halved(w))
<1> DEFINE w == Open(v, path, write, dirSector, whole)
           y == OpenWhole(v, path, write, dirSector)
<1>1. CallStays(v, y)
  BY OpenStays
<1>2. w = y \/ (Halved(w) /\ w = [ x \in DOMAIN w |-> w[x] ] /\ SameBut(y, w, { "o" }))
  BY WholeOrHalf
<1> HIDE DEF w, y
<1>3. StaysOrFails(v, w) /\ (ObjectOK(w.o) \/ Halved(w))
  <2>1. CASE w = y
    BY <1>1, <2>1 DEF CallStays
  <2>2. CASE Halved(w) /\ w = [ x \in DOMAIN w |-> w[x] ] /\ SameBut(y, w, { "o" })
    <3>1. VolumeOK(y) /\ SameBut(y, w, OuterFields)
      BY <1>1, <2>2 DEF SameBut, OuterFields, CallStays, StaysOrFails
    <3>2. Stays(y, w) /\ w.result = y.result
      BY <2>2, <3>1, OuterStays, Fields DEF SameBut, TableFields
    <3> QED
      BY <1>1, <2>2, <3>2 DEF CallStays, StaysOrFails, Stays
  <2> QED
    BY <1>2, <2>1, <2>2
<1> QED
  BY <1>3 DEF StaysOrFails, w

-----------------------------------------------------------------------------
(* What a call starts from, and what it comes to. *)

\* A call on v starts from v, or from v with a fault planned.
Begins(v, u) == u = v \/ \E n \in Nat, k \in Faults : u = [ v EXCEPT !.fuse = n, !.fault = k ]

\* A planned fault leaves a volume in order; nothing is said of its count from then on.
LEMMA BeginsOK ==
  ASSUME NEW v, VolumeOK(v), v.fault = "none", NEW u, Begins(v, u)
  PROVE  VolumeOK(u) /\ u.o = v.o /\ (Accurate(v) => Right(u))
<1>1. CASE u = v
  BY <1>1 DEF Right
<1>2. CASE u # v
  <2>1. PICK n \in Nat, k \in Faults : u = [ v EXCEPT !.fuse = n, !.fault = k ]
    BY <1>2 DEF Begins
  <2>2. k # "none"
    BY FileAssumption
  <2>3. u = [ f \in DOMAIN u |-> u[f] ] /\ SameBut(v, u, { "fuse", "fault" }) /\ u.fuse = n /\ u.fault = k
    BY <2>1, Fields DEF SameBut, VolumeFields, TableFields
  <2>4. VolumeFields \subseteq DOMAIN v /\ DOMAIN u = DOMAIN v
    BY <2>3, Fields DEF SameBut
  <2>5. /\ u.disk = v.disk /\ u.sector = v.sector /\ u.buffer = v.buffer /\ u.dirty = v.dirty
        /\ u.free = v.free /\ u.fsInfoDirty = v.fsInfoDirty /\ u.dead = v.dead /\ u.o = v.o
    BY <2>3, <2>4 DEF SameBut, VolumeFields, TableFields
  <2>6. VolumeOK(u)
    BY <2>3, <2>4, <2>5 DEF VolumeOK, IsVolume, HasFields
  <2> QED
    BY <2>2, <2>3, <2>5, <2>6 DEF Right
<1> QED
  BY <1>1, <1>2

\* The accesses of a call are numbered from 1.
LEMMA UpFromOne == \A x : 1 .. x \subseteq Nat
  OBVIOUS

\* w is what a call on v may come to.
Reaches(v, w) == \E u : Begins(v, u) /\ StaysOrFails(u, w)

\* A call that came to an end without a fault kept the count, or failed.
LEMMA ReachesOK ==
  ASSUME NEW v, VolumeOK(v), v.fault = "none", NEW w, Reaches(v, w)
  PROVE  /\ VolumeOK(w)
         /\ Accurate(v) /\ w.fault = "none" => Accurate(w) \/ w.result \in Errors
<1>1. PICK u : Begins(v, u) /\ StaysOrFails(u, w)
  BY DEF Reaches
<1>2. Accurate(v) => Right(u)
  BY <1>1, BeginsOK
<1> QED
  BY <1>1, <1>2 DEF StaysOrFails, Right

(* Each of the methods. *)

LEMMA ReadOutcomes ==
  ASSUME NEW v, VolumeOK(v), v.fault = "none", ObjectOK(v.o), v.o.result = "OK", NEW n \in Nat,
         NEW w \in Outcomes(v, LAMBDA u : Read(u, n))
  PROVE  Reaches(v, w) /\ ObjectOK(w.o)
<1> DEFINE x(k) == Far - Read([ v EXCEPT !.fuse = Far, !.fault = k ], n).fuse
<1>1. \/ w = Read(v, n)
      \/ \E k \in Faults : \E m \in 1 .. x(k) : w = Read([ v EXCEPT !.fuse = m, !.fault = k ], n)
  BY Zenon DEF Outcomes
<1>2. PICK u : Begins(v, u) /\ w = Read(u, n)
  BY <1>1, UpFromOne, Zenon DEF Begins
<1> QED
  BY <1>2, BeginsOK, ReadStays DEF CallStays, Reaches

LEMMA WriteOutcomes ==
  ASSUME NEW v, VolumeOK(v), v.fault = "none", ObjectOK(v.o), v.o.result = "OK", NEW units \in Seq(Unit),
         NEW w \in Outcomes(v, LAMBDA u : Write(u, units))
  PROVE  Reaches(v, w) /\ ObjectOK(w.o)
<1> DEFINE x(k) == Far - Write([ v EXCEPT !.fuse = Far, !.fault = k ], units).fuse
<1>1. \/ w = Write(v, units)
      \/ \E k \in Faults : \E m \in 1 .. x(k) : w = Write([ v EXCEPT !.fuse = m, !.fault = k ], units)
  BY Zenon DEF Outcomes
<1>2. PICK u : Begins(v, u) /\ w = Write(u, units)
  BY <1>1, UpFromOne, Zenon DEF Begins
<1> QED
  BY <1>2, BeginsOK, WriteStays DEF CallStays, Reaches

LEMMA SeekOutcomes ==
  ASSUME NEW v, VolumeOK(v), v.fault = "none", ObjectOK(v.o), v.o.result = "OK", NEW position \in Nat,
         NEW w \in Outcomes(v, LAMBDA u : Seek(u, position))
  PROVE  Reaches(v, w) /\ ObjectOK(w.o)
<1> DEFINE x(k) == Far - Seek([ v EXCEPT !.fuse = Far, !.fault = k ], position).fuse
<1>1. \/ w = Seek(v, position)
      \/ \E k \in Faults : \E m \in 1 .. x(k) : w = Seek([ v EXCEPT !.fuse = m, !.fault = k ], position)
  BY Zenon DEF Outcomes
<1>2. PICK u : Begins(v, u) /\ w = Seek(u, position)
  BY <1>1, UpFromOne, Zenon DEF Begins
<1> QED
  BY <1>2, BeginsOK, SeekStays DEF CallStays, Reaches

LEMMA TruncateOutcomes ==
  ASSUME NEW v, VolumeOK(v), v.fault = "none", ObjectOK(v.o), v.o.result = "OK",
         NEW w \in Outcomes(v, Truncate)
  PROVE  Reaches(v, w) /\ ObjectOK(w.o)
<1> DEFINE x(k) == Far - Truncate([ v EXCEPT !.fuse = Far, !.fault = k ]).fuse
<1>1. \/ w = Truncate(v)
      \/ \E k \in Faults : \E m \in 1 .. x(k) : w = Truncate([ v EXCEPT !.fuse = m, !.fault = k ])
  BY Zenon DEF Outcomes
<1>2. PICK u : Begins(v, u) /\ w = Truncate(u)
  BY <1>1, UpFromOne, Zenon DEF Begins
<1> QED
  BY <1>2, BeginsOK, TruncateStays DEF CallStays, Reaches

LEMMA SyncOutcomes ==
  ASSUME NEW v, VolumeOK(v), v.fault = "none", ObjectOK(v.o), v.o.result = "OK",
         NEW w \in Outcomes(v, Sync)
  PROVE  Reaches(v, w) /\ ObjectOK(w.o)
<1> DEFINE x(k) == Far - Sync([ v EXCEPT !.fuse = Far, !.fault = k ]).fuse
<1>1. \/ w = Sync(v)
      \/ \E k \in Faults : \E m \in 1 .. x(k) : w = Sync([ v EXCEPT !.fuse = m, !.fault = k ])
  BY Zenon DEF Outcomes
<1>2. PICK u : Begins(v, u) /\ w = Sync(u)
  BY <1>1, UpFromOne, Zenon DEF Begins
<1> QED
  BY <1>2, BeginsOK, SyncCallStays DEF CallStays, Reaches

LEMMA CloseOutcomes ==
  ASSUME NEW v, VolumeOK(v), v.fault = "none", ObjectOK(v.o),
         NEW w \in Outcomes(v, Close)
  PROVE  Reaches(v, w) /\ w.o.open = FALSE
<1> DEFINE x(k) == Far - Close([ v EXCEPT !.fuse = Far, !.fault = k ]).fuse
<1>1. \/ w = Close(v)
      \/ \E k \in Faults : \E m \in 1 .. x(k) : w = Close([ v EXCEPT !.fuse = m, !.fault = k ])
  BY Zenon DEF Outcomes
<1>2. PICK u : Begins(v, u) /\ w = Close(u)
  BY <1>1, UpFromOne, Zenon DEF Begins
<1> QED
  BY <1>2, BeginsOK, LooseAndResult, CloseStays, StaysIsEnds DEF FileStays, Reaches

LEMMA UnlinkOutcomes ==
  ASSUME NEW v, VolumeOK(v), v.fault = "none", NEW path \in Seq(STRING),
         NEW w \in Outcomes(v, LAMBDA u : Unlink(u, path))
  PROVE  Reaches(v, w)
<1> DEFINE x(k) == Far - Unlink([ v EXCEPT !.fuse = Far, !.fault = k ], path).fuse
<1>1. \/ w = Unlink(v, path)
      \/ \E k \in Faults : \E m \in 1 .. x(k) : w = Unlink([ v EXCEPT !.fuse = m, !.fault = k ], path)
  BY Zenon DEF Outcomes
<1>2. PICK u : Begins(v, u) /\ w = Unlink(u, path)
  BY <1>1, UpFromOne, Zenon DEF Begins
<1> QED
  BY <1>2, BeginsOK, UnlinkStays, StaysIsEnds DEF DirStays, Reaches

LEMMA UtimeOutcomes ==
  ASSUME NEW v, VolumeOK(v), v.fault = "none", NEW path \in Seq(STRING),
         NEW w \in Outcomes(v, LAMBDA u : Utime(u, path))
  PROVE  Reaches(v, w)
<1> DEFINE x(k) == Far - Utime([ v EXCEPT !.fuse = Far, !.fault = k ], path).fuse
<1>1. \/ w = Utime(v, path)
      \/ \E k \in Faults : \E m \in 1 .. x(k) : w = Utime([ v EXCEPT !.fuse = m, !.fault = k ], path)
  BY Zenon DEF Outcomes
<1>2. PICK u : Begins(v, u) /\ w = Utime(u, path)
  BY <1>1, UpFromOne, Zenon DEF Begins
<1> QED
  BY <1>2, BeginsOK, UtimeStays, StaysIsEnds DEF DirStays, Reaches

LEMMA MakeSubDirectoryOutcomes ==
  ASSUME NEW v, VolumeOK(v), v.fault = "none", NEW path \in Seq(STRING),
         NEW w \in Outcomes(v, LAMBDA u : MakeSubDirectory(u, path))
  PROVE  Reaches(v, w)
<1> DEFINE x(k) == Far - MakeSubDirectory([ v EXCEPT !.fuse = Far, !.fault = k ], path).fuse
<1>1. \/ w = MakeSubDirectory(v, path)
      \/ \E k \in Faults : \E m \in 1 .. x(k) : w = MakeSubDirectory([ v EXCEPT !.fuse = m, !.fault = k ], path)
  BY Zenon DEF Outcomes
<1>2. PICK u : Begins(v, u) /\ w = MakeSubDirectory(u, path)
  BY <1>1, UpFromOne, Zenon DEF Begins
<1> QED
  BY <1>2, BeginsOK, MakeSubDirectoryStays, StaysIsEnds DEF DirStays, Reaches

LEMMA RenameOutcomes ==
  ASSUME NEW v, VolumeOK(v), v.fault = "none", NEW path \in Seq(STRING), NEW new \in Seq(STRING),
         NEW w \in Outcomes(v, LAMBDA u : Rename(u, path, new))
  PROVE  Reaches(v, w)
<1> DEFINE x(k) == Far - Rename([ v EXCEPT !.fuse = Far, !.fault = k ], path, new).fuse
<1>1. \/ w = Rename(v, path, new)
      \/ \E k \in Faults : \E m \in 1 .. x(k) : w = Rename([ v EXCEPT !.fuse = m, !.fault = k ], path, new)
  BY Zenon DEF Outcomes
<1>2. PICK u : Begins(v, u) /\ w = Rename(u, path, new)
  BY <1>1, UpFromOne, Zenon DEF Begins
<1> QED
  BY <1>2, BeginsOK, RenameStays, StaysIsEnds DEF DirStays, Reaches

-----------------------------------------------------------------------------
(* Between two calls. *)

\* What a call leaves behind.
LEMMA AtRestOK ==
  ASSUME NEW v, VolumeOK(v)
  PROVE  /\ VolumeOK(AtRest(v)) /\ AtRest(v).fault = "none"
         /\ Accurate(v) => Accurate(AtRest(v))
<1> DEFINE a == [ v EXCEPT !.dir = NoDir, !.o = << >>, !.data = << >>, !.result = "OK" ]
           b == [ a EXCEPT !.value = 0, !.found = FALSE ]
           c == [ b EXCEPT !.fuse = 0, !.fault = "none" ]
           w == AtRest(v)
           Lost == { "dir", "o", "data", "fuse", "fault", "result", "value", "found" }
<1>1. VolumeFields \subseteq DOMAIN v /\ v = [ f \in DOMAIN v |-> v[f] ]
  BY Fields
<1>2. w = [ f \in DOMAIN v |-> w[f] ] /\ DOMAIN w = DOMAIN v
  BY <1>1 DEF AtRest
<1>3. w.fuse = 0 /\ w.fault = "none" /\ \A f \in DOMAIN v \ Lost : w[f] = v[f]
  BY <1>1 DEF AtRest, VolumeFields, TableFields
<1> HIDE DEF w
<1>4. /\ w.disk = v.disk /\ w.sector = v.sector /\ w.buffer = v.buffer /\ w.dirty = v.dirty
      /\ w.free = v.free /\ w.fsInfoDirty = v.fsInfoDirty /\ w.dead = v.dead
  BY <1>1, <1>3 DEF VolumeFields, TableFields
<1>5. VolumeOK(w)
  BY <1>1, <1>2, <1>3, <1>4 DEF VolumeOK, IsVolume, HasFields
<1>6. Logical(w) = Logical(v)
  BY <1>4 DEF Logical
<1> QED
  BY <1>3, <1>4, <1>5, <1>6 DEF w, Accurate, Informed

\* mount counts the free clusters (533).
LEMMA ZeroLinksAreFree ==
  ASSUME NEW d
  PROVE  ZeroLinks(d) = Cardinality(FreeClusters(d)) /\ ZeroLinks(d) \in 0 .. NumFatEntries - 2
  BY FreeIsFinite DEF ZeroLinks, FreeClusters, LinkOn

\* A mount of any card that has in its sectors what belongs there.
LEMMA MountOK ==
  ASSUME NEW d, IsCard(d), \A s \in Sectors : Belongs(s, d[s])
  PROVE  /\ VolumeOK(Mount(d)) /\ Mount(d).fault = "none"
         /\ d[FsInfoSector].units[1] \in { ZeroLinks(d) } \cup NumFatEntries - 1 .. Ones => Accurate(Mount(d))
<1> DEFINE v == Mount(d)
           first == d[FsInfoSector].units[1]
           counted == first > NumFatEntries - 2
           s == IF counted THEN DataBase - 1 ELSE BootSector
<1>1. DOMAIN v = VolumeFields /\ v = [ f \in DOMAIN v |-> v[f] ]
  BY DEF Mount, VolumeFields, TableFields
<1>2. /\ v.disk = d /\ v.sector = s /\ v.buffer = d[s] /\ v.dirty = FALSE /\ v.dead = FALSE
      /\ v.free = IF counted THEN ZeroLinks(d) ELSE first
      /\ v.fsInfoDirty = counted /\ v.fuse = 0 /\ v.fault = "none"
  BY DEF Mount
<1> HIDE DEF v
<1>3. first \in 0 .. Ones
  BY SectorPlaces DEF Belongs
<1>4. ZeroLinks(d) = Cardinality(FreeClusters(d)) /\ ZeroLinks(d) \in 0 .. NumFatEntries - 2
  BY ZeroLinksAreFree
<1>5. NumFatEntries - 2 \in Nat /\ Ones \in Nat /\ NumFatEntries - 2 < Ones
  BY TableAssumption
<1> HIDE DEF first
<1>6. counted \in BOOLEAN /\ v.free \in 0 .. Ones
  BY <1>2, <1>3, <1>4, <1>5
<1>7. s \in Sectors /\ s # FsInfoSector /\ Belongs(s, d[s]) /\ (s \in FatSectors => IsLinks(d[s]))
  <2>1. BootSector \in Sectors /\ BootSector # FsInfoSector
    BY SectorPlaces
  <2>2. DataBase - 1 \in FatSectors /\ DataBase - 1 \in Sectors /\ DataBase - 1 # FsInfoSector
    BY SectorPlaces
  <2>3. s \in Sectors /\ s # FsInfoSector
    BY <2>1, <2>2
  <2> QED
    BY <2>3, BelongingLinks
<1> HIDE DEF s
<1>8. VolumeOK(v)
  <2>1. IsVolume(v)
    <3>1. TableFields \subseteq DOMAIN v
      BY <1>1 DEF VolumeFields
    <3>2. v.fuse \in Nat
      BY <1>2
    <3>4. v.dirty \in BOOLEAN /\ v.dead \in BOOLEAN /\ IsCard(v.disk)
      BY <1>2, Zenon
    <3>3. (v.sector \in FatSectors => IsLinks(v.buffer)) /\ v.buffer = v.disk[v.sector]
      BY <1>2, <1>7
    <3> QED
      BY <1>1, <1>6, <3>1, <3>2, <3>3, <3>4 DEF IsVolume
  <2>2. HasFields(v, { "dir", "locks", "o", "data", "found", "misled", "unclean" })
    BY <1>1 DEF HasFields, VolumeFields
  <2> QED
    BY <2>1, <2>2, <1>2, <1>6, <1>7 DEF VolumeOK
<1>9. ASSUME first \in { ZeroLinks(d) } \cup NumFatEntries - 1 .. Ones
      PROVE  Accurate(v)
  <2>1. Logical(v) = d
    BY <1>2 DEF Logical
  <2>2. ~counted => first = ZeroLinks(d)
    <3>1. NumFatEntries - 1 \in Int /\ (\A x \in NumFatEntries - 1 .. Ones : x > NumFatEntries - 2)
      BY TableAssumption
    <3> QED
      BY <3>1, <1>9
  <2>3. v.free = ZeroLinks(d)
    BY <2>2, <1>2
  <2>4. ~v.fsInfoDirty => d[FsInfoSector].units[1] = v.free
    BY <1>2 DEF first
  <2> QED
    BY <2>1, <2>3, <2>4, <1>2, <1>4, <1>7 DEF Accurate, Informed
<1> QED
  BY <1>2, <1>8, <1>9 DEF v, first

-----------------------------------------------------------------------------
(* The inductive invariant. *)

IInv ==
  /\ TypeOK
  /\ vol.fault = "none"
  /\ health = "good" => Accurate(vol)
  /\ health = "good" => view.used = { c \in Clusters : LinkOn(Logical(vol), c) # 0 }

\* What the view holds of the table.
LEMMA SeenClusters ==
  ASSUME NEW v, NEW os
  PROVE  View(v, os).used = { c \in Clusters : LinkOn(Logical(v), c) # 0 }
  BY DEF View

\* The volume in the slot at start-up is in order (DiskAssumption).
LEMMA InitIInv == Init => IInv
<1> SUFFICES ASSUME Init PROVE IInv
  OBVIOUS
<1>1. IsCard(Disk)
  <2>1. \A s \in FatSectors : IsLinks(Disk[s])
    BY DiskAssumption, SectorPlaces, BelongingLinks
  <2> QED
    BY <2>1, DiskAssumption DEF IsCard
<1>2. VolumeOK(vol) /\ vol.fault = "none" /\ Accurate(vol)
  BY <1>1, MountOK, DiskAssumption DEF Init
<1>3. DOMAIN obj = Files /\ \A f \in Files : ObjectOK(obj[f])
  BY ClosedOK DEF Init
<1>4. view.used = { c \in Clusters : LinkOn(Logical(vol), c) # 0 }
  BY SeenClusters DEF Init
<1>5. health = "good" /\ calls = 0 /\ names = 0
  BY DEF Init
<1>6. TypeOK
  BY <1>2, <1>3, <1>5, FileAssumption DEF TypeOK, Healths
<1> QED
  BY <1>2, <1>4, <1>6 DEF IInv

\* What remains good was, without a fault and without an error; an open that took half of
\* a first cluster is told from the others.
LEMMA HealthIsKept ==
  ASSUME NEW op, NEW on, NEW w, health \in Followed
  PROVE  LET h == HealthAfter(op, on, w)
         IN  /\ h \in Healths
             /\ h = "halved" <=> op = "open" /\ Halved(w)
             /\ h = "good" => health = "good" /\ w.fault = "none" /\ w.result \notin Errors
  BY DEF HealthAfter, Healths, Followed, Errors, Halved

\* The object after a call.
LEMMA AfterOK ==
  ASSUME NEW op, NEW w, w.o.open = FALSE \/ ObjectOK(w.o)
  PROVE  ObjectOK(After(op, w))
<1> DEFINE b == w.o.shortened /\ ~(op = "sync" /\ w.result = "OK")
           o == [ w.o EXCEPT !.shortened = b ]
<1>1. After(op, w) \in { Closed, o } /\ (After(op, w) = o \/ ~w.o.open \/ After(op, w) = Closed)
  BY DEF After
<1>2. CASE w.o.open = FALSE
  BY <1>2, ClosedOK DEF After
<1>3. CASE ObjectOK(w.o)
  <2> HIDE DEF b
  <2>1. ObjectOK(o)
    BY <1>3, ClosedFields DEF ObjectOK, HasFields
  <2> QED
    BY <1>1, <2>1, ClosedOK
<1> QED
  BY <1>2, <1>3

\* A call that may come to w ends in order.
LEMMA EndsOK ==
  ASSUME IInv, NEW op, NEW on \in Files \cup { NoFile }, NEW path, NEW arg, NEW w, NEW v,
         VolumeOK(v), v.fault = "none", Accurate(vol) => Accurate(v), Reaches(v, w),
         May(op), on = NoFile => names < MaxNameCalls,
         on # NoFile => w.o.open = FALSE \/ ObjectOK(w.o) \/ (op = "open" /\ Halved(w)),
         Ends(op, on, path, arg, w)
  PROVE  IInv'
<1>1. /\ VolumeOK(w)
      /\ Accurate(v) /\ w.fault = "none" => Accurate(w) \/ w.result \in Errors
  BY ReachesOK
<1>2. health \in Followed /\ calls < MaxCalls
  BY DEF May
<1>3. /\ health' \in Healths /\ (health' = "good" => health = "good" /\ w.fault = "none" /\ w.result \notin Errors)
      /\ health' = "halved" <=> op = "open" /\ Halved(w)
  BY <1>2, HealthIsKept DEF Ends
<1>4. health' = "good" => Accurate(w)
  BY <1>1, <1>3 DEF IInv
<1>5. Accurate(w) => ~w.dead
  BY DEF Accurate, Informed
<1>6. VolumeOK(vol') /\ vol'.fault = "none" /\ (health' = "good" => Accurate(vol'))
  <2>1. CASE w.dead
    <3>1. vol' = Mount(w.disk)
      BY <2>1 DEF Ends
    <3>2. IsCard(w.disk) /\ \A s \in Sectors : Belongs(s, w.disk[s])
      BY <1>1 DEF VolumeOK, IsVolume
    <3>3. VolumeOK(Mount(w.disk)) /\ Mount(w.disk).fault = "none"
      BY <3>2, MountOK
    <3> QED
      BY <2>1, <3>1, <3>3, <1>4, <1>5
  <2>2. CASE ~w.dead
    <3>1. vol' = AtRest(w)
      BY <2>2 DEF Ends
    <3> QED
      BY <3>1, <1>1, <1>4, AtRestOK
  <2> QED
    BY <2>1, <2>2
<1>7. DOMAIN obj' = Files /\ (health' # "halved" => \A f \in Files : ObjectOK(obj'[f]))
  <2>1. DOMAIN obj = Files /\ \A f \in Files : ObjectOK(obj[f])
    BY <1>2 DEF IInv, TypeOK, Followed
  <2>2. CASE w.dead
    BY <2>2, ClosedOK DEF Ends
  <2>3. CASE ~w.dead /\ on = NoFile
    BY <2>1, <2>3 DEF Ends
  <2>4. CASE ~w.dead /\ on # NoFile
    <3>1. obj' = [ obj EXCEPT ![on] = After(op, w) ]
      BY <2>4 DEF Ends
    <3>2. health' # "halved" => ObjectOK(After(op, w))
      BY <1>3, <2>4, AfterOK
    <3> QED
      BY <2>1, <3>1, <3>2
  <2> QED
    BY <2>2, <2>3, <2>4
<1>8. calls' \in 0 .. MaxCalls /\ names' \in 0 .. MaxNameCalls
  <2>1. calls \in 0 .. MaxCalls /\ names \in 0 .. MaxNameCalls
    BY DEF IInv, TypeOK
  <2>2. calls' = calls + 1 /\ names' = names + (IF on = NoFile THEN 1 ELSE 0)
    BY DEF Ends
  <2> QED
    BY <2>1, <2>2, <1>2, FileAssumption
<1>9. health' = "good" => view'.used = { c \in Clusters : LinkOn(Logical(vol'), c) # 0 }
  <2>1. health' = "good" => view' = View(vol', obj')
    BY DEF Ends, Followed
  <2> QED
    BY <2>1, SeenClusters
<1> QED
  BY <1>3, <1>6, <1>7, <1>8, <1>9 DEF IInv, TypeOK

-----------------------------------------------------------------------------
(* The calls keep it. *)

\* The volume with the object of a call in it.
Held(f) == [ vol EXCEPT !.o = obj[f] ]

\* It is in order, as the volume is.
LEMMA HeldOK ==
  ASSUME IInv, health \in Followed, NEW f \in Files
  PROVE  /\ VolumeOK(Held(f)) /\ Held(f).fault = "none" /\ Held(f).o = obj[f] /\ ObjectOK(obj[f])
         /\ Accurate(vol) => Accurate(Held(f))
<1> DEFINE w == Held(f)
<1>1. VolumeOK(vol) /\ vol.fault = "none" /\ ObjectOK(obj[f])
  BY DEF IInv, TypeOK, Followed
<1>2. w = [ x \in DOMAIN w |-> w[x] ] /\ SameBut(vol, w, { "o" }) /\ w.o = obj[f]
  BY <1>1, Fields DEF Held, SameBut, VolumeFields, TableFields
<1> HIDE DEF w
<1>3. SameBut(vol, w, OuterFields)
  BY <1>2 DEF SameBut, OuterFields
<1>4. VolumeOK(w) /\ w.fault = vol.fault /\ (Accurate(vol) => Accurate(w))
  BY <1>1, <1>2, <1>3, OuterStays
<1> QED
  BY <1>1, <1>2, <1>4 DEF w

\* What is named in calls are paths.
LEMMA PathsAreNames ==
  /\ \A f \in Files : f # NoFile /\ PathOf[f] \in Seq(STRING)
  /\ Paths \subseteq Seq(STRING) /\ NewPaths \subseteq Seq(STRING)
  BY FileAssumption DEF Paths

\* What is written are units.
LEMMA NewUnitsAreUnits ==
  ASSUME NEW f \in Files, NEW n \in Nat
  PROVE  NewUnits(f, n) \in Seq(Unit)
<1>1. NewUnits(f, n) \in [ 1 .. n -> Unit ]
  BY DEF NewUnits, Unit
<1> QED
  BY <1>1

\* Every call keeps the invariant: those on files,
LEMMA OpenStep ==
  ASSUME IInv, NEW f \in Files, OpenFile(f)
  PROVE  IInv'
<1>1. May("open")
  BY DEF OpenFile
<1>2. PICK write \in BOOLEAN, whole \in BOOLEAN, s \in NullSectors :
        \E w \in Outcomes(vol, LAMBDA v : Open(v, PathOf[f], write, s, whole)) : Ends("open", f, PathOf[f], 0, w)
  BY DEF OpenFile
<1>3. PICK w \in Outcomes(vol, LAMBDA v : Open(v, PathOf[f], write, s, whole)) : Ends("open", f, PathOf[f], 0, w)
  BY <1>2
<1>4. VolumeOK(vol) /\ vol.fault = "none"
  BY DEF IInv, TypeOK
<1>5. f # NoFile /\ PathOf[f] \in Seq(STRING)
  BY PathsAreNames
<1> DEFINE x(k) == Far - Open([ vol EXCEPT !.fuse = Far, !.fault = k ], PathOf[f], write, s, whole).fuse
<1>6. \/ w = Open(vol, PathOf[f], write, s, whole)
      \/ \E k \in Faults : \E m \in 1 .. x(k) : w = Open([ vol EXCEPT !.fuse = m, !.fault = k ], PathOf[f], write, s, whole)
  BY <1>3, Zenon DEF Outcomes
<1>7. PICK u : Begins(vol, u) /\ w = Open(u, PathOf[f], write, s, whole)
  BY <1>6, UpFromOne, Zenon DEF Begins
<1>8. Reaches(vol, w) /\ (ObjectOK(w.o) \/ Halved(w))
  BY <1>4, <1>2, <1>5, <1>7, BeginsOK, OpenIsOK DEF Reaches
<1> QED
  BY <1>1, <1>3, <1>4, <1>5, <1>8, EndsOK

LEMMA ReadStep ==
  ASSUME IInv, NEW f \in Files, ReadFile(f)
  PROVE  IInv'
<1>1. May("read") /\ obj[f].result = "OK"
  BY DEF ReadFile, FileCall
<1>2. PICK n \in Lengths : \E w \in Outcomes(Held(f), LAMBDA v : Read(v, n)) : Ends("read", f, PathOf[f], n, w)
  BY DEF ReadFile, FileCall, Held
<1>3. PICK w \in Outcomes(Held(f), LAMBDA v : Read(v, n)) : Ends("read", f, PathOf[f], n, w)
  BY <1>2
<1>4. /\ VolumeOK(Held(f)) /\ Held(f).fault = "none" /\ Held(f).o = obj[f] /\ ObjectOK(obj[f])
      /\ Accurate(vol) => Accurate(Held(f))
  BY <1>1, HeldOK DEF May
<1>5. f # NoFile /\ n \in Nat
  BY PathsAreNames, FileAssumption
<1>6. Reaches(Held(f), w) /\ ObjectOK(w.o)
  BY <1>1, <1>3, <1>4, <1>5, ReadOutcomes
<1> QED
  BY <1>1, <1>3, <1>4, <1>5, <1>6, EndsOK

LEMMA WriteStep ==
  ASSUME IInv, NEW f \in Files, WriteFile(f)
  PROVE  IInv'
<1>1. May("write") /\ obj[f].result = "OK"
  BY DEF WriteFile, FileCall
<1>2. PICK n \in Lengths : \E w \in Outcomes(Held(f), LAMBDA v : Write(v, NewUnits(f, n))) : Ends("write", f, PathOf[f], n, w)
  BY DEF WriteFile, FileCall, Held
<1>3. PICK w \in Outcomes(Held(f), LAMBDA v : Write(v, NewUnits(f, n))) : Ends("write", f, PathOf[f], n, w)
  BY <1>2
<1>4. /\ VolumeOK(Held(f)) /\ Held(f).fault = "none" /\ Held(f).o = obj[f] /\ ObjectOK(obj[f])
      /\ Accurate(vol) => Accurate(Held(f))
  BY <1>1, HeldOK DEF May
<1>5. f # NoFile /\ NewUnits(f, n) \in Seq(Unit)
  BY PathsAreNames, FileAssumption, NewUnitsAreUnits
<1>6. Reaches(Held(f), w) /\ ObjectOK(w.o)
  BY <1>1, <1>3, <1>4, <1>5, WriteOutcomes
<1> QED
  BY <1>1, <1>3, <1>4, <1>5, <1>6, EndsOK

LEMMA SeekStep ==
  ASSUME IInv, NEW f \in Files, SeekFile(f)
  PROVE  IInv'
<1>1. May("seek") /\ obj[f].result = "OK"
  BY DEF SeekFile, FileCall
<1>2. PICK p \in Positions : \E w \in Outcomes(Held(f), LAMBDA v : Seek(v, p)) : Ends("seek", f, PathOf[f], p, w)
  BY DEF SeekFile, FileCall, Held
<1>3. PICK w \in Outcomes(Held(f), LAMBDA v : Seek(v, p)) : Ends("seek", f, PathOf[f], p, w)
  BY <1>2
<1>4. /\ VolumeOK(Held(f)) /\ Held(f).fault = "none" /\ Held(f).o = obj[f] /\ ObjectOK(obj[f])
      /\ Accurate(vol) => Accurate(Held(f))
  BY <1>1, HeldOK DEF May
<1>5. f # NoFile /\ p \in Nat
  BY PathsAreNames, FileAssumption
<1>6. Reaches(Held(f), w) /\ ObjectOK(w.o)
  BY <1>1, <1>3, <1>4, <1>5, SeekOutcomes
<1> QED
  BY <1>1, <1>3, <1>4, <1>5, <1>6, EndsOK

LEMMA TruncateStep ==
  ASSUME IInv, NEW f \in Files, TruncateFile(f)
  PROVE  IInv'
<1>1. May("truncate") /\ obj[f].result = "OK"
  BY DEF TruncateFile, FileCall
<1>3. PICK w \in Outcomes(Held(f), Truncate) : Ends("truncate", f, PathOf[f], 0, w)
  BY DEF TruncateFile, FileCall, Held
<1>4. /\ VolumeOK(Held(f)) /\ Held(f).fault = "none" /\ Held(f).o = obj[f] /\ ObjectOK(obj[f])
      /\ Accurate(vol) => Accurate(Held(f))
  BY <1>1, HeldOK DEF May
<1>5. f # NoFile
  BY PathsAreNames
<1>6. Reaches(Held(f), w) /\ ObjectOK(w.o)
  BY <1>1, <1>3, <1>4, <1>5, TruncateOutcomes
<1> QED
  BY <1>1, <1>3, <1>4, <1>5, <1>6, EndsOK

LEMMA SyncStep ==
  ASSUME IInv, NEW f \in Files, SyncFile(f)
  PROVE  IInv'
<1>1. May("sync") /\ obj[f].result = "OK"
  BY DEF SyncFile, FileCall
<1>3. PICK w \in Outcomes(Held(f), Sync) : Ends("sync", f, PathOf[f], 0, w)
  BY DEF SyncFile, FileCall, Held
<1>4. /\ VolumeOK(Held(f)) /\ Held(f).fault = "none" /\ Held(f).o = obj[f] /\ ObjectOK(obj[f])
      /\ Accurate(vol) => Accurate(Held(f))
  BY <1>1, HeldOK DEF May
<1>5. f # NoFile
  BY PathsAreNames
<1>6. Reaches(Held(f), w) /\ ObjectOK(w.o)
  BY <1>1, <1>3, <1>4, <1>5, SyncOutcomes
<1> QED
  BY <1>1, <1>3, <1>4, <1>5, <1>6, EndsOK

LEMMA CloseStep ==
  ASSUME IInv, NEW f \in Files, CloseFile(f)
  PROVE  IInv'
<1>1. May("close")
  BY DEF CloseFile
<1>3. PICK w \in Outcomes(Held(f), Close) : Ends("close", f, PathOf[f], 0, w)
  BY DEF CloseFile, Held
<1>4. /\ VolumeOK(Held(f)) /\ Held(f).fault = "none" /\ Held(f).o = obj[f] /\ ObjectOK(obj[f])
      /\ Accurate(vol) => Accurate(Held(f))
  BY <1>1, HeldOK DEF May
<1>5. f # NoFile
  BY PathsAreNames
<1>6. Reaches(Held(f), w) /\ w.o.open = FALSE
  BY <1>1, <1>3, <1>4, <1>5, CloseOutcomes
<1> QED
  BY <1>1, <1>3, <1>4, <1>5, <1>6, EndsOK

\* and those on names.
LEMMA UnlinkStep ==
  ASSUME IInv, UnlinkPath
  PROVE  IInv'
<1>1. PICK p \in Paths : PathCall("unlink", p, 0, LAMBDA v : Unlink(v, p))
  BY DEF UnlinkPath
<1>2. May("unlink") /\ names < MaxNameCalls
  BY <1>1 DEF PathCall
<1>3. PICK w \in Outcomes(vol, LAMBDA v : Unlink(v, p)) : Ends("unlink", NoFile, p, 0, w)
  BY <1>1 DEF PathCall
<1>4. VolumeOK(vol) /\ vol.fault = "none"
  BY DEF IInv, TypeOK
<1>5. p \in Seq(STRING)
  BY PathsAreNames
<1>6. Reaches(vol, w)
  BY <1>3, <1>4, <1>5, UnlinkOutcomes
<1> QED
  BY <1>2, <1>3, <1>4, <1>6, EndsOK

LEMMA ChangeStep ==
  ASSUME IInv, ChangePath
  PROVE  IInv'
<1>1. PICK p \in Paths : PathCall("attributes", p, 0, LAMBDA v : ChangeAttributes(v, p, TRUE))
  BY DEF ChangePath
<1>2. May("attributes") /\ names < MaxNameCalls
  BY <1>1 DEF PathCall
<1>3. PICK w \in Outcomes(vol, LAMBDA v : ChangeAttributes(v, p, TRUE)) : Ends("attributes", NoFile, p, 0, w)
  BY <1>1 DEF PathCall
<1>4. VolumeOK(vol) /\ vol.fault = "none"
  BY DEF IInv, TypeOK
<1>5. p \in Seq(STRING)
  BY PathsAreNames
<1> DEFINE x(k) == Far - ChangeAttributes([ vol EXCEPT !.fuse = Far, !.fault = k ], p, TRUE).fuse
<1>6. \/ w = ChangeAttributes(vol, p, TRUE)
      \/ \E k \in Faults : \E m \in 1 .. x(k) : w = ChangeAttributes([ vol EXCEPT !.fuse = m, !.fault = k ], p, TRUE)
  BY <1>3, Zenon DEF Outcomes
<1>7. PICK u : Begins(vol, u) /\ w = ChangeAttributes(u, p, TRUE)
  BY <1>6, UpFromOne, Zenon DEF Begins
<1>8. Reaches(vol, w)
  BY <1>4, <1>5, <1>7, BeginsOK, ChangeAttributesStays, StaysIsEnds DEF DirStays, Reaches
<1> QED
  BY <1>2, <1>3, <1>4, <1>8, EndsOK

LEMMA TouchStep ==
  ASSUME IInv, TouchPath
  PROVE  IInv'
<1>1. PICK p \in Paths : PathCall("utime", p, 0, LAMBDA v : Utime(v, p))
  BY DEF TouchPath
<1>2. May("utime") /\ names < MaxNameCalls
  BY <1>1 DEF PathCall
<1>3. PICK w \in Outcomes(vol, LAMBDA v : Utime(v, p)) : Ends("utime", NoFile, p, 0, w)
  BY <1>1 DEF PathCall
<1>4. VolumeOK(vol) /\ vol.fault = "none"
  BY DEF IInv, TypeOK
<1>5. p \in Seq(STRING)
  BY PathsAreNames
<1>6. Reaches(vol, w)
  BY <1>3, <1>4, <1>5, UtimeOutcomes
<1> QED
  BY <1>2, <1>3, <1>4, <1>6, EndsOK

LEMMA MakeStep ==
  ASSUME IInv, MakePath
  PROVE  IInv'
<1>1. PICK p \in Paths : PathCall("mkdir", p, 0, LAMBDA v : MakeSubDirectory(v, p))
  BY DEF MakePath
<1>2. May("mkdir") /\ names < MaxNameCalls
  BY <1>1 DEF PathCall
<1>3. PICK w \in Outcomes(vol, LAMBDA v : MakeSubDirectory(v, p)) : Ends("mkdir", NoFile, p, 0, w)
  BY <1>1 DEF PathCall
<1>4. VolumeOK(vol) /\ vol.fault = "none"
  BY DEF IInv, TypeOK
<1>5. p \in Seq(STRING)
  BY PathsAreNames
<1>6. Reaches(vol, w)
  BY <1>3, <1>4, <1>5, MakeSubDirectoryOutcomes
<1> QED
  BY <1>2, <1>3, <1>4, <1>6, EndsOK

LEMMA RenameStep ==
  ASSUME IInv, RenamePath
  PROVE  IInv'
<1>1. PICK p \in Paths, q \in NewPaths : PathCall("rename", p, 0, LAMBDA v : Rename(v, p, q))
  BY DEF RenamePath
<1>2. May("rename") /\ names < MaxNameCalls
  BY <1>1 DEF PathCall
<1>3. PICK w \in Outcomes(vol, LAMBDA v : Rename(v, p, q)) : Ends("rename", NoFile, p, 0, w)
  BY <1>1 DEF PathCall
<1>4. VolumeOK(vol) /\ vol.fault = "none"
  BY DEF IInv, TypeOK
<1>5. p \in Seq(STRING) /\ q \in Seq(STRING)
  BY PathsAreNames
<1>6. Reaches(vol, w)
  BY <1>3, <1>4, <1>5, RenameOutcomes
<1> QED
  BY <1>2, <1>3, <1>4, <1>6, EndsOK

LEMMA LabelStep ==
  ASSUME IInv, LabelVolume
  PROVE  IInv'
<1>1. PICK set \in BOOLEAN : PathCall("label", << >>, 0, LAMBDA v : SetLabel(v, set))
  BY DEF LabelVolume
<1>2. May("label") /\ names < MaxNameCalls
  BY <1>1 DEF PathCall
<1>3. PICK w \in Outcomes(vol, LAMBDA v : SetLabel(v, set)) : Ends("label", NoFile, << >>, 0, w)
  BY <1>1 DEF PathCall
<1>4. VolumeOK(vol) /\ vol.fault = "none"
  BY DEF IInv, TypeOK
<1> DEFINE x(k) == Far - SetLabel([ vol EXCEPT !.fuse = Far, !.fault = k ], set).fuse
<1>6. \/ w = SetLabel(vol, set)
      \/ \E k \in Faults : \E m \in 1 .. x(k) : w = SetLabel([ vol EXCEPT !.fuse = m, !.fault = k ], set)
  BY <1>3, Zenon DEF Outcomes
<1>7. PICK u : Begins(vol, u) /\ w = SetLabel(u, set)
  BY <1>6, UpFromOne, Zenon DEF Begins
<1>8. Reaches(vol, w)
  BY <1>4, <1>7, BeginsOK, SetLabelStays DEF DirStaysOrFails, Reaches
<1> QED
  BY <1>2, <1>3, <1>4, <1>8, EndsOK

\* No step breaks the invariant.
LEMMA NextIInv == IInv /\ [Next]_vars => IInv'
<1> SUFFICES ASSUME IInv, [Next]_vars PROVE IInv'
  OBVIOUS
<1>1. CASE FileStep
  <2>1. PICK f \in Files : \/ OpenFile(f) \/ ReadFile(f) \/ WriteFile(f) \/ SeekFile(f) \/ TruncateFile(f)
                           \/ SyncFile(f) \/ CloseFile(f)
    BY <1>1 DEF FileStep
  <2> QED
    BY <2>1, OpenStep, ReadStep, WriteStep, SeekStep, TruncateStep, SyncStep, CloseStep
<1>2. CASE PathStep
  BY <1>2, UnlinkStep, ChangeStep, TouchStep, MakeStep, RenameStep, LabelStep DEF PathStep
<1>3. CASE UNCHANGED vars
  BY <1>3 DEF vars, IInv, TypeOK, VolumeOK, Accurate, Informed, Logical
<1> QED
  BY <1>1, <1>2, <1>3 DEF Next

\* So it always holds.
LEMMA AlwaysIInv == Spec => []IInv
<1> QED
  BY InitIInv, NextIInv, PTL DEF Spec

\* No open takes half of a first cluster where the low half is all there is,
LEMMA NoneIsHalved ==
  ASSUME NumFatEntries <= LowHalf, IInv, NEW f \in Files, OpenFile(f)
  PROVE  health' # "halved"
<1>1. May("open")
  BY DEF OpenFile
<1>2. PICK write \in BOOLEAN, whole \in BOOLEAN, s \in NullSectors :
        \E w \in Outcomes(vol, LAMBDA v : Open(v, PathOf[f], write, s, whole)) : Ends("open", f, PathOf[f], 0, w)
  BY DEF OpenFile
<1>3. PICK w \in Outcomes(vol, LAMBDA v : Open(v, PathOf[f], write, s, whole)) : Ends("open", f, PathOf[f], 0, w)
  BY <1>2
<1>4. VolumeOK(vol) /\ vol.fault = "none"
  BY DEF IInv, TypeOK
<1>5. PathOf[f] \in Seq(STRING)
  BY PathsAreNames
<1> DEFINE x(k) == Far - Open([ vol EXCEPT !.fuse = Far, !.fault = k ], PathOf[f], write, s, whole).fuse
<1>6. \/ w = Open(vol, PathOf[f], write, s, whole)
      \/ \E k \in Faults : \E m \in 1 .. x(k) : w = Open([ vol EXCEPT !.fuse = m, !.fault = k ], PathOf[f], write, s, whole)
  BY <1>3, Zenon DEF Outcomes
<1>7. PICK u : Begins(vol, u) /\ w = Open(u, PathOf[f], write, s, whole)
  BY <1>6, UpFromOne, Zenon DEF Begins
<1>8. VolumeOK(u)
  BY <1>4, <1>7, BeginsOK
<1>9. ~Halved(w)
  <2> SUFFICES ASSUME Halved(w) PROVE FALSE
    OBVIOUS
  <2>1. w.o.start = LoadCluster(Shown(w), whole)
    BY <1>5, <1>7, <1>8, HalvedStart
  <2>2. VolumeOK(w)
    BY <1>2, <1>5, <1>7, <1>8, OpenIsOK
  <2>3. Shown(w).start \in Clusters \cup { 0 }
    BY <2>2, ShownOK DEF EntryOK
  <2> DEFINE n == Shown(w).start
  <2>4. n \in Nat /\ n < LowHalf /\ LowHalf \in Nat \ {0}
    BY <2>3, TableAssumption, FileAssumption DEF Clusters
  <2> HIDE DEF n
  <2>5. n % LowHalf = n
    BY <2>4
  <2> QED
    BY <2>1, <2>5 DEF LoadCluster, Halved, n
<1> QED
  BY <1>1, <1>3, <1>9, HealthIsKept DEF Ends, May

\* and no other call takes a first cluster out of an entry.
LEMMA OthersHalveNothing ==
  ASSUME NEW op, op # "open", NEW on, NEW path, NEW arg, NEW w, May(op), Ends(op, on, path, arg, w)
  PROVE  health' # "halved"
  BY HealthIsKept DEF May, Ends

LEMMA NextWhole ==
  ASSUME NumFatEntries <= LowHalf, IInv, health # "halved", [Next]_vars
  PROVE  health' # "halved"
<1>1. ASSUME NEW f \in Files, NEW op \in { "read", "write", "seek", "truncate", "sync" }, NEW arg, NEW Body(_),
             FileCall(op, f, arg, Body)
      PROVE  health' # "halved"
  <2>1. PICK w : Ends(op, f, PathOf[f], arg, w)
    BY <1>1 DEF FileCall
  <2> QED
    BY <1>1, <2>1, OthersHalveNothing DEF FileCall
<1>2. ASSUME NEW op \in { "unlink", "attributes", "utime", "mkdir", "rename", "label" }, NEW path, NEW arg, NEW Body(_),
             PathCall(op, path, arg, Body)
      PROVE  health' # "halved"
  <2>1. PICK w : Ends(op, NoFile, path, arg, w)
    BY <1>2 DEF PathCall
  <2> QED
    BY <1>2, <2>1, OthersHalveNothing DEF PathCall
<1>3. ASSUME NEW f \in Files, OpenFile(f) \/ ReadFile(f) \/ WriteFile(f) \/ SeekFile(f) \/ TruncateFile(f)
                                \/ SyncFile(f) \/ CloseFile(f)
      PROVE  health' # "halved"
  <2>1. CASE OpenFile(f)
    BY <2>1, NoneIsHalved
  <2>2. CASE ReadFile(f)
    <3>1. PICK n \in Lengths : FileCall("read", f, n, LAMBDA v : Read(v, n))
      BY <2>2 DEF ReadFile
    <3> QED
      BY <3>1, <1>1
  <2>3. CASE WriteFile(f)
    <3>1. PICK n \in Lengths : FileCall("write", f, n, LAMBDA v : Write(v, NewUnits(f, n)))
      BY <2>3 DEF WriteFile
    <3> QED
      BY <3>1, <1>1
  <2>4. CASE SeekFile(f)
    <3>1. PICK n \in Positions : FileCall("seek", f, n, LAMBDA v : Seek(v, n))
      BY <2>4 DEF SeekFile
    <3> QED
      BY <3>1, <1>1
  <2>5. CASE TruncateFile(f)
    BY <2>5, <1>1 DEF TruncateFile
  <2>6. CASE SyncFile(f)
    BY <2>6, <1>1 DEF SyncFile
  <2>7. CASE CloseFile(f)
    <3>1. PICK w : Ends("close", f, PathOf[f], 0, w)
      BY <2>7 DEF CloseFile
    <3> QED
      BY <2>7, <3>1, OthersHalveNothing DEF CloseFile
  <2> QED
    BY <1>3, <2>1, <2>2, <2>3, <2>4, <2>5, <2>6, <2>7
<1>4. ASSUME PathStep PROVE health' # "halved"
  BY <1>2, <1>4 DEF PathStep, UnlinkPath, ChangePath, TouchPath, MakePath, RenamePath, LabelVolume
<1>5. CASE UNCHANGED vars
  BY <1>5 DEF vars
<1> QED
  BY <1>3, <1>4, <1>5 DEF Next, FileStep

\* The clusters that are not free, counted.
LEMMA UsedCount ==
  ASSUME NEW d
  PROVE  LET used == { c \in Clusters : LinkOn(d, c) # 0 }
         IN  Cardinality(FreeClusters(d)) = NumFatEntries - 2 - Cardinality(used)
<1> DEFINE used == { c \in Clusters : LinkOn(d, c) # 0 }
           free == FreeClusters(d)
<1>1. IsFiniteSet(Clusters) /\ Cardinality(Clusters) = NumFatEntries - 2
  <2> DEFINE b == NumFatEntries - 1
  <2>1. 2 \in Int /\ b \in Int /\ ~(2 > b) /\ b - 2 + 1 = NumFatEntries - 2
    BY TableAssumption
  <2>2. Clusters = 2 .. b
    BY DEF Clusters
  <2> HIDE DEF b
  <2> QED
    BY <2>1, <2>2, FS_Interval
<1>2. free = Clusters \ used /\ used = Clusters \cap used
  BY DEF FreeClusters
<1>3. IsFiniteSet(used) /\ Cardinality(used) \in Nat
  BY <1>1, <1>2, FS_Subset, FS_CardinalityType
<1>4. Cardinality(free) = Cardinality(Clusters) - Cardinality(Clusters \cap used)
  BY <1>1, <1>2, FS_Difference
<1> QED
  BY <1>1, <1>2, <1>4

\* In every state, for every card, every set of files and paths and every bound: sectors of the
\* table hold links, those of directories entries, those of files units, FSINFO a count; the window
\* what belongs into its sector; a clean window on the table what the card has; an object that has
\* not failed a position within its size, and a cached sector of the data.
THEOREM TypesHold == Spec => []TypeOK
<1>1. IInv => TypeOK
  BY DEF IInv
<1> QED
  BY <1>1, AlwaysIInv, PTL

\* As long as nothing has failed, mFreeClusters is the number of links that are 0, on the card or
\* in the window over it, or unknown, and FSINFO has it once mFsInfoFlag says so (fatFs.cpp:1558).
THEOREM FreeCountHolds == Spec => []FreeCountRight
<1>1. IInv => FreeCountRight
  <2> SUFFICES ASSUME IInv, health = "good" PROVE
        /\ vol.free \in { NumFatEntries - 2 - Cardinality(view.used), Ones }
        /\ ~vol.fsInfoDirty => vol.disk[FsInfoSector].units[1] \in { vol.free, Ones }
    BY DEF FreeCountRight
  <2>1. Accurate(vol) /\ view.used = { c \in Clusters : LinkOn(Logical(vol), c) # 0 }
    BY DEF IInv
  <2>2. Cardinality(FreeClusters(Logical(vol))) = NumFatEntries - 2 - Cardinality(view.used)
    BY <2>1, UsedCount
  <2> QED
    BY <2>1, <2>2 DEF Accurate, Informed
<1> QED
  BY <1>1, AlwaysIInv, PTL

NotHalved == health # "halved"

\* On a volume with less than 2^16 clusters it does not matter which type of the FAT the null
\* pointer shows to loadCluster (fatFs.cpp:2793): no open puts half of a first cluster into its
\* object, and no behaviour stops being followed for that reason.
THEOREM NothingIsHalved ==
  ASSUME NumFatEntries <= LowHalf
  PROVE  Spec => []NotHalved
<1>1. Init => NotHalved
  BY DEF Init, NotHalved
<1>2. IInv /\ NotHalved /\ [Next]_vars => NotHalved'
  BY NextWhole DEF NotHalved
<1> QED
  BY <1>1, <1>2, AlwaysIInv, PTL DEF Spec
=============================================================================
