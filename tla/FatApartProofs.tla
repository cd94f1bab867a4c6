---------------------------- MODULE FatApartProofs ----------------------------
(***************************************************************************)
(* Whose clusters are whose, continued: the calls of cFile respect the     *)
(* claims of others (Holds), and what follows for every behaviour of       *)
(* FatFile.                                                                *)
(***************************************************************************)
EXTENDS FatClaimsProofs

-----------------------------------------------------------------------------
(* Open files. *)

FileFields == ChainFields \cup { "o", "data" }

\* Fields of an object that do not tell whose clusters it goes to.
CalmFields == { "position", "cached", "units", "dirty", "written", "size", "result" }

\* Data go back and forth.
Calm(v, a, w) == Holds(w, a) /\ LooseOK(w.o) /\ SameBut(v, w, FileFields) /\ SameBut(v.o, w.o, CalmFields)

\* The entry of the object o is at p, and its first cluster is claimed.
Tied(o, a, p) == o.write => p \in a.files /\ (o.start # 0 => << p, o.start >> \in a.claims)

\* The cluster at hand of the object o is one of its chain.
OnChain(o, a) == o.write /\ o.cluster \in Clusters \cup { 0 } => \E n : At(a.links, o.start, n, o.cluster)

LEMMA CalmAgain ==
  ASSUME NEW v, NEW a, NEW u, Calm(v, a, u), NEW w, Calm(u, a, w)
  PROVE  Calm(v, a, w)
  BY DEF Calm, SameBut

LEMMA CalmObject ==
  ASSUME NEW v, NEW a, LooseOK(v.o), NEW w, Calm(v, a, w)
  PROVE  /\ VolumeOK(w) /\ Holds(w, a) /\ LooseOK(w.o)
         /\ w.o.write = v.o.write /\ w.o.start = v.o.start /\ w.o.cluster = v.o.cluster
         /\ \A b, p : (Tied(w.o, b, p) <=> Tied(v.o, b, p)) /\ (OnChain(w.o, b) <=> OnChain(v.o, b))
<1>1. w.o.write = v.o.write /\ w.o.start = v.o.start /\ w.o.cluster = v.o.cluster
  BY ClosedFields DEF Calm, LooseOK, HasFields, SameBut, CalmFields
<1>2. \A b, p : (Tied(w.o, b, p) <=> Tied(v.o, b, p)) /\ (OnChain(w.o, b) <=> OnChain(v.o, b))
  BY <1>1 DEF Tied, OnChain
<1> QED
  BY <1>1, <1>2 DEF Calm, Holds, Intact

\* The object, the result, the number at hand and the data change, the volume does not.
LEMMA CalmSet ==
  ASSUME NEW v, NEW a, Holds(v, a), NEW w, w = [ f \in DOMAIN w |-> w[f] ],
         SameBut(v, w, { "o", "data", "result", "value" }), LooseOK(w.o), SameBut(v.o, w.o, CalmFields)
  PROVE  Calm(v, a, w)
<1>1. SameBut(v, w, OuterFields) /\ SameBut(v, w, FileFields)
  BY DEF SameBut, OuterFields, FileFields, ChainFields, WindowFields
<1>2. Seen(v, w)
  BY <1>1, OuterSeen DEF Holds, Intact
<1> QED
  BY <1>1, <1>2, SeenHolds DEF Calm

LEMMA CalmSame ==
  ASSUME NEW v, NEW a, Holds(v, a), LooseOK(v.o)
  PROVE  Calm(v, a, v) /\ (\A r : Calm(v, a, Fails(v, r))) /\ (\A x : Calm(v, a, Gives(v, x)))
<1>1. VolumeOK(v)
  BY DEF Holds, Intact
<1>2. Calm(v, a, v)
  BY DEF Calm, SameBut
<1>3. ASSUME NEW r PROVE Calm(v, a, Fails(v, r))
  <2>1. SameBut(v, Fails(v, r), { "result" }) /\ Fails(v, r).o = v.o /\ VolumeOK(Fails(v, r))
    BY <1>1, FailsStays, FailsFile
  <2>2. SameBut(v, Fails(v, r), { "o", "data", "result", "value" }) /\ SameBut(v.o, Fails(v, r).o, CalmFields)
    BY <2>1 DEF SameBut
  <2> QED
    BY <2>1, <2>2, CalmSet, Fields
<1>4. ASSUME NEW x PROVE Calm(v, a, Gives(v, x))
  <2>1. SameBut(v, Gives(v, x), { "value" }) /\ Gives(v, x).o = v.o /\ VolumeOK(Gives(v, x))
    BY <1>1, GivesStays, GivesFile
  <2>2. SameBut(v, Gives(v, x), { "o", "data", "result", "value" }) /\ SameBut(v.o, Gives(v, x).o, CalmFields)
    BY <2>1 DEF SameBut
  <2> QED
    BY <2>1, <2>2, CalmSet, Fields
<1> QED
  BY <1>2, <1>3, <1>4

\* A write of data; the object is not touched.
LEMMA DataCalm ==
  ASSUME NEW v, NEW a, Holds(v, a), LooseOK(v.o), NEW s \in DataSectors \cup { NoSector }, NEW q \in UnitsOK
  PROVE  LET d == DiskWrite(v, s, Units(q)) IN Calm(v, a, d) /\ d.o = v.o /\ d.data = v.data
<1> DEFINE b == Units(q)
           d == DiskWrite(v, s, b)
<1>1. Belongs(s, b) /\ b.entries = << >>
  BY UnitsBelong DEF Units
<1>2. VolumeOK(v)
  BY DEF Holds, Intact
<1> HIDE DEF b
<1>3. Holds(d, a) /\ SameBut(v, d, { "disk", "fuse", "dead", "result" })
  BY <1>1, <1>2, DataHolds, DataWriteStays
<1> HIDE DEF d
<1>4. d.o = v.o /\ d.data = v.data
  BY <1>2, <1>3, Fields DEF SameBut, VolumeFields, TableFields
<1>5. SameBut(v, d, FileFields) /\ SameBut(v.o, d.o, CalmFields)
  BY <1>3, <1>4 DEF SameBut, FileFields, ChainFields, WindowFields
<1> QED
  BY <1>3, <1>4, <1>5 DEF Calm, d, b

LEMMA DiskReadCalm ==
  ASSUME NEW v, NEW a, Holds(v, a), LooseOK(v.o), NEW s
  PROVE  LET d == DiskRead(v, s) IN Calm(v, a, d) /\ d.o = v.o /\ d.data = v.data
<1> DEFINE d == DiskRead(v, s)
<1>1. VolumeOK(v)
  BY DEF Holds, Intact
<1>2. VolumeOK(d) /\ SameBut(v, d, { "fuse", "result" })
  BY <1>1, DiskReadStays
<1> HIDE DEF d
<1>3. d.o = v.o /\ d.data = v.data
  BY <1>1, <1>2, Fields DEF SameBut, VolumeFields, TableFields
<1>4. /\ d.disk = v.disk /\ d.sector = v.sector /\ d.buffer = v.buffer /\ d.dirty = v.dirty /\ d.dead = v.dead
      /\ v.dead \in BOOLEAN
  BY <1>1, <1>2, Fields DEF SameBut, VolumeFields, TableFields, VolumeOK, IsVolume
<1>5. Seen(v, d)
  BY <1>2, <1>4 DEF Seen, WindowLike, Fresh, Logical
<1>6. SameBut(v, d, FileFields) /\ SameBut(v.o, d.o, CalmFields)
  BY <1>2, <1>3 DEF SameBut, FileFields, ChainFields, WindowFields
<1> QED
  BY <1>3, <1>5, <1>6, SeenHolds DEF Calm, d

\* The cached sector goes back to the card (2896).
LEMMA WriteBackCalm ==
  ASSUME NEW v, NEW a, Holds(v, a), LooseOK(v.o)
  PROVE  Calm(v, a, WriteBack(v)) /\ WriteBack(v).o.position = v.o.position
<1> DEFINE d == DiskWrite(v, v.o.cached, Units(v.o.units))
           x == [ d EXCEPT !.o.dirty = FALSE ]
           w == WriteBack(v)
<1>1. w \in { Fails(v, "OK"), d, x }
  BY DEF WriteBack, Then
<1> HIDE DEF w
<1>2. Calm(v, a, d) /\ d.o = v.o
  BY DataCalm DEF LooseOK
<1> HIDE DEF d
<1>3. Calm(d, a, x) /\ x.o.position = v.o.position
  <2>1. /\ x = [ f \in DOMAIN x |-> x[f] ] /\ SameBut(d, x, { "o", "data", "result", "value" })
        /\ x.o = [ v.o EXCEPT !.dirty = FALSE ]
    BY <1>2, Fields DEF SameBut, VolumeFields, TableFields, Calm, Holds, Intact
  <2> HIDE DEF x
  <2>2. LooseOK(x.o) /\ SameBut(v.o, x.o, { "dirty" }) /\ x.o.position = v.o.position
    BY <2>1, ClosedFields DEF LooseOK, HasFields, SameBut
  <2>3. SameBut(d.o, x.o, CalmFields)
    BY <1>2, <2>2 DEF SameBut, CalmFields
  <2> QED
    BY <1>2, <2>1, <2>2, <2>3, CalmSet DEF Calm
<1>4. Calm(v, a, Fails(v, "OK")) /\ Fails(v, "OK").o = v.o
  BY CalmSame, FailsFile DEF Holds, Intact
<1> HIDE DEF x
<1> QED
  BY <1>1, <1>2, <1>3, <1>4, CalmAgain DEF w

\* A sector comes into the cache (2905).
LEMMA FillCalm ==
  ASSUME NEW v, NEW a, Holds(v, a), LooseOK(v.o), NEW s \in DataSectors \cup { NoSector }
  PROVE  Calm(v, a, Fill(v, s)) /\ Fill(v, s).o.position = v.o.position
<1> DEFINE d == DiskRead(v, s)
           x == [ d EXCEPT !.o.units = UnitsOf(v.disk[s]), !.o.cached = s ]
           w == Fill(v, s)
<1>1. w \in { d, x }
  BY DEF Fill, Then
<1>2. Calm(v, a, d) /\ d.o = v.o
  BY DiskReadCalm
<1>3. VolumeOK(v) /\ LooseOK(w.o) /\ SameBut(v.o, w.o, { "units", "cached" })
  BY FillStays DEF Holds, Intact
<1> HIDE DEF d, w
<1>4. CASE w = x
  <2>1. x = [ f \in DOMAIN x |-> x[f] ] /\ SameBut(d, x, { "o", "data", "result", "value" })
    BY <1>2, Fields DEF SameBut, VolumeFields, TableFields, Calm, Holds, Intact
  <2> HIDE DEF x
  <2>2. SameBut(d.o, x.o, CalmFields) /\ x.o.position = v.o.position
    BY <1>2, <1>3, <1>4, ClosedFields DEF SameBut, CalmFields, LooseOK, HasFields
  <2> QED
    BY <1>2, <1>3, <1>4, <2>1, <2>2, CalmSet, CalmAgain DEF Calm, w
<1>5. CASE w = d
  BY <1>2, <1>5 DEF w
<1> QED
  BY <1>1, <1>4, <1>5

\* The rest of a sector out of the cache (2913).
LEMMA ReadPartCalm ==
  ASSUME NEW v, NEW a, Holds(v, a), LooseOK(v.o), NEW n \in Nat \ {0}
  PROVE  Calm(v, a, ReadPart(v, n))
<1> DEFINE from == UnitIndex(v.o.position)
           count == SmallerOf(UnitsPerSector - from + 1, n)
           q == v.o.position + count
           y == v.data \o SubSeq(v.o.units, from, from + count - 1)
           w == ReadPart(v, n)
<1>1. w = [ v EXCEPT !.data = y, !.o.position = q ] /\ VolumeOK(v)
  BY Fields, ClosedFields DEF ReadPart, VolumeFields, LooseOK, HasFields, Holds, Intact
<1>2. LooseOK(w.o)
  BY <1>1, ReadPartStays
<1> HIDE DEF q, y, w
<1>3. /\ w = [ f \in DOMAIN w |-> w[f] ] /\ SameBut(v, w, { "o", "data", "result", "value" })
      /\ w.o = [ v.o EXCEPT !.position = q ]
  BY <1>1, Fields DEF SameBut, VolumeFields
<1>4. SameBut(v.o, w.o, CalmFields)
  BY <1>3, ClosedFields DEF LooseOK, HasFields, SameBut, CalmFields
<1> QED
  BY <1>2, <1>3, <1>4, CalmSet DEF w

\* Whole sectors straight to the caller (2884).
LEMMA ReadSectorsCalm ==
  ASSUME NEW v, NEW a, Holds(v, a), LooseOK(v.o), NEW s, NEW n, n * UnitsPerSector \in Nat
  PROVE  Calm(v, a, ReadSectors(v, s, n))
<1> DEFINE d == DiskRead(v, s)
           Cached(t) == v.o.dirty /\ v.o.cached = t
           Held_(t) == IF Cached(t) THEN v.o.units ELSE UnitsOf(v.disk[t])
           Unit_(k) == Held_(s + (k - 1) \div UnitsPerSector)[UnitIndex(k - 1)]
           y == [ k \in 1 .. n * UnitsPerSector |-> Unit_(k) ]
           m == n * UnitsPerSector
           x == [ d EXCEPT !.data = @ \o y, !.o.position = @ + m ]
           w == ReadSectors(v, s, n)
<1>1. w \in { d, x }
  BY DEF ReadSectors, Then
<1>2. LooseOK(w.o)
  BY ReadSectorsStays DEF Holds, Intact
<1>3. Calm(v, a, d) /\ d.o = v.o
  BY DiskReadCalm
<1> HIDE DEF w, d, m, y
<1>4. CASE w = x
  <2>1. /\ x = [ f \in DOMAIN x |-> x[f] ] /\ SameBut(d, x, { "o", "data", "result", "value" })
        /\ x.o = [ d.o EXCEPT !.position = d.o.position + m ]
    <3>1. x = [ d EXCEPT !.data = d.data \o y, !.o.position = d.o.position + m ]
      OBVIOUS
    <3> HIDE DEF x
    <3> QED
      BY <1>3, <3>1, Fields DEF SameBut, VolumeFields, TableFields, Calm, Holds, Intact
  <2> HIDE DEF x
  <2>2. SameBut(d.o, x.o, CalmFields)
    BY <1>3, <2>1, ClosedFields DEF SameBut, CalmFields, LooseOK, HasFields
  <2> QED
    BY <1>2, <1>3, <1>4, <2>1, <2>2, CalmSet, CalmAgain DEF Calm, w
<1>5. CASE w = d
  BY <1>3, <1>5 DEF w
<1> QED
  BY <1>1, <1>4, <1>5

\* read on a sector boundary (2872).
LEMMA ReadAlignedCalm ==
  ASSUME NEW v, NEW a, Holds(v, a), LooseOK(v.o), NEW n \in Nat \ {0}
  PROVE  Calm(v, a, ReadAligned(v, n))
<1> DEFINE s == CurrentSector(v.o)
           whole == WholeSectors(v.o, n)
           b == WriteBack(v)
           f == Fill(b, s)
           c == IF b.result = "OK" THEN f ELSE b
           w == ReadAligned(v, n)
<1>1. w \in { Fails(v, "INT_ERR"), ReadSectors(v, s, whole), ReadPart(v, n), c, ReadPart(c, n) }
  BY DEF ReadAligned, Then
<1> HIDE DEF w
<1>2. s \in DataSectors \cup { NoSector }
  BY CurrentPlace DEF NoSector
<1>3. whole * UnitsPerSector \in Nat
  <2>1. whole * UnitsPerSector \in 0 .. n
    BY WholeUnits
  <2> QED
    BY <2>1
<1> HIDE DEF s, whole
<1>4. Calm(v, a, b) /\ Holds(b, a) /\ LooseOK(b.o)
  BY WriteBackCalm DEF Calm
<1> HIDE DEF b
<1>5. Calm(b, a, f) /\ Holds(f, a) /\ LooseOK(f.o)
  BY <1>2, <1>4, FillCalm DEF Calm
<1> HIDE DEF f
<1>6. Calm(v, a, c) /\ Holds(c, a) /\ LooseOK(c.o)
  BY <1>4, <1>5, CalmAgain
<1> HIDE DEF c
<1>7. Calm(v, a, ReadPart(c, n))
  BY <1>6, ReadPartCalm, CalmAgain
<1>8. Calm(v, a, Fails(v, "INT_ERR")) /\ Calm(v, a, ReadSectors(v, s, whole)) /\ Calm(v, a, ReadPart(v, n))
  BY <1>3, CalmSame, ReadSectorsCalm, ReadPartCalm
<1> QED
  BY <1>1, <1>6, <1>7, <1>8 DEF w

-----------------------------------------------------------------------------
(* Following a chain. *)

MovingFields == CalmFields \cup { "start", "cluster" }

Mine(v, a, p) ==
  Tied(v.o, a, p) /\ (v.result \in { "OK", "FULL" } /\ v.o.position # 0 => OnChain(v.o, a))

\* From v to w the object whose entry is at p moves on.
SameFile(v, w) == LooseOK(w.o) /\ SameBut(v, w, FileFields) /\ SameBut(v.o, w.o, MovingFields)
Moves(v, a, p, w) == SameFile(v, w) /\ \E b : Spares(a, b) /\ Holds(w, b) /\ Mine(w, b, p)

\* It does, and has a cluster at hand.
Enters(v, a, p, w) ==
  SameFile(v, w) /\ \E b : Spares(a, b) /\ Holds(w, b) /\ Mine(w, b, p) /\ (w.result = "OK" => OnChain(w.o, b))

LEMMA SameFileAgain ==
  ASSUME NEW v, NEW u, SameFile(v, u), NEW w, SameFile(u, w)
  PROVE  SameFile(v, w)
  BY DEF SameFile, SameBut

LEMMA SameFileOK ==
  ASSUME NEW v, LooseOK(v.o), NEW w, SameFile(v, w)
  PROVE  w.o.write = v.o.write /\ LooseOK(w.o)
  BY ClosedFields DEF SameFile, LooseOK, HasFields, SameBut, MovingFields, CalmFields

LEMMA CalmSameFile ==
  ASSUME NEW v, NEW a, NEW w, Calm(v, a, w)
  PROVE  SameFile(v, w)
  BY DEF Calm, SameFile, SameBut, MovingFields

LEMMA MovesAgain ==
  ASSUME NEW v, NEW a, NEW p, NEW u, Moves(v, a, p, u), NEW w,
         \A b : Holds(u, b) /\ Mine(u, b, p) => Moves(u, b, p, w)
  PROVE  Moves(v, a, p, w)
<1>1. PICK b : Spares(a, b) /\ Holds(u, b) /\ Mine(u, b, p)
  BY DEF Moves
<1>2. SameFile(u, w)
  BY <1>1 DEF Moves
<1>3. PICK c : Spares(b, c) /\ Holds(w, c) /\ Mine(w, c, p)
  BY <1>1 DEF Moves
<1> QED
  BY <1>1, <1>2, <1>3, SparesAgain, SameFileAgain DEF Moves

LEMMA EntersMoves ==
  ASSUME NEW v, NEW a, NEW p, NEW w, Enters(v, a, p, w)
  PROVE  Moves(v, a, p, w)
  BY DEF Enters, Moves

\* With a cluster at hand, data may go back and forth.
LEMMA EntersThenCalm ==
  ASSUME NEW v, NEW a, NEW p, NEW u, LooseOK(v.o), Enters(v, a, p, u), u.result = "OK", NEW w,
         \A b : Holds(u, b) => Calm(u, b, w)
  PROVE  Moves(v, a, p, w)
<1>1. PICK b : Spares(a, b) /\ Holds(u, b) /\ Mine(u, b, p) /\ OnChain(u.o, b)
  BY DEF Enters
<1>2. Calm(u, b, w) /\ LooseOK(u.o)
  BY <1>1 DEF Enters, SameFile
<1>3. SameFile(v, w)
  BY <1>2, CalmSameFile, SameFileAgain DEF Enters
<1>4. Tied(w.o, b, p) /\ OnChain(w.o, b) /\ Holds(w, b)
  BY <1>1, <1>2, CalmObject DEF Mine
<1> QED
  BY <1>1, <1>3, <1>4 DEF Moves, Mine

\* A cluster of a chain is its first, or a link leads there.
LEMMA AtSource ==
  ASSUME NEW a, Rooted(a), NEW s, NEW n, NEW c, At(a.links, s, n, c)
  PROVE  c = s \/ \E m \in a.links : m[2] = c
<1> DEFINE G == { d \in Clusters : d = s \/ \E m \in a.links : m[2] = d }
           T == Nat \X G
<1>1. G \subseteq Clusters
  OBVIOUS
<1>2. s \in G
  BY DEF At
<1>3. \A l \in a.links : l[2] \in G
  BY DEF Rooted
<1> HIDE DEF G
<1>4. T \in SUBSET (Nat \X Clusters) /\ Steady(T, a.links, s)
  BY <1>1, <1>2, <1>3 DEF Steady
<1>5. << n, c >> \in T
  BY <1>4 DEF At
<1>6. c \in G
  BY <1>5
<1> QED
  BY <1>6 DEF G

\* A link that is followed is kept.
LEMMA FollowLink ==
  ASSUME NEW v, NEW a, Holds(v, a), NEW o, NEW p, Tied(o, a, p), o.write, NEW n, At(a.links, o.start, n, o.cluster),
         NEW c \in Clusters, ~v.dead => LinkOn(Logical(v), o.cluster) = c
  PROVE  \E b : Spares(a, b) /\ Holds(v, b) /\ Tied(o, b, p) /\ At(b.links, o.start, n + 1, c)
<1> DEFINE l == << o.cluster, c >>
           b == Grown(a, {}, { l })
<1>1. o.start \in Clusters /\ o.cluster \in Clusters /\ Rooted(a)
  BY DEF At, Holds, Intact
<1>2. o.start # 0
  BY <1>1, Numbers
<1>3. \/ \E h \in a.claims : h[2] = o.cluster /\ h[1] \in a.files \cup { RootPlace }
      \/ \E m \in a.links : m[2] = o.cluster
  <2>1. CASE o.cluster = o.start
    BY <1>2, <2>1 DEF Tied
  <2> QED
    BY <1>1, <2>1, AtSource
<1>4. Holds(v, b)
  BY <1>1, <1>3, LinkMayBeKept
<1>5. Spares(a, b) /\ b.links = a.links \cup { l } /\ b.claims = a.claims \cup {} /\ b.files = a.files
  <2> HIDE DEF l
  <2> QED
    BY GrownSpares DEF Grown, Accord
<1> HIDE DEF b
<1>6. Tied(o, b, p)
  BY <1>5 DEF Tied
<1>7. At(b.links, o.start, n, o.cluster)
  BY <1>5, AtMore
<1>8. At(b.links, o.start, n + 1, c)
  BY <1>5, <1>7, AtNext
<1> QED
  BY <1>4, <1>5, <1>6, <1>8

\* The number at hand becomes the current cluster.
LEMMA EnterClusterDoes ==
  ASSUME NEW v, NEW a, Holds(v, a), LooseOK(v.o)
  PROVE  LET w == EnterCluster(v)
         IN  /\ Holds(w, a) /\ SameFile(v, w) /\ SameBut(v.o, w.o, { "cluster" })
             /\ w.result \in Errors \cup { "OK" } /\ w.value = v.value /\ w.dead = v.dead
             /\ w.result = "OK" => w.o.cluster = v.value /\ v.value \notin { 0, 1, Ones }
             /\ w.result # "OK" => w.o = v.o
<1> DEFINE x == [ v EXCEPT !.o.cluster = v.value, !.result = "OK" ]
           w == EnterCluster(v)
<1>1. w \in { Fails(v, "INT_ERR"), Fails(v, "DISK_ERR"), x }
  BY DEF EnterCluster
<1>2. /\ VolumeOK(v) /\ VolumeOK(w) /\ LooseOK(w.o) /\ SameBut(v.o, w.o, { "cluster" }) /\ w.value = v.value
      /\ w.result \in Errors \cup { "OK" } /\ (v.value \in { 0, 1, Ones } => w.result \in Errors)
  BY EnterClusterStays DEF Holds, Intact
<1> HIDE DEF w
<1>3. \A r : Fails(v, r) = [ f \in DOMAIN Fails(v, r) |-> Fails(v, r)[f] ] /\ SameBut(v, Fails(v, r), { "o", "result" })
        /\ Fails(v, r).o = v.o /\ Fails(v, r).result = r
  BY <1>2, FailsStays, FailsFile, Fields DEF SameBut
<1>4. x = [ f \in DOMAIN x |-> x[f] ] /\ SameBut(v, x, { "o", "result" }) /\ x.o.cluster = v.value /\ x.result = "OK"
  BY <1>2, Fields, ClosedFields DEF SameBut, VolumeFields, TableFields, LooseOK, HasFields
<1> HIDE DEF x
<1>5. "OK" \notin Errors
  BY DEF Errors
<1>6. w = [ f \in DOMAIN w |-> w[f] ] /\ SameBut(v, w, { "o", "result" })
  BY <1>1, <1>3, <1>4
<1>7. SameBut(v, w, OuterFields) /\ SameBut(v, w, FileFields) /\ SameBut(v.o, w.o, MovingFields)
  BY <1>2, <1>6 DEF SameBut, OuterFields, FileFields, ChainFields, WindowFields, MovingFields
<1>8. Seen(v, w) /\ w.dead = v.dead
  BY <1>2, <1>6, <1>7, OuterSeen, OuterStays
<1>9. Holds(w, a) /\ SameFile(v, w)
  BY <1>2, <1>7, <1>8, SeenHolds DEF SameFile
<1>10. w.result = "OK" => w.o.cluster = v.value /\ v.value \notin { 0, 1, Ones }
  BY <1>1, <1>2, <1>3, <1>4, <1>5
<1>11. w.result # "OK" => w.o = v.o
  BY <1>1, <1>3, <1>4
<1> QED
  BY <1>2, <1>8, <1>9, <1>10, <1>11 DEF w

LEMMA EnterEnters ==
  ASSUME NEW v, LooseOK(v.o), NEW a, NEW p, NEW u, SameFile(v, u), NEW b, Spares(a, b), Holds(u, b), Tied(u.o, b, p),
         u.o.write /\ u.value \in Clusters => \E n : At(b.links, u.o.start, n, u.value)
  PROVE  Enters(v, a, p, EnterCluster(u))
<1> DEFINE e == EnterCluster(u)
<1>1. /\ Holds(e, b) /\ SameFile(u, e) /\ SameBut(u.o, e.o, { "cluster" })
      /\ e.result \in Errors \cup { "OK" }
      /\ e.result = "OK" => e.o.cluster = u.value /\ u.value \notin { 0, 1, Ones }
  BY EnterClusterDoes DEF SameFile
<1> HIDE DEF e
<1>2. e.o.write = u.o.write /\ e.o.start = u.o.start
  BY <1>1, ClosedFields DEF SameFile, LooseOK, HasFields, SameBut
<1>3. Tied(e.o, b, p) /\ (e.result = "OK" => OnChain(e.o, b))
  BY <1>1, <1>2 DEF Tied, OnChain
<1>4. e.result # "FULL"
  BY <1>1 DEF Errors
<1>5. SameFile(v, e)
  BY <1>1, SameFileAgain
<1> QED
  BY <1>1, <1>3, <1>4, <1>5 DEF Enters, Mine, e

\* A position within a cluster is not the first.
LEMMA FirstSector == SectorInFile(0) = 0 /\ Aligned(0)
<1> DEFINE U == UnitsPerSector
           S == SectorsPerCluster
<1>1. U \in Nat \ {0} /\ S \in Nat \ {0}
  BY FileUnits
<1> HIDE DEF U, S
<1>2. 0 \div U = 0 /\ 0 % U = 0 /\ 0 % S = 0
  BY <1>1
<1> QED
  BY <1>2 DEF SectorInFile, Aligned, U, S

\* read on a cluster boundary (2851).
LEMMA ReadClusterEnters ==
  ASSUME NEW v, NEW a, NEW p, Holds(v, a), LooseOK(v.o), Mine(v, a, p), v.result = "OK"
  PROVE  Enters(v, a, p, ReadCluster(v))
<1> DEFINE g == GetFat(v, v.o.cluster)
           s == Gives(v, v.o.start)
           w == ReadCluster(v)
<1>1. IF SectorInFile(v.o.position) # 0 THEN w = Fails(v, "OK")
      ELSE w = EnterCluster(IF v.o.position = 0 THEN s ELSE g)
  BY DEF ReadCluster
<1>2. VolumeOK(v) /\ Tied(v.o, a, p)
  BY DEF Holds, Intact, Mine
<1>3. v.o.position # 0 => OnChain(v.o, a)
  BY DEF Mine
<1> HIDE DEF w
<1>4. CASE SectorInFile(v.o.position) # 0
  <2>1. w = Fails(v, "OK") /\ v.o.position # 0
    BY <1>1, <1>4, FirstSector
  <2>2. Calm(v, a, w) /\ w.o = v.o
    BY <1>2, <2>1, CalmSame, FailsFile
  <2>3. Mine(w, a, p) /\ OnChain(w.o, a)
    BY <1>2, <1>3, <2>1, <2>2 DEF Mine
  <2> QED
    BY <2>2, <2>3, CalmSameFile, SparesSelf DEF Enters, Calm, w
<1>5. CASE SectorInFile(v.o.position) = 0 /\ v.o.position = 0
  <2>1. w = EnterCluster(s)
    BY <1>1, <1>5
  <2>2. Calm(v, a, s) /\ s.o = v.o /\ s.value = v.o.start
    BY <1>2, CalmSame, GivesFile DEF LooseOK
  <2> HIDE DEF s
  <2>3. s.value \in Clusters => At(a.links, s.o.start, 0, s.value)
    BY <2>2, AtStart
  <2> QED
    BY <1>2, <2>1, <2>2, <2>3, EnterEnters, CalmSameFile, SparesSelf DEF Calm, w
<1>6. CASE SectorInFile(v.o.position) = 0 /\ v.o.position # 0
  <2>1. w = EnterCluster(g)
    BY <1>1, <1>6
  <2>2. Seen(v, g) /\ SameBut(v, g, WindowFields \cup { "value" }) /\ VolumeOK(g)
    BY <1>2, GetFatSeen, GetFatStays
  <2>3. ~g.dead /\ g.value \in Clusters => ~v.dead /\ << v.o.cluster, g.value >> \in LinksOf(Logical(v))
    BY <1>2, FatAt
  <2>3a. v.o.cluster \notin Clusters => g.value = 1
    BY <1>2, GetFatStays
  <2> HIDE DEF g
  <2>4. g.o = v.o /\ Holds(g, a)
    BY <1>2, <2>2, SeenHolds, Fields DEF SameBut, WindowFields, VolumeFields, TableFields
  <2>5. SameFile(v, g)
    <3>1. SameBut(v, g, FileFields) /\ SameBut(v.o, g.o, MovingFields)
      BY <2>2, <2>4 DEF SameBut, FileFields, ChainFields, MovingFields
    <3> QED
      BY <2>4, <3>1 DEF SameFile
  <2>6. CASE v.o.write /\ g.value \in Clusters
    <3>1. v.o.cluster \in Clusters
      BY <2>3a, <2>6, Numbers
    <3>2. PICK n : At(a.links, v.o.start, n, v.o.cluster)
      BY <1>3, <1>6, <2>6, <3>1 DEF OnChain
    <3>3. ~g.dead => LinkOn(Logical(g), v.o.cluster) = g.value
      BY <2>2, <2>3, <2>6 DEF Seen, LinksOf
    <3>4. PICK b : Spares(a, b) /\ Holds(g, b) /\ Tied(v.o, b, p) /\ At(b.links, v.o.start, n + 1, g.value)
      BY <1>2, <2>4, <2>6, <3>2, <3>3, FollowLink
    <3> QED
      BY <2>1, <2>4, <2>5, <3>4, EnterEnters DEF w
  <2>7. CASE ~(v.o.write /\ g.value \in Clusters)
    <3>1. Tied(g.o, a, p) /\ ~(g.o.write /\ g.value \in Clusters)
      BY <1>2, <2>4, <2>7
    <3>2. Enters(v, a, p, EnterCluster(g))
      BY <2>4, <2>5, <3>1, EnterEnters, SparesSelf
    <3> QED
      BY <2>1, <3>2 DEF w
  <2> QED
    BY <2>6, <2>7
<1> QED
  BY <1>4, <1>5, <1>6

LEMMA MineCalm ==
  ASSUME NEW v, NEW a, NEW p, LooseOK(v.o), Mine(v, a, p), v.result = "OK", v.o.position # 0, NEW w, Calm(v, a, w)
  PROVE  Moves(v, a, p, w)
<1>1. Tied(w.o, a, p) /\ OnChain(w.o, a) /\ Holds(w, a)
  BY CalmObject DEF Mine
<1> QED
  BY <1>1, CalmSameFile, SparesSelf DEF Moves, Mine

LEMMA MovesSelf ==
  ASSUME NEW v, NEW a, NEW p, Holds(v, a), LooseOK(v.o), Mine(v, a, p)
  PROVE  Moves(v, a, p, v)
  BY SparesSelf DEF Moves, SameFile, SameBut

\* A pass of read (2847).
LEMMA MovePassMoves ==
  ASSUME NEW v, NEW a, NEW p, Holds(v, a), LooseOK(v.o), Mine(v, a, p), NEW end \in Nat, v.o.position <= end, NEW k
  PROVE  Moves(v, a, p, MovePass(v, end, k))
<1> DEFINE n == end - v.o.position
           c == ReadCluster(v)
           d == ReadAligned(c, n)
           w == MovePass(v, end, k)
<1>1. CASE v.result # "OK" \/ n = 0
  <2>1. w = v
    BY <1>1 DEF MovePass
  <2> QED
    BY <2>1, MovesSelf
<1>2. CASE v.result = "OK" /\ n # 0
  <2>1. n \in Nat \ {0}
    <3>1. v.o.position \in Nat
      BY DEF LooseOK
    <3> QED
      BY <1>2, <3>1
  <2>2. \/ w = d /\ c.result = "OK"
        \/ w = c
        \/ w = ReadPart(v, n) /\ v.o.position # 0
    BY <1>2, FirstSector DEF MovePass, Then
  <2> HIDE DEF w, n
  <2>3. Enters(v, a, p, c)
    BY <1>2, ReadClusterEnters
  <2> HIDE DEF c
  <2>4. CASE w = d /\ c.result = "OK"
    <3>1. \A b : Holds(c, b) => Calm(c, b, d)
      BY <2>1, <2>3, ReadAlignedCalm DEF Enters, SameFile
    <3> HIDE DEF d
    <3> QED
      BY <2>3, <2>4, <3>1, EntersThenCalm DEF w
  <2>5. CASE w = c
    BY <2>3, <2>5, EntersMoves DEF w
  <2>6. CASE w = ReadPart(v, n) /\ v.o.position # 0
    BY <1>2, <2>1, <2>6, ReadPartCalm, MineCalm DEF w
  <2> QED
    BY <2>2, <2>4, <2>5, <2>6
<1> QED
  BY <1>1, <1>2

-----------------------------------------------------------------------------
(* The methods of cFile on the data. *)

\* What is left of the object after a call.
Ready(o, a, p) == Tied(o, a, p) /\ (o.result = "OK" /\ o.position # 0 => OnChain(o, a))
Calls(v, a, p, w) == SameFile(v, w) /\ \E b : Spares(a, b) /\ Holds(w, b) /\ Ready(w.o, b, p)

LEMMA AbortCalls ==
  ASSUME NEW v, NEW a, NEW p, NEW u, Moves(v, a, p, u)
  PROVE  Calls(v, a, p, Abort(u))
<1> DEFINE w == Abort(u)
<1>1. PICK b : Spares(a, b) /\ Holds(u, b) /\ Mine(u, b, p)
  BY DEF Moves
<1>2. VolumeOK(u) /\ LooseOK(u.o) /\ SameFile(v, u)
  BY <1>1 DEF Moves, SameFile, Holds, Intact
<1>3. (u.result = "OK" => w = u) /\ (u.result # "OK" => w.o.result = u.result) /\ VolumeOK(w) /\ LooseOK(w.o)
  BY <1>2, AbortStays
<1>4. w \in { u, [ u EXCEPT !.o.result = u.result ] }
  BY DEF Abort
<1> HIDE DEF w
<1>5. /\ w = [ f \in DOMAIN w |-> w[f] ] /\ SameBut(u, w, { "o", "data", "result", "value" })
      /\ SameBut(u.o, w.o, CalmFields)
  <2> DEFINE x == [ u EXCEPT !.o.result = u.result ]
  <2>1. /\ x = [ f \in DOMAIN x |-> x[f] ] /\ SameBut(u, x, { "o", "data", "result", "value" })
        /\ x.o = [ u.o EXCEPT !.result = u.result ]
    BY <1>2, Fields DEF SameBut, VolumeFields, TableFields
  <2> HIDE DEF x
  <2>2. SameBut(u.o, x.o, CalmFields)
    BY <1>2, <2>1, ClosedFields DEF SameBut, CalmFields, LooseOK, HasFields
  <2>3. CASE w = x
    BY <2>1, <2>2, <2>3
  <2>4. CASE w = u
    BY <1>2, <2>4, Fields DEF SameBut
  <2> QED
    BY <1>4, <2>3, <2>4 DEF x
<1>6. Calm(u, b, w)
  BY <1>1, <1>3, <1>5, CalmSet
<1>7. Holds(w, b) /\ Tied(w.o, b, p) /\ (OnChain(u.o, b) => OnChain(w.o, b)) /\ SameFile(v, w)
  BY <1>1, <1>2, <1>6, CalmObject, CalmSameFile, SameFileAgain DEF Mine
<1>8. w.o.result = "OK" /\ w.o.position # 0 => OnChain(w.o, b)
  BY <1>1, <1>3, <1>7 DEF Mine
<1> QED
  BY <1>1, <1>7, <1>8 DEF Calls, Ready, w

\* read (2825).
LEMMA ReadCalls ==
  ASSUME NEW v, NEW a, NEW p, Holds(v, a), ObjectOK(v.o), v.o.result = "OK", Mine(v, a, p), NEW n \in Nat
  PROVE  Calls(v, a, p, Read(v, n))
<1> DEFINE end == v.o.position + SmallerOf(n, v.o.size - v.o.position)
           u(k) == Moving!Passes(v, end)[k]
           P(x) == Moves(v, a, p, x) /\ x.o.position <= end
           T == { k \in Nat : P(u(k)) }
<1>1. Read(v, n) = Abort(u(n))
  BY DEF Read
<1>2. LooseOK(v.o) /\ v.o.position \in Nat /\ v.o.size \in Nat /\ v.o.position <= v.o.size
  BY LooseAndResult DEF ObjectOK
<1>3. end \in Nat /\ v.o.position <= end
  BY <1>2 DEF SmallerOf
<1> HIDE DEF end
<1>4. u(0) = v /\ \A k \in Nat : u(k + 1) = MovePass(u(k), end, k + 1)
  BY Moving!PassByPass
<1> HIDE DEF u
<1>5. 0 \in T
  BY <1>2, <1>3, <1>4, MovesSelf
<1>6. ASSUME NEW k \in Nat, k \in T PROVE k + 1 \in T
  <2>1. Moves(v, a, p, u(k)) /\ u(k).o.position <= end
    BY <1>6
  <2>2. LooseOK(u(k).o)
    BY <2>1 DEF Moves, SameFile
  <2>3. VolumeOK(u(k))
    BY <2>1 DEF Moves, Holds, Intact
  <2>4. u(k + 1).o.position <= end
    BY <1>3, <1>4, <2>1, <2>2, <2>3, MovePassStays
  <2>5. \A b : Holds(u(k), b) /\ Mine(u(k), b, p) => Moves(u(k), b, p, u(k + 1))
    BY <1>3, <1>4, <2>1, <2>2, MovePassMoves
  <2>6. Moves(v, a, p, u(k + 1))
    BY <2>1, <2>5, MovesAgain
  <2> QED
    BY <2>4, <2>6
<1>7. Nat \subseteq T
  <2> HIDE DEF T
  <2> QED
    BY <1>5, <1>6, Moving!Upwards
<1>8. Moves(v, a, p, u(n))
  BY <1>7
<1> QED
  BY <1>1, <1>8, AbortCalls

-----------------------------------------------------------------------------
(* Writing. *)

\* diskWrite of several sectors, each of which takes units.
LEMMA WriteSectorsFromCalm ==
  ASSUME NEW v, NEW a, Holds(v, a), LooseOK(v.o), v.data \in Seq(Unit), NEW s \in Nat, NEW n \in Nat,
         \A j \in 0 .. n - 1 : s + j \in DataSectors,
         n * UnitsPerSector <= Len(v.data)
  PROVE  Calm(v, a, WriteSectorsFrom(v, s, n))
<1> DEFINE U == UnitsPerSector
           v0 == Fails(v, "OK")
           u(k) == Sending!Passes(v0, s)[k]
           Inv(k, x) == /\ Calm(v, a, x) /\ x.data \in Seq(Unit)
                        /\ x.result = "OK" => Len(x.data) = Len(v.data) - k * U
           T == { k \in Nat : k <= n => Inv(k, u(k)) }
<1>1. WriteSectorsFrom(v, s, n) = u(n)
  BY DEF WriteSectorsFrom
<1>2. U \in Nat \ {0}
  BY FileUnits
<1> HIDE DEF U
<1>3. u(0) = v0 /\ \A k \in Nat : u(k + 1) = SectorPass(u(k), s, k + 1)
  BY Sending!PassByPass
<1> HIDE DEF u
<1>4. 0 \in T
  <2>1. Calm(v, a, v0) /\ v0.data = v.data
    BY CalmSame, FailsFile DEF Holds, Intact
  <2>2. Len(v.data) = Len(v.data) - 0 * U
    <3>1. Len(v.data) \in Nat /\ 0 * U = 0
      BY <1>2
    <3> QED
      BY <3>1
  <2> QED
    BY <1>3, <2>1, <2>2
<1>5. ASSUME NEW k \in Nat, k \in T PROVE k + 1 \in T
  <2> SUFFICES ASSUME k + 1 <= n PROVE Inv(k + 1, u(k + 1))
    OBVIOUS
  <2> DEFINE x == u(k)
             t == s + k
             q == SubSeq(x.data, 1, UnitsPerSector)
             d == DiskWrite(x, t, Units(q))
             z == SubSeq(d.data, UnitsPerSector + 1, Len(d.data))
             y == [ d EXCEPT !.data = z ]
  <2>1. Inv(k, x) /\ LooseOK(x.o) /\ Holds(x, a)
    BY <1>5 DEF Calm
  <2>2. k \in 0 .. n - 1 /\ t \in DataSectors
    OBVIOUS
  <2>3. u(k + 1) = IF x.result = "OK" THEN IF d.result = "OK" THEN y ELSE d ELSE x
    <3>1. u(k + 1) = SectorPass(x, s, k + 1) /\ s + (k + 1) - 1 = t
      BY <1>3
    <3> HIDE DEF x, t
    <3> QED
      BY <3>1 DEF SectorPass, Then
  <2> HIDE DEF x, t
  <2>4. CASE x.result # "OK"
    BY <2>1, <2>3, <2>4
  <2>5. CASE x.result = "OK"
    <3>1. Len(x.data) = Len(v.data) - k * U /\ Len(x.data) >= U
      <4>1. Len(v.data) \in Nat /\ Len(x.data) = Len(v.data) - k * U
        BY <2>1, <2>5
      <4>2. PICK j \in Nat : n = k + 1 + j
        <5>1. n - (k + 1) \in Nat /\ n = k + 1 + (n - (k + 1))
          BY <2>2
        <5> QED
          BY <5>1
      <4>3. n * U = k * U + U + j * U /\ j * U \in Nat /\ k * U \in Nat
        BY <1>2, <4>2
      <4>4. n * U <= Len(v.data)
        BY DEF U
      <4> QED
        BY <1>2, <4>1, <4>3, <4>4
    <3>2. /\ q \in UnitsOK
          /\ SubSeq(x.data, UnitsPerSector + 1, Len(x.data)) \in Seq(Unit)
          /\ Len(SubSeq(x.data, UnitsPerSector + 1, Len(x.data))) = Len(x.data) - UnitsPerSector
      <4>1. x.data \in Seq(Unit) /\ Len(x.data) \in Nat /\ UnitsPerSector \in 0 .. Len(x.data) /\ 0 \in 0 .. Len(x.data)
            /\ 0 + UnitsPerSector <= Len(x.data) /\ 0 + UnitsPerSector = UnitsPerSector /\ 0 + 1 = 1
        BY <1>2, <2>1, <3>1 DEF U
      <4> QED
        BY <4>1, DataParts
    <3> HIDE DEF q
    <3>3. Calm(x, a, d) /\ d.o = x.o /\ d.data = x.data
      BY <2>1, <2>2, <3>2, DataCalm
    <3> HIDE DEF d
    <3>4. Calm(v, a, d) /\ d.data \in Seq(Unit) /\ LooseOK(d.o) /\ Holds(d, a) /\ VolumeOK(d)
      BY <2>1, <3>3, CalmAgain DEF Calm, Holds, Intact
    <3>5. CASE d.result # "OK"
      BY <2>3, <2>5, <3>4, <3>5
    <3>6. CASE d.result = "OK"
      <4>1. u(k + 1) = y
        BY <2>3, <2>5, <3>6
      <4>2. z \in Seq(Unit) /\ Len(z) = Len(x.data) - U
        BY <3>2, <3>3 DEF U
      <4> HIDE DEF z
      <4>3. /\ y = [ f \in DOMAIN y |-> y[f] ] /\ SameBut(d, y, { "o", "data", "result", "value" }) /\ y.o = d.o
            /\ y.data = z
        BY <3>4, Fields DEF SameBut, VolumeFields
      <4> HIDE DEF y
      <4>4. Calm(d, a, y)
        BY <3>4, <4>3, CalmSet DEF SameBut
      <4>5. Calm(v, a, y)
        BY <3>4, <4>4, CalmAgain
      <4>6. Len(z) = Len(v.data) - (k + 1) * U
        <5> DEFINE r == k * U
                   b1 == (k + 1) * U
                   l == Len(v.data)
        <5>1. b1 = r + U /\ r \in Nat /\ l \in Nat
          BY <1>2
        <5>2. Len(z) = (l - r) - U
          BY <3>1, <4>2
        <5> HIDE DEF r, b1, l
        <5>3. Len(z) = l - b1
          BY <1>2, <5>1, <5>2
        <5> QED
          BY <5>3 DEF l, b1
      <4> QED
        BY <4>1, <4>2, <4>3, <4>5, <4>6
    <3> QED
      BY <3>5, <3>6
  <2> QED
    BY <2>4, <2>5
<1>6. Nat \subseteq T
  <2> HIDE DEF T
  <2> QED
    BY <1>4, <1>5, Sending!Upwards
<1> QED
  BY <1>1, <1>6

\* The cached sector is among those that are written: it takes its part of the data.
LEMMA WriteSectorsCalm ==
  ASSUME NEW v, NEW a, Holds(v, a), LooseOK(v.o), v.data \in Seq(Unit), NEW s \in Nat, NEW n \in Nat,
         \A j \in 0 .. n - 1 : s + j \in DataSectors,
         n * UnitsPerSector <= Len(v.data)
  PROVE  Calm(v, a, WriteSectors(v, s, n))
<1> DEFINE at == (v.o.cached - s) * UnitsPerSector
           f == WriteSectorsFrom(v, s, n)
           units == SubSeq(v.data, at + 1, at + UnitsPerSector)
           r == [ f EXCEPT !.o.units = units, !.o.dirty = FALSE ]
           t == IF f.result = "OK" THEN IF v.o.cached \in s .. s + n - 1 THEN r ELSE f ELSE f
           q == t.o.position + n * UnitsPerSector
           x == [ t EXCEPT !.o.position = q ]
           w == WriteSectors(v, s, n)
<1>1. w = IF t.result = "OK" THEN x ELSE t
  BY DEF WriteSectors, Then
<1>1a. LooseOK(w.o)
  BY WriteSectorsStays, FileTwice DEF Holds, Intact, FileStays
<1> HIDE DEF w
<1>2. Calm(v, a, f) /\ Holds(f, a) /\ LooseOK(f.o) /\ VolumeOK(f)
  BY WriteSectorsFromCalm DEF Calm, Holds, Intact
<1> HIDE DEF f
<1>3. v.o.cached \in s .. s + n - 1 => Calm(v, a, r)
  <2> SUFFICES ASSUME v.o.cached \in s .. s + n - 1 PROVE Calm(v, a, r)
    OBVIOUS
  <2>1. units \in UnitsOK
    BY RefillUnits
  <2> HIDE DEF units
  <2>2. /\ r = [ g \in DOMAIN r |-> r[g] ] /\ SameBut(f, r, { "o", "data", "result", "value" })
        /\ r.o = [ f.o EXCEPT !.units = units, !.dirty = FALSE ]
    BY <1>2, Fields DEF SameBut, VolumeFields
  <2> HIDE DEF r
  <2>3. LooseOK(r.o) /\ SameBut(f.o, r.o, CalmFields)
    <3>1. LooseOK(f.o) /\ HasFields(f.o, DOMAIN Closed)
      BY <1>2 DEF LooseOK
    <3>2. /\ r.o = [ g \in DOMAIN r.o |-> r.o[g] ] /\ SameBut(f.o, r.o, { "units", "dirty" })
          /\ r.o.units = units /\ r.o.dirty = FALSE
      BY <2>2, <3>1, ClosedFields DEF HasFields, SameBut
    <3>3. HasFields(r.o, DOMAIN Closed)
      BY <3>1, <3>2 DEF HasFields, SameBut
    <3>4. /\ r.o.start = f.o.start /\ r.o.position = f.o.position /\ r.o.size = f.o.size
          /\ r.o.cached = f.o.cached /\ r.o.write = f.o.write /\ r.o.open = f.o.open
      BY <3>1, <3>2, ClosedFields DEF HasFields, SameBut
    <3>5. LooseOK(r.o)
      BY <2>1, <3>1, <3>2, <3>3, <3>4 DEF LooseOK
    <3> QED
      BY <3>2, <3>5 DEF SameBut, CalmFields
  <2> QED
    BY <1>2, <2>2, <2>3, CalmSet, CalmAgain
<1> HIDE DEF r
<1>4. Calm(v, a, t) /\ Holds(t, a) /\ LooseOK(t.o) /\ VolumeOK(t)
  <2>1. Calm(v, a, t)
    BY <1>2, <1>3
  <2> HIDE DEF t
  <2> QED
    BY <2>1 DEF Calm, Holds, Intact
<1> HIDE DEF t
<1>5. CASE w = x
  <2> HIDE DEF q
  <2>1. /\ x = [ g \in DOMAIN x |-> x[g] ] /\ SameBut(t, x, { "o", "data", "result", "value" })
        /\ x.o = [ t.o EXCEPT !.position = q ]
    BY <1>4, Fields DEF SameBut, VolumeFields
  <2> HIDE DEF x
  <2>2. SameBut(t.o, x.o, CalmFields)
    BY <1>4, <2>1, ClosedFields DEF LooseOK, HasFields, SameBut, CalmFields
  <2> QED
    BY <1>1a, <1>4, <1>5, <2>1, <2>2, CalmSet, CalmAgain DEF w
<1>6. CASE w = t
  BY <1>4, <1>6 DEF w
<1> QED
  BY <1>1, <1>5, <1>6

\* A part of a sector into the cache (3032).
LEMMA WritePartCalm ==
  ASSUME NEW v, NEW a, Holds(v, a), LooseOK(v.o), v.data \in Seq(Unit), v.data # << >>
  PROVE  Calm(v, a, WritePart(v)) /\ WritePart(v).data \in Seq(Unit)
<1> DEFINE from == UnitIndex(v.o.position)
           count == SmallerOf(UnitsPerSector - from + 1, Len(v.data))
           patched == [ i \in 1 .. UnitsPerSector |->
                          IF i \in from .. from + count - 1 THEN v.data[i - from + 1] ELSE v.o.units[i] ]
           q == v.o.position + count
           z == SubSeq(v.data, count + 1, Len(v.data))
           w == WritePart(v)
<1>1. w = [ v EXCEPT !.o.units = patched, !.o.dirty = TRUE, !.o.position = q, !.data = z ]
  BY Fields, ClosedFields DEF WritePart, VolumeFields, LooseOK, HasFields, Holds, Intact
<1>2. VolumeOK(v) /\ VolumeOK(w) /\ LooseOK(w.o) /\ w.data \in Seq(Unit)
  BY WritePartStays DEF Holds, Intact, FileStays
<1> HIDE DEF patched, z, q, w
<1>3. /\ w = [ g \in DOMAIN w |-> w[g] ] /\ SameBut(v, w, { "o", "data", "result", "value" })
      /\ w.o = [ v.o EXCEPT !.units = patched, !.dirty = TRUE, !.position = q ]
  BY <1>1, <1>2, Fields DEF SameBut, VolumeFields
<1>4. SameBut(v.o, w.o, CalmFields)
  BY <1>3, ClosedFields DEF LooseOK, HasFields, SameBut, CalmFields
<1> QED
  BY <1>2, <1>3, <1>4, CalmSet DEF w

\* write on a sector boundary (2995).
LEMMA WriteAlignedCalm ==
  ASSUME NEW v, NEW a, Holds(v, a), LooseOK(v.o), v.data \in Seq(Unit), v.data # << >>
  PROVE  Calm(v, a, WriteAligned(v))
<1> DEFINE s == CurrentSector(v.o)
           whole == WholeSectors(v.o, Len(v.data))
           f == Fill(v, s)
           g == [ v EXCEPT !.o.cached = s, !.result = "OK" ]
           e == WriteSectors(v, s, whole)
           w == WriteAligned(v)
<1>1. \/ s = 0 /\ w = Fails(v, "INT_ERR")
      \/ s # 0 /\ w \in { e, f, WritePart(f), g, WritePart(g) }
  BY DEF WriteAligned, Then
<1> HIDE DEF w
<1>2. Len(v.data) \in Nat /\ s \in DataSectors \cup { 0 } /\ VolumeOK(v)
  BY CurrentPlace DEF Holds, Intact
<1>3. Calm(v, a, Fails(v, "INT_ERR"))
  BY CalmSame
<1>4. ASSUME s # 0 PROVE Calm(v, a, e)
  <2> DEFINE k == SectorInFile(v.o.position)
             c == v.o.cluster
  <2>1. whole \in 0 .. SectorsPerCluster - k /\ whole * UnitsPerSector \in 0 .. Len(v.data)
    BY <1>2, WholeUnits
  <2>2. c \in Clusters /\ s = ClusterToSector(c) + k
    BY <1>4 DEF CurrentSector
  <2>3. k \in 0 .. SectorsPerCluster - 1 /\ SectorsPerCluster \in Nat \ {0}
    BY PlaceInFile, FileUnits DEF LooseOK
  <2> HIDE DEF k, c, s, whole
  <2>4. ClusterToSector(c) \in Nat
    BY <2>2, <2>3, ClusterPlaces
  <2>5. ASSUME NEW j \in 0 .. whole - 1 PROVE s + j \in DataSectors
    <3>1. k + j \in 0 .. SectorsPerCluster - 1 /\ s + j = ClusterToSector(c) + (k + j)
      BY <2>1, <2>2, <2>3, <2>4
    <3> QED
      BY <2>2, <3>1, ClusterPlaces
  <2>6. s \in Nat /\ whole \in Nat /\ whole * UnitsPerSector <= Len(v.data)
    BY <1>2, <2>1, <2>2, <2>3, <2>4
  <2> QED
    BY <2>5, <2>6, WriteSectorsCalm
<1>5. ASSUME s # 0 PROVE Calm(v, a, f) /\ f.data = v.data
  <2> HIDE DEF s
  <2> QED
    BY <1>2, <1>5, FillCalm, FillStays
<1>6. ASSUME s # 0 PROVE Calm(v, a, g) /\ g.data = v.data
  <2> HIDE DEF s
  <2>1. /\ g = [ h \in DOMAIN g |-> g[h] ] /\ SameBut(v, g, { "o", "data", "result", "value" }) /\ g.data = v.data
        /\ g.o = [ v.o EXCEPT !.cached = s ]
    BY <1>2, Fields DEF SameBut, VolumeFields, TableFields
  <2> HIDE DEF g
  <2>2. LooseOK(g.o) /\ SameBut(v.o, g.o, CalmFields)
    BY <1>2, <1>6, <2>1, ClosedFields DEF LooseOK, HasFields, SameBut, CalmFields
  <2> QED
    BY <2>1, <2>2, CalmSet
<1> HIDE DEF f, g, e, s
<1>7. ASSUME NEW u, Calm(v, a, u), u.data = v.data PROVE Calm(v, a, WritePart(u))
  <2>1. Calm(u, a, WritePart(u))
    BY <1>7, WritePartCalm DEF Calm
  <2> QED
    BY <1>7, <2>1, CalmAgain
<1> QED
  BY <1>1, <1>3, <1>4, <1>5, <1>6, <1>7 DEF w

\* The object moves, the volume does not.
LEMMA MoveSet ==
  ASSUME NEW v, NEW a, Holds(v, a), NEW w, w = [ f \in DOMAIN w |-> w[f] ],
         SameBut(v, w, { "o", "data", "result", "value" }), LooseOK(w.o), SameBut(v.o, w.o, MovingFields)
  PROVE  SameFile(v, w) /\ Holds(w, a)
<1>1. SameBut(v, w, OuterFields) /\ SameBut(v, w, FileFields)
  BY DEF SameBut, OuterFields, FileFields, ChainFields, WindowFields
<1>2. Seen(v, w)
  BY <1>1, OuterSeen DEF Holds, Intact
<1> QED
  BY <1>1, <1>2, SeenHolds DEF SameFile

\* createChain does not touch the object.
LEMMA ChainSameFile ==
  ASSUME NEW v, VolumeOK(v), LooseOK(v.o), NEW c
  PROVE  LET w == CreateChain(v, c)
         IN  /\ SameFile(v, w) /\ w.o = v.o /\ w.data = v.data
             /\ w.value \in Clusters \cup { 0, 1, Ones }
<1> DEFINE w == CreateChain(v, c)
<1>1. SameBut(v, w, ChainFields) /\ w.value \in Clusters \cup { 0, 1, Ones }
  BY CreateChainStays DEF ChainStays
<1> HIDE DEF w
<1>2. w.o = v.o /\ w.data = v.data
  BY <1>1, Fields DEF SameBut, ChainFields, WindowFields, VolumeFields, TableFields
<1>3. SameBut(v, w, FileFields) /\ SameBut(v.o, w.o, MovingFields)
  BY <1>1, <1>2 DEF SameBut, FileFields
<1> QED
  BY <1>1, <1>2, <1>3 DEF SameFile, w

\* A cluster that is none has no next.
LEMMA ChainOffTable ==
  ASSUME NEW v, VolumeOK(v), NEW c, c \notin Clusters, c # 0
  PROVE  CreateChain(v, c).value = 1
<1> DEFINE g == GetFat(v, c)
<1>1. g = Gives(v, 1)
  BY DEF GetFat
<1>2. g.value = 1 /\ VolumeOK(g)
  BY <1>1, GivesStays
<1> HIDE DEF g
<1>3. CreateChain(v, c) = Gives(g, 1)
  <2>1. g.value # LastLink /\ g.value < 2
    BY <1>2, Numbers
  <2> QED
    BY <2>1 DEF CreateChain, With, g
<1> QED
  BY <1>2, <1>3, GivesStays

\* The first cluster of a file, from the number at hand.
LEMMA BeginsChain ==
  ASSUME NEW v, NEW b, Holds(v, b), LooseOK(v.o), v.value \in Clusters, v.o.cluster = v.value,
         NEW p \in b.files, << p, v.value >> \in b.claims
  PROVE  LET x == [ v EXCEPT !.o.start = v.value ]
         IN  /\ SameFile(v, x) /\ Holds(x, b) /\ Tied(x.o, b, p) /\ OnChain(x.o, b)
             /\ x.result = v.result /\ x.data = v.data /\ x.value = v.value
<1> DEFINE n == v.value
           x == [ v EXCEPT !.o.start = n ]
<1>1. VolumeOK(v)
  BY DEF Holds, Intact
<1>2. /\ x = [ f \in DOMAIN x |-> x[f] ] /\ SameBut(v, x, { "o", "data", "result", "value" })
      /\ x.result = v.result /\ x.data = v.data /\ x.value = v.value
      /\ x.o = [ v.o EXCEPT !.start = n ]
  BY <1>1, Fields DEF SameBut, VolumeFields, TableFields
<1> HIDE DEF x
<1>3. SameBut(v.o, x.o, { "start" }) /\ x.o.start = n /\ x.o.cluster = n
  BY <1>2, ClosedFields DEF SameBut, LooseOK, HasFields
<1>4. LooseOK(x.o)
  BY <1>2, <1>3, ClosedFields DEF SameBut, LooseOK, HasFields
<1>5. SameFile(v, x) /\ Holds(x, b)
  <2>1. SameBut(v.o, x.o, MovingFields)
    BY <1>3 DEF SameBut, MovingFields
  <2> QED
    BY <1>2, <1>4, <2>1, MoveSet
<1>6. At(b.links, x.o.start, 0, x.o.cluster)
  BY <1>3, AtStart
<1> QED
  BY <1>2, <1>3, <1>5, <1>6 DEF Tied, OnChain, x

\* What follows the cluster at hand of an object that writes, which may be new.
LEMMA ChainOn ==
  ASSUME NEW v, NEW a, Holds(v, a), LooseOK(v.o), v.o.write, NEW p, Tied(v.o, a, p), OnChain(v.o, a),
         NEW c, c = CreateChain(v, v.o.cluster)
  PROVE  \E b : /\ Spares(a, b) /\ Holds(c, b) /\ Tied(c.o, b, p)
                /\ c.value \in Clusters => \E n : At(b.links, c.o.start, n, c.value)
                /\ c.value \notin Clusters => b = a
<1>1. VolumeOK(v)
  BY DEF Holds, Intact
<1>2. c.o = v.o /\ c.value \in Clusters \cup { 0, 1, Ones }
  BY <1>1, ChainSameFile
<1>3. Holds(c, a)
  BY CreateChainHolds
<1>4. CASE c.value \notin Clusters
  BY <1>2, <1>3, <1>4, SparesSelf
<1>5. CASE c.value \in Clusters /\ v.o.cluster # 0
  <2>1. v.o.cluster \in Clusters
    BY <1>1, <1>5, ChainOffTable, Numbers
  <2>2. PICK n : At(a.links, v.o.start, n, v.o.cluster)
    BY <2>1 DEF OnChain
  <2>3. ~c.dead => LinkOn(Logical(c), v.o.cluster) = c.value
    BY <1>5, CreateChainHolds
  <2>4. PICK b : Spares(a, b) /\ Holds(c, b) /\ Tied(v.o, b, p) /\ At(b.links, v.o.start, n + 1, c.value)
    BY <1>3, <1>5, <2>2, <2>3, FollowLink
  <2> QED
    BY <1>2, <1>5, <2>4
<1>6. CASE v.o.cluster = 0
  <2>1. PICK n : At(a.links, v.o.start, n, 0)
    BY <1>6 DEF OnChain
  <2> QED
    BY <2>1, Numbers DEF At
<1> QED
  BY <1>4, <1>5, <1>6

\* write on a cluster boundary (2958).
LEMMA WriteClusterEnters ==
  ASSUME NEW v, NEW a, NEW p, Holds(v, a), LooseOK(v.o), Mine(v, a, p), v.o.write, v.result = "OK"
  PROVE  Enters(v, a, p, WriteCluster(v))
<1> DEFINE s == Gives(v, v.o.start)
           z == CreateChain(v, 0)
           c == CreateChain(v, v.o.cluster)
           Starts(u) == IF u.o.start = 0 THEN [ u EXCEPT !.o.start = u.value ] ELSE u
           Came(u) == IF u.value = 0 THEN Fails(u, "FULL")
                       ELSE IF EnterCluster(u).result = "OK" THEN Starts(EnterCluster(u)) ELSE EnterCluster(u)
           w == WriteCluster(v)
<1>1. /\ SectorInFile(v.o.position) # 0 => w = Fails(v, "OK")
      /\ SectorInFile(v.o.position) = 0 =>
           w = Came(IF v.o.position = 0 /\ v.o.start # 0 THEN s ELSE IF v.o.position = 0 THEN z ELSE c)
  BY DEF WriteCluster, Then, With
<1>2. VolumeOK(v) /\ Tied(v.o, a, p) /\ (v.o.position # 0 => OnChain(v.o, a))
  BY DEF Holds, Intact, Mine
<1> HIDE DEF w
<1>3. CASE SectorInFile(v.o.position) # 0
  <2>1. w = Fails(v, "OK") /\ v.o.position # 0
    BY <1>1, <1>3, FirstSector
  <2>2. Calm(v, a, w) /\ w.o = v.o
    BY <1>2, <2>1, CalmSame, FailsFile
  <2>3. Mine(w, a, p) /\ OnChain(w.o, a)
    BY <1>2, <2>1, <2>2 DEF Mine
  <2> QED
    BY <2>2, <2>3, CalmSameFile, SparesSelf DEF Enters, Calm, w
<1>4. ASSUME NEW u, SameFile(v, u), u.o = v.o, NEW b, Spares(a, b), Holds(u, b), Tied(u.o, b, p),
             u.o.start # 0, u.value \in Clusters => \E n : At(b.links, u.o.start, n, u.value),
             u.value \notin Clusters /\ u.o.position # 0 => OnChain(u.o, b)
      PROVE  Enters(v, a, p, Came(u))
  <2>1. VolumeOK(u) /\ LooseOK(u.o)
    BY <1>4 DEF Holds, Intact
  <2>2. CASE u.value = 0
    <3> DEFINE f == Fails(u, "FULL")
    <3>1. Calm(u, b, f) /\ f.o = u.o /\ f.result = "FULL"
      BY <1>4, <2>1, CalmSame, FailsFile
    <3> HIDE DEF f
    <3>2. Mine(f, b, p)
      BY <1>4, <2>2, <3>1, Numbers DEF Mine
    <3>3. SameFile(v, f) /\ Holds(f, b)
      BY <1>4, <3>1, CalmSameFile, SameFileAgain DEF Calm
    <3>4. Enters(v, a, p, f)
      BY <1>4, <3>1, <3>2, <3>3 DEF Enters
    <3>5. Came(u) = f
      BY <2>2 DEF f
    <3> HIDE DEF Came
    <3> QED
      BY <3>4, <3>5
  <2>3. CASE u.value # 0
    <3> DEFINE e == EnterCluster(u)
    <3>1. Enters(v, a, p, e)
      BY <1>4, <2>1, EnterEnters
    <3>2. SameBut(u.o, e.o, { "cluster" })
      BY <1>4, <2>1, EnterClusterDoes
    <3>3. e.o.start # 0
      BY <1>4, <2>1, <3>2, ClosedFields DEF SameBut, LooseOK, HasFields
    <3>4. Came(u) = e
      <4>1. Came(u) = IF e.result = "OK" THEN Starts(e) ELSE e
        BY <2>3
      <4> HIDE DEF e, Came
      <4> QED
        BY <3>3, <4>1
    <3> HIDE DEF Came, e
    <3> QED
      BY <3>1, <3>4
  <2> HIDE DEF Came
  <2> QED
    BY <2>2, <2>3
<1>5. CASE SectorInFile(v.o.position) = 0 /\ v.o.position = 0 /\ v.o.start # 0
  <2>1. w = Came(s)
    BY <1>1, <1>5
  <2> HIDE DEF Came
  <2>2. Calm(v, a, s) /\ s.o = v.o /\ s.value = v.o.start
    BY <1>2, CalmSame, GivesFile
  <2> HIDE DEF s
  <2>3. s.value \in Clusters => At(a.links, s.o.start, 0, s.value)
    BY <2>2, AtStart
  <2>4. Enters(v, a, p, Came(s))
    BY <1>2, <1>4, <1>5, <2>2, <2>3, CalmSameFile, SparesSelf DEF Calm
  <2> QED
    BY <2>1, <2>4 DEF w
<1>6. CASE SectorInFile(v.o.position) = 0 /\ v.o.position # 0
  <2>1. w = Came(c)
    BY <1>1, <1>6
  <2>2. SameFile(v, c) /\ c.o = v.o /\ c.value \in Clusters \cup { 0, 1, Ones }
    BY <1>2, ChainSameFile
  <2>3. PICK b : /\ Spares(a, b) /\ Holds(c, b) /\ Tied(c.o, b, p)
                 /\ c.value \in Clusters => \E n : At(b.links, c.o.start, n, c.value)
                 /\ c.value \notin Clusters => b = a
    BY <1>2, <1>6, ChainOn
  <2>4. CASE v.o.start # 0
    <3> HIDE DEF c, Came
    <3>1. Enters(v, a, p, Came(c))
      BY <1>2, <1>4, <1>6, <2>2, <2>3, <2>4
    <3> QED
      BY <2>1, <3>1 DEF w
  <2>5. CASE v.o.start = 0
    <3>1. v.o.cluster \notin Clusters \cup { 0 }
      BY <1>2, <1>6, <2>5, Numbers DEF OnChain, At
    <3>2. c.value = 1
      BY <1>2, <3>1, ChainOffTable
    <3> HIDE DEF c
    <3>3. LooseOK(c.o)
      BY <2>2
    <3> DEFINE e == EnterCluster(c)
    <3>4. Enters(v, a, p, e) /\ e.result # "OK"
      BY <2>2, <2>3, <3>2, <3>3, EnterEnters, EnterClusterDoes, Numbers
    <3>5. Came(c) = e
      BY <3>2, <3>4
    <3> HIDE DEF Came, e
    <3> QED
      BY <2>1, <3>4, <3>5 DEF w
  <2> QED
    BY <2>4, <2>5
<1>7. CASE SectorInFile(v.o.position) = 0 /\ v.o.position = 0 /\ v.o.start = 0
  <2>1. w = Came(z)
    BY <1>1, <1>7
  <2>2. SameFile(v, z) /\ z.o = v.o /\ z.value \in Clusters \cup { 0, 1, Ones } /\ Holds(z, a)
        /\ (z.value \in Clusters => \A q : Holds(z, Grown(a, { << q, z.value >> }, {})))
    BY <1>2, ChainSameFile, CreateChainHolds
  <2> HIDE DEF z
  <2>3. VolumeOK(z) /\ LooseOK(z.o)
    BY <2>2 DEF Holds, Intact
  <2>4. CASE z.value = 0
    <3> DEFINE f == Fails(z, "FULL")
    <3>1. Calm(z, a, f) /\ f.o = v.o /\ f.result = "FULL"
      BY <2>2, <2>3, CalmSame, FailsFile
    <3> HIDE DEF f
    <3>2. Mine(f, a, p)
      BY <1>2, <1>7, <3>1 DEF Mine
    <3>3. SameFile(v, f) /\ Holds(f, a)
      BY <2>2, <3>1, CalmSameFile, SameFileAgain DEF Calm
    <3>4. Enters(v, a, p, f)
      BY <3>1, <3>2, <3>3, SparesSelf DEF Enters
    <3>5. Came(z) = f
      BY <2>4 DEF f
    <3> HIDE DEF Came
    <3> QED
      BY <2>1, <3>4, <3>5 DEF w
  <2>5. CASE z.value \notin Clusters /\ z.value # 0
    <3> DEFINE e == EnterCluster(z)
    <3>1. Enters(v, a, p, e) /\ e.result # "OK"
      BY <1>2, <2>2, <2>3, <2>5, EnterEnters, EnterClusterDoes, SparesSelf
    <3>2. Came(z) = e
      BY <2>5, <3>1
    <3> HIDE DEF Came, e
    <3> QED
      BY <2>1, <3>1, <3>2 DEF w
  <2>6. CASE z.value \in Clusters
    <3> DEFINE n == z.value
               b == Grown(a, { << p, n >> }, {})
               e == EnterCluster(z)
               x == [ e EXCEPT !.o.start = e.value ]
    <3>1. /\ b.claims = a.claims \cup { << p, n >> } /\ b.files = a.files /\ Spares(a, b) /\ Holds(z, b)
          /\ p \in a.files
      <4>1. Holds(z, b)
        BY <2>2, <2>6
      <4>2. Spares(a, b) /\ b.claims = a.claims \cup { << p, n >> } /\ b.files = a.files
        BY GrownHas, GrownSpares
      <4> QED
        BY <1>2, <4>1, <4>2 DEF Tied
    <3> HIDE DEF b
    <3>2. /\ Holds(e, b) /\ SameFile(z, e) /\ SameBut(z.o, e.o, { "cluster" }) /\ e.value = n
          /\ e.result \in Errors \cup { "OK" }
          /\ (e.result = "OK" => e.o.cluster = n) /\ (e.result # "OK" => e.o = z.o)
      BY <2>3, <3>1, EnterClusterDoes
    <3> HIDE DEF e
    <3>3. e.o.start = 0 /\ LooseOK(e.o) /\ SameFile(v, e)
      BY <1>7, <2>2, <2>3, <3>2, SameFileAgain, ClosedFields DEF SameBut, LooseOK, HasFields, SameFile
    <3>4. CASE e.result = "OK"
      <4>1. /\ SameFile(e, x) /\ Holds(x, b) /\ Tied(x.o, b, p) /\ OnChain(x.o, b)
            /\ x.result = e.result /\ x.data = e.data /\ x.value = e.value
        BY <2>6, <3>1, <3>2, <3>3, <3>4, BeginsChain
      <4>2. Came(z) = x
        <5>1. Came(z) = IF e.result = "OK" THEN Starts(e) ELSE e
          BY <2>6, Numbers DEF e
        <5> HIDE DEF Came
        <5> QED
          BY <3>3, <3>4, <5>1
      <4> HIDE DEF x, Came
      <4>3. Enters(v, a, p, x)
        BY <3>1, <3>3, <4>1, SameFileAgain DEF Enters, Mine
      <4> QED
        BY <2>1, <4>2, <4>3 DEF w
    <3>5. CASE e.result # "OK"
      <4>1. Came(z) = e
        <5>1. Came(z) = IF e.result = "OK" THEN Starts(e) ELSE e
          BY <2>6, Numbers DEF e
        <5> HIDE DEF Came
        <5> QED
          BY <3>5, <5>1
      <4> HIDE DEF Came
      <4>2. Tied(e.o, b, p) /\ e.o.position = 0
        BY <1>7, <2>2, <3>1, <3>2, <3>5 DEF Tied
      <4>3. Enters(v, a, p, e)
        BY <3>1, <3>2, <3>3, <3>5, <4>2 DEF Enters, Mine
      <4> QED
        BY <2>1, <4>1, <4>3 DEF w
    <3> QED
      BY <3>4, <3>5
  <2> QED
    BY <2>4, <2>5, <2>6
<1> QED
  BY <1>3, <1>5, <1>6, <1>7

\* A pass of write (2951).
LEMMA WritePassMoves ==
  ASSUME NEW v, NEW a, NEW p, Holds(v, a), LooseOK(v.o), Mine(v, a, p), v.o.write, v.data \in Seq(Unit), NEW k
  PROVE  Moves(v, a, p, WritePass(v, 0, k))
<1> DEFINE c == WriteCluster(v)
           b == WriteBack(c)
           d == WriteAligned(b)
           w == WritePass(v, 0, k)
<1>1. CASE v.result # "OK" \/ v.data = << >>
  <2>1. w = v
    BY <1>1 DEF WritePass
  <2> QED
    BY <2>1, MovesSelf
<1>2. CASE v.result = "OK" /\ v.data # << >>
  <2>1. \/ w = c
        \/ w = b /\ c.result = "OK"
        \/ w = d /\ c.result = "OK" /\ b.result = "OK"
        \/ w = WritePart(v) /\ v.o.position # 0
    BY <1>2, FirstSector DEF WritePass, Then
  <2> HIDE DEF w
  <2>2. Enters(v, a, p, c) /\ c.data = v.data
    BY <1>2, WriteClusterEnters, WriteClusterStays DEF Holds, Intact
  <2> HIDE DEF c
  <2>3. ASSUME NEW x, Holds(c, x) PROVE Calm(c, x, b) /\ b.data = c.data
    <3>1. LooseOK(c.o) /\ VolumeOK(c)
      BY <2>2, <2>3 DEF Enters, SameFile, Holds, Intact
    <3> QED
      BY <2>3, <3>1, WriteBackCalm, WriteBackStays
  <2> HIDE DEF b
  <2>4. ASSUME NEW x, Holds(c, x) PROVE Calm(c, x, d)
    <3>1. Calm(c, x, b) /\ b.data = v.data
      BY <2>2, <2>3, <2>4
    <3>2. Calm(b, x, d)
      BY <1>2, <3>1, WriteAlignedCalm DEF Calm
    <3> HIDE DEF d
    <3> QED
      BY <3>1, <3>2, CalmAgain
  <2> HIDE DEF d
  <2>5. CASE w = c
    BY <2>2, <2>5, EntersMoves DEF w
  <2>6. CASE w = b /\ c.result = "OK"
    BY <2>2, <2>3, <2>6, EntersThenCalm DEF w
  <2>7. CASE w = d /\ c.result = "OK"
    BY <2>2, <2>4, <2>7, EntersThenCalm DEF w
  <2>8. CASE w = WritePart(v) /\ v.o.position # 0
    BY <1>2, <2>8, WritePartCalm, MineCalm DEF w
  <2> QED
    BY <2>1, <2>5, <2>6, <2>7, <2>8
<1> QED
  BY <1>1, <1>2

\* write (2925).
LEMMA WriteCalls ==
  ASSUME NEW v, NEW a, NEW p, Holds(v, a), ObjectOK(v.o), v.o.result = "OK", Mine(v, a, p), v.o.write,
         NEW units \in Seq(Unit)
  PROVE  Calls(v, a, p, Write(v, units))
<1> DEFINE v0 == [ v EXCEPT !.data = units ]
           u(k) == Writing!Passes(v0, 0)[k]
           P(x) == Moves(v, a, p, x) /\ x.data \in Seq(Unit)
           T == { k \in Nat : P(u(k)) }
           n == Len(units)
           w == u(n)
           m == LargerOf(w.o.size, w.o.position)
           x == [ w EXCEPT !.o.size = m, !.o.written = TRUE, !.result = "OK" ]
<1>1. /\ w.result \in { "OK", "FULL" } =>
           Write(v, units) = [ w EXCEPT !.o.size = LargerOf(@, w.o.position), !.o.written = TRUE, !.result = "OK" ]
      /\ w.result \notin { "OK", "FULL" } => Write(v, units) = Abort(w)
  BY DEF Write, With
<1>2. LooseOK(v.o) /\ VolumeOK(v)
  BY LooseAndResult DEF Holds, Intact
<1>3. P(v0)
  <2>1. /\ v0 = [ g \in DOMAIN v0 |-> v0[g] ] /\ SameBut(v, v0, { "data" }) /\ v0.o = v.o /\ v0.data = units
        /\ v0.result = v.result
    BY <1>2, Fields DEF SameBut, VolumeFields, TableFields
  <2> HIDE DEF v0
  <2>2. SameBut(v, v0, { "o", "data", "result", "value" }) /\ SameBut(v.o, v0.o, MovingFields)
    BY <2>1 DEF SameBut
  <2>3. SameFile(v, v0) /\ Holds(v0, a)
    BY <1>2, <2>1, <2>2, MoveSet
  <2>4. Mine(v0, a, p)
    BY <2>1 DEF Mine
  <2> QED
    BY <2>1, <2>3, <2>4, SparesSelf DEF Moves
<1>4. u(0) = v0 /\ \A k \in Nat : u(k + 1) = WritePass(u(k), 0, k + 1)
  BY Writing!PassByPass
<1> HIDE DEF u, v0
<1>5. 0 \in T
  BY <1>3, <1>4
<1>6. ASSUME NEW k \in Nat, k \in T PROVE k + 1 \in T
  <2> DEFINE y == u(k)
             z == u(k + 1)
  <2>1. P(y)
    BY <1>6
  <2>2. z = WritePass(y, 0, k + 1)
    BY <1>4
  <2> HIDE DEF y, z
  <2>3. LooseOK(y.o) /\ VolumeOK(y) /\ y.o.write
    BY <1>2, <2>1, SameFileOK DEF Moves, Holds, Intact
  <2>4. z.data \in Seq(Unit)
    BY <2>1, <2>2, <2>3, WritePassStays
  <2>5. \A b : Holds(y, b) /\ Mine(y, b, p) => Moves(y, b, p, z)
    BY <2>1, <2>2, <2>3, WritePassMoves
  <2>6. Moves(v, a, p, z)
    BY <2>1, <2>5, MovesAgain
  <2> QED
    BY <2>4, <2>6 DEF z
<1>7. Nat \subseteq T
  <2> HIDE DEF T
  <2> QED
    BY <1>5, <1>6, Writing!Upwards
<1>8. Moves(v, a, p, w)
  <2>1. n \in Nat
    OBVIOUS
  <2> QED
    BY <1>7, <2>1
<1> HIDE DEF w
<1>9. PICK b : Spares(a, b) /\ Holds(w, b) /\ Mine(w, b, p)
  BY <1>8 DEF Moves
<1>10. SameFile(v, w) /\ LooseOK(w.o) /\ VolumeOK(w)
  BY <1>8, <1>9 DEF Moves, SameFile, Holds, Intact
<1>11. CASE w.result \in { "OK", "FULL" }
  <2>1. Write(v, units) = x
    BY <1>1, <1>10, <1>11, Fields, ClosedFields DEF VolumeFields, LooseOK, HasFields
  <2>2. m \in Nat
    BY <1>10 DEF LargerOf, LooseOK
  <2> HIDE DEF m
  <2>3. /\ x = [ f \in DOMAIN x |-> x[f] ] /\ SameBut(w, x, { "o", "data", "result", "value" })
        /\ x.o = [ w.o EXCEPT !.size = m, !.written = TRUE ]
    BY <1>10, Fields DEF SameBut, VolumeFields, TableFields
  <2> HIDE DEF x
  <2>3a. HasFields(w.o, DOMAIN Closed)
    BY <1>10 DEF LooseOK
  <2>4. /\ x.o = [ g \in DOMAIN x.o |-> x.o[g] ] /\ SameBut(w.o, x.o, { "size", "written" })
        /\ x.o.size = m
    <3> DEFINE o == w.o
               r == x.o
    <3>1. r = [ o EXCEPT !.size = m, !.written = TRUE ]
      BY <2>3
    <3>2. HasFields(o, DOMAIN Closed)
      BY <2>3a
    <3> HIDE DEF o, r
    <3>3. r = [ g \in DOMAIN r |-> r[g] ] /\ SameBut(o, r, { "size", "written" }) /\ r.size = m
      BY <3>1, <3>2, ClosedFields DEF SameBut, HasFields
    <3> QED
      BY <3>3 DEF o, r
  <2>5. LooseOK(x.o) /\ x.o.position = w.o.position
    <3>1. HasFields(x.o, DOMAIN Closed)
      BY <2>3a, <2>4 DEF HasFields, SameBut
    <3>2. /\ x.o.start = w.o.start /\ x.o.position = w.o.position /\ x.o.cached = w.o.cached
          /\ x.o.units = w.o.units /\ x.o.dirty = w.o.dirty /\ x.o.write = w.o.write /\ x.o.open = w.o.open
      BY <2>3a, <2>4, ClosedFields DEF HasFields, SameBut
    <3> QED
      BY <1>10, <2>2, <2>4, <3>1, <3>2 DEF LooseOK
  <2>6. Calm(w, b, x)
    <3>1. SameBut(w.o, x.o, CalmFields)
      BY <2>4 DEF SameBut, CalmFields
    <3> QED
      BY <1>9, <2>3, <2>5, <3>1, CalmSet
  <2>7. Holds(x, b) /\ Tied(x.o, b, p) /\ (x.o.position # 0 => OnChain(x.o, b)) /\ SameFile(v, x)
    BY <1>9, <1>10, <1>11, <2>5, <2>6, CalmObject, CalmSameFile, SameFileAgain DEF Mine
  <2> QED
    BY <1>9, <2>1, <2>7 DEF Calls, Ready
<1>12. CASE w.result \notin { "OK", "FULL" }
  BY <1>1, <1>8, <1>12, AbortCalls
<1> QED
  BY <1>11, <1>12

-----------------------------------------------------------------------------
(* Seeking. *)

\* A step of seek: wherever it ends, the cluster at hand is one of the file.
Seeks(v, a, p, w) ==
  SameFile(v, w) /\ \E b : Spares(a, b) /\ Holds(w, b) /\ Tied(w.o, b, p) /\ OnChain(w.o, b)

LEMMA SeeksAgain ==
  ASSUME NEW v, NEW a, NEW p, NEW u, Seeks(v, a, p, u), NEW w,
         \A b : Holds(u, b) /\ Tied(u.o, b, p) /\ OnChain(u.o, b) => Seeks(u, b, p, w)
  PROVE  Seeks(v, a, p, w)
<1>1. PICK b : Spares(a, b) /\ Holds(u, b) /\ Tied(u.o, b, p) /\ OnChain(u.o, b)
  BY DEF Seeks
<1>2. SameFile(u, w)
  BY <1>1 DEF Seeks
<1>3. PICK c : Spares(b, c) /\ Holds(w, c) /\ Tied(w.o, c, p) /\ OnChain(w.o, c)
  BY <1>1 DEF Seeks
<1> QED
  BY <1>1, <1>2, <1>3, SparesAgain, SameFileAgain DEF Seeks

LEMMA CalmSeeks ==
  ASSUME NEW v, NEW a, NEW p, LooseOK(v.o), Tied(v.o, a, p), OnChain(v.o, a), NEW w, Calm(v, a, w)
  PROVE  Seeks(v, a, p, w)
<1>1. Tied(w.o, a, p) /\ OnChain(w.o, a) /\ Holds(w, a)
  BY CalmObject
<1> QED
  BY <1>1, CalmSameFile, SparesSelf DEF Seeks

LEMMA GetFatCalm ==
  ASSUME NEW v, NEW a, Holds(v, a), LooseOK(v.o), NEW c
  PROVE  Calm(v, a, GetFat(v, c)) /\ GetFat(v, c).o = v.o
<1> DEFINE g == GetFat(v, c)
<1>1. VolumeOK(v)
  BY DEF Holds, Intact
<1>2. Seen(v, g) /\ SameBut(v, g, WindowFields \cup { "value" }) /\ VolumeOK(g)
  BY <1>1, GetFatSeen, GetFatStays
<1> HIDE DEF g
<1>3. g.o = v.o /\ Holds(g, a)
  BY <1>1, <1>2, SeenHolds, Fields DEF SameBut, WindowFields, VolumeFields, TableFields
<1>4. SameBut(v, g, FileFields) /\ SameBut(v.o, g.o, CalmFields)
  BY <1>2, <1>3 DEF SameBut, FileFields, ChainFields
<1> QED
  BY <1>3, <1>4 DEF Calm, g

\* A pass of seek (3171).
LEMMA SeekPassSeeks ==
  ASSUME NEW v, NEW a, NEW p, Holds(v, a), LooseOK(v.o), Tied(v.o, a, p), OnChain(v.o, a), NEW k
  PROVE  Seeks(v, a, p, SeekPass(v, 0, k))
<1> DEFINE h == CreateChain(v, v.o.cluster)
           g == GetFat(v, v.o.cluster)
           c == IF v.o.write THEN h ELSE g
           q == v.o.position + UnitsPerCluster
           x == [ c EXCEPT !.o.cluster = c.value, !.o.position = q, !.result = "OK" ]
           w == SeekPass(v, 0, k)
<1>0. VolumeOK(v)
  BY DEF Holds, Intact
<1>1. SameFile(v, c) /\ c.o = v.o /\ VolumeOK(c) /\ LooseOK(c.o)
  <2>1. SameFile(v, h) /\ h.o = v.o /\ Holds(h, a)
    BY <1>0, ChainSameFile, CreateChainHolds
  <2>2. SameFile(v, g) /\ g.o = v.o /\ Holds(g, a)
    BY GetFatCalm, CalmSameFile DEF Calm
  <2>3. c \in { h, g }
    OBVIOUS
  <2> HIDE DEF h, g, c
  <2> QED
    BY <2>1, <2>2, <2>3 DEF Holds, Intact
<1>2. \E b : /\ Spares(a, b) /\ Holds(c, b) /\ Tied(c.o, b, p)
             /\ c.o.write /\ c.value \in Clusters => \E n : At(b.links, c.o.start, n, c.value)
             /\ c.value \notin Clusters => OnChain(c.o, b)
  <2>1. CASE v.o.write
    <3>1. c = h
      BY <2>1
    <3> HIDE DEF c
    <3>2. PICK b : /\ Spares(a, b) /\ Holds(c, b) /\ Tied(c.o, b, p)
                   /\ c.value \in Clusters => \E n : At(b.links, c.o.start, n, c.value)
                   /\ c.value \notin Clusters => b = a
      BY <2>1, <3>1, ChainOn
    <3>3. c.value \notin Clusters => OnChain(c.o, b)
      BY <1>1, <3>2
    <3> QED
      BY <3>2, <3>3
  <2>2. CASE ~v.o.write
    <3>1. c = g
      BY <2>2
    <3>2. Holds(g, a)
      BY GetFatCalm DEF Calm
    <3> HIDE DEF c, g
    <3> QED
      BY <1>1, <2>2, <3>1, <3>2, SparesSelf DEF Tied, OnChain
  <2> QED
    BY <2>1, <2>2
<1>3. \/ w = v
      \/ c.value \notin Clusters /\ w \in { Fails(c, "FULL"), Fails(c, "DISK_ERR"), Fails(c, "INT_ERR") }
      \/ c.value \in Clusters /\ w = x
  <2> DEFINE y == [ c EXCEPT !.o.cluster = c.value, !.o.position = @ + UnitsPerCluster, !.result = "OK" ]
  <2>1. y = x
    <3>1. c.o.position = v.o.position
      BY <1>1
    <3>2. "o" \in DOMAIN c /\ c = [ f \in DOMAIN c |-> c[f] ] /\ c.o = [ f \in DOMAIN c.o |-> c.o[f] ]
          /\ "position" \in DOMAIN c.o
      BY <1>1, Fields, ClosedFields DEF VolumeFields, LooseOK, HasFields
    <3> HIDE DEF c
    <3> QED
      BY <3>1, <3>2
  <2>2. \/ w = v
        \/ c.value = 0 /\ w = Fails(c, "FULL")
        \/ c.value = Ones /\ w = Fails(c, "DISK_ERR")
        \/ c.value \notin Clusters /\ w = Fails(c, "INT_ERR")
        \/ c.value \in Clusters /\ w = y
    BY DEF SeekPass, With
  <2> HIDE DEF x, y, w, c
  <2> QED
    BY <2>1, <2>2, Numbers
<1> HIDE DEF w, c
<1>4. CASE w = v
  BY <1>4, SparesSelf DEF Seeks, SameFile, SameBut, w
<1>5. CASE c.value \notin Clusters /\ w \in { Fails(c, "FULL"), Fails(c, "DISK_ERR"), Fails(c, "INT_ERR") }
  <2>1. PICK b : Spares(a, b) /\ Holds(c, b) /\ Tied(c.o, b, p) /\ OnChain(c.o, b)
    BY <1>2, <1>5
  <2>2. Calm(c, b, w)
    BY <1>1, <1>5, <2>1, CalmSame
  <2>3. Tied(w.o, b, p) /\ OnChain(w.o, b) /\ Holds(w, b) /\ SameFile(c, w)
    BY <1>1, <2>1, <2>2, CalmObject, CalmSameFile
  <2> QED
    BY <1>1, <2>1, <2>3, SameFileAgain DEF Seeks, w
<1>6. CASE c.value \in Clusters /\ w = x
  <2>1. PICK b : /\ Spares(a, b) /\ Holds(c, b) /\ Tied(c.o, b, p)
                 /\ c.o.write => \E n : At(b.links, c.o.start, n, c.value)
    BY <1>2, <1>6
  <2>2. q \in Nat
    BY FileUnits DEF LooseOK
  <2>3. /\ x = [ f \in DOMAIN x |-> x[f] ] /\ SameBut(c, x, { "o", "data", "result", "value" })
        /\ x.o = [ v.o EXCEPT !.cluster = c.value, !.position = q ]
    <3> HIDE DEF q
    <3> QED
      BY <1>1, Fields DEF SameBut, VolumeFields, TableFields
  <2> HIDE DEF x, q
  <2>4. LooseOK(x.o) /\ SameBut(v.o, x.o, SeekFields)
    BY <2>2, <2>3, SoughtOK
  <2>5. x.o.cluster = c.value /\ x.o.start = c.o.start /\ x.o.write = c.o.write
    BY <1>1, <2>3, ClosedFields DEF LooseOK, HasFields
  <2>6. SameFile(c, x) /\ Holds(x, b)
    <3>1. SameBut(c.o, x.o, MovingFields)
      BY <1>1, <2>4 DEF SameBut, SeekFields, MovingFields, CalmFields
    <3> QED
      BY <2>1, <2>3, <2>4, <3>1, MoveSet
  <2>7. Tied(x.o, b, p) /\ OnChain(x.o, b)
    BY <2>1, <2>5 DEF Tied, OnChain
  <2> QED
    BY <1>1, <1>6, <2>1, <2>6, <2>7, SameFileAgain DEF Seeks, w
<1> QED
  BY <1>3, <1>4, <1>5, <1>6

\* seek from the start of a cluster.
LEMMA SeekOnSeeks ==
  ASSUME NEW v, NEW a, NEW p, Holds(v, a), LooseOK(v.o), Tied(v.o, a, p), OnChain(v.o, a), NEW rest \in Nat \ {0}
  PROVE  Seeks(v, a, p, SeekOn(v, rest))
<1> DEFINE v0 == Fails(v, "OK")
           u(i) == Seeking!Passes(v0, 0)[i]
           P(x) == Seeks(v, a, p, x)
           T == { i \in Nat : P(u(i)) }
           clusters == (rest - 1) \div UnitsPerCluster
           last == rest - clusters * UnitsPerCluster
           n == clusters
           w == u(n)
           s == w.o.position + last
           q == w.o.position + UnitsPerCluster
           x == [ w EXCEPT !.o.position = s, !.value = NoSector ]
           b == [ w EXCEPT !.o.position = s, !.result = "INT_ERR" ]
           c == [ w EXCEPT !.o.position = s, !.value = ClusterToSector(w.o.cluster) + last \div UnitsPerSector ]
           d == [ w EXCEPT !.o.position = q, !.result = "OK", !.value = NoSector ]
           z == SeekOn(v, rest)
<1> SUFFICES P(z)
  OBVIOUS
<1>1. n \in Nat /\ last \in 1 .. UnitsPerCluster
  BY LastUnits
<1>2. P(v0)
  BY CalmSame, CalmSeeks
<1>3. u(0) = v0 /\ \A i \in Nat : u(i + 1) = SeekPass(u(i), 0, i + 1)
  BY Seeking!PassByPass
<1>4. z \in { x, b, c, d, w }
  <2>0. z = SeekOn(v, rest)
    OBVIOUS
  <2> HIDE DEF z
  <2> QED
    BY <2>0 DEF SeekOn, With
<1> HIDE DEF u, v0, clusters, last, z
<1>5. 0 \in T
  BY <1>2, <1>3
<1>6. ASSUME NEW i \in Nat, i \in T PROVE i + 1 \in T
  <2> DEFINE y == u(i)
             g == u(i + 1)
  <2>1. P(y) /\ g = SeekPass(y, 0, i + 1)
    BY <1>3, <1>6
  <2> HIDE DEF y, g
  <2>2. LooseOK(y.o)
    BY <2>1 DEF Seeks, SameFile
  <2>3. P(g)
    BY <2>1, <2>2, SeekPassSeeks, SeeksAgain
  <2> QED
    BY <2>3 DEF g
<1>7. Nat \subseteq T
  <2> HIDE DEF T
  <2> QED
    BY <1>5, <1>6, Seeking!Upwards
<1>8. P(w)
  BY <1>1, <1>7
<1> HIDE DEF w
<1>9. PICK e : Spares(a, e) /\ Holds(w, e) /\ Tied(w.o, e, p) /\ OnChain(w.o, e)
  BY <1>8 DEF Seeks
<1>10. VolumeOK(w) /\ LooseOK(w.o) /\ SameFile(v, w)
  BY <1>8, <1>9 DEF Seeks, SameFile, Holds, Intact
<1>11. s \in Nat /\ q \in Nat
  BY <1>1, <1>10, FileUnits DEF LooseOK
<1> HIDE DEF s, q
<1>12. ASSUME NEW y, NEW j \in { s, q }, y = [ f \in DOMAIN y |-> y[f] ],
              SameBut(w, y, { "o", "result", "value" }), y.o = [ w.o EXCEPT !.position = j ]
       PROVE  P(y)
  <2>1. LooseOK(y.o) /\ SameBut(w.o, y.o, SeekFields) /\ SameBut(w.o, y.o, CalmFields)
    <3>1. SameBut(w.o, y.o, { "position" })
      BY <1>10, <1>12, ClosedFields DEF SameBut, LooseOK, HasFields
    <3> QED
      BY <1>10, <1>11, <1>12, <3>1, PlacedOK DEF SameBut, CalmFields
  <2>2. Calm(w, e, y)
    <3>1. SameBut(w, y, { "o", "data", "result", "value" })
      BY <1>12 DEF SameBut
    <3> QED
      BY <1>9, <1>12, <2>1, <3>1, CalmSet
  <2>3. Tied(y.o, e, p) /\ OnChain(y.o, e) /\ Holds(y, e) /\ SameFile(w, y)
    BY <1>9, <1>10, <2>2, CalmObject, CalmSameFile
  <2> QED
    BY <1>9, <1>10, <2>3, SameFileAgain DEF Seeks
<1>13. VolumeFields \subseteq DOMAIN w /\ w = [ f \in DOMAIN w |-> w[f] ]
  BY <1>10, Fields
<1>14. P(x)
  <2>1. x = [ f \in DOMAIN x |-> x[f] ] /\ SameBut(w, x, { "o", "result", "value" })
        /\ x.o = [ w.o EXCEPT !.position = s ]
    BY <1>13 DEF SameBut, VolumeFields, TableFields
  <2> HIDE DEF x, P
  <2> QED
    BY <1>12, <2>1
<1>15. P(b)
  <2>1. b = [ f \in DOMAIN b |-> b[f] ] /\ SameBut(w, b, { "o", "result", "value" })
        /\ b.o = [ w.o EXCEPT !.position = s ]
    BY <1>13 DEF SameBut, VolumeFields, TableFields
  <2> HIDE DEF b, P
  <2> QED
    BY <1>12, <2>1
<1>16. P(c)
  <2> DEFINE t == ClusterToSector(w.o.cluster) + last \div UnitsPerSector
  <2>1. c = [ w EXCEPT !.o.position = s, !.value = t ]
    OBVIOUS
  <2> HIDE DEF t, c
  <2>2. c = [ f \in DOMAIN c |-> c[f] ] /\ SameBut(w, c, { "o", "result", "value" })
        /\ c.o = [ w.o EXCEPT !.position = s ]
    BY <1>13, <2>1 DEF SameBut, VolumeFields, TableFields
  <2> HIDE DEF P
  <2> QED
    BY <1>12, <2>2
<1>17. P(d)
  <2>1. d = [ f \in DOMAIN d |-> d[f] ] /\ SameBut(w, d, { "o", "result", "value" })
        /\ d.o = [ w.o EXCEPT !.position = q ]
    BY <1>13 DEF SameBut, VolumeFields, TableFields
  <2> HIDE DEF d, P
  <2> QED
    BY <1>12, <2>1
<1> HIDE DEF P, x, b, c, d
<1> QED
  BY <1>4, <1>8, <1>14, <1>15, <1>16, <1>17

\* What seek comes to: at the start of the file, or in one of its clusters.
Lands(v, a, p, w) ==
  SameFile(v, w) /\ \E b : Spares(a, b) /\ Holds(w, b) /\ Tied(w.o, b, p) /\ (w.o.position # 0 => OnChain(w.o, b))

LEMMA SeeksLands ==
  ASSUME NEW v, NEW a, NEW p, NEW w, Seeks(v, a, p, w)
  PROVE  Lands(v, a, p, w)
  BY DEF Seeks, Lands

\* seek from the current cluster (3146).
LEMMA SeekFromHereSeeks ==
  ASSUME NEW v, NEW a, NEW p, Holds(v, a), LooseOK(v.o), Tied(v.o, a, p), OnChain(v.o, a),
         NEW target \in Nat \ {0}, SeekForward(v.o, target)
  PROVE  Seeks(v, a, p, SeekFromHere(v, target))
<1> DEFINE base == ((v.o.position - 1) \div UnitsPerCluster) * UnitsPerCluster
           x == [ v EXCEPT !.o.position = base ]
           rest == target - base
           w == SeekOn(x, rest)
<1>1. SeekFromHere(v, target) = w
  BY DEF SeekFromHere
<1>2. base \in Nat /\ rest \in Nat \ {0}
  BY HereBefore
<1> HIDE DEF base
<1>3. VolumeOK(v)
  BY DEF Holds, Intact
<1>4. Calm(v, a, x)
  <2>1. /\ x = [ f \in DOMAIN x |-> x[f] ] /\ SameBut(v, x, { "o", "data", "result", "value" })
        /\ x.o = [ v.o EXCEPT !.position = base ]
    BY <1>3, Fields DEF SameBut, VolumeFields
  <2> HIDE DEF x
  <2>2. LooseOK(x.o) /\ SameBut(v.o, x.o, CalmFields)
    <3>1. SameBut(v.o, x.o, { "position" })
      BY <2>1, ClosedFields DEF SameBut, LooseOK, HasFields
    <3> QED
      BY <1>2, <2>1, <3>1, PlacedOK DEF SameBut, CalmFields
  <2> QED
    BY <2>1, <2>2, CalmSet
<1> HIDE DEF x, rest
<1>5. Seeks(v, a, p, x) /\ LooseOK(x.o)
  BY <1>4, CalmSeeks DEF Calm
<1>6. \A b : Holds(x, b) /\ Tied(x.o, b, p) /\ OnChain(x.o, b) => Seeks(x, b, p, w)
  BY <1>2, <1>5, SeekOnSeeks
<1> HIDE DEF w
<1> QED
  BY <1>1, <1>5, <1>6, SeeksAgain

\* seek from the first cluster (3153).
LEMMA SeekFromStartLands ==
  ASSUME NEW v, NEW a, NEW p, Holds(v, a), LooseOK(v.o), Tied(v.o, a, p), NEW target \in Nat \ {0}
  PROVE  Lands(v, a, p, SeekFromStart(v, target))
<1> DEFINE h == CreateChain(v, 0)
           g == Gives(v, v.o.start)
           c == IF v.o.start = 0 THEN h ELSE g
           y == [ c EXCEPT !.o.start = c.value, !.o.cluster = c.value, !.o.position = 0 ]
           r == IF c.value = 1 THEN "INT_ERR" ELSE "DISK_ERR"
           x == [ c EXCEPT !.o.position = 0, !.result = r ]
           z == [ y EXCEPT !.result = "OK", !.value = NoSector ]
           s == SeekOn(y, target)
           w == SeekFromStart(v, target)
<1>0. VolumeOK(v)
  BY DEF Holds, Intact
<1>1. \/ c.value \in { 1, Ones } /\ w = x
      \/ c.value = 0 /\ c.value \notin { 1, Ones } /\ w = z
      \/ c.value \notin { 0, 1, Ones } /\ w = s
  <2>0. w = SeekFromStart(v, target)
    OBVIOUS
  <2> HIDE DEF w
  <2> QED
    BY <2>0 DEF SeekFromStart, With
<1>2. /\ SameFile(v, c) /\ c.o = v.o /\ c.value \in Clusters \cup { 0, 1, Ones }
      /\ Holds(c, a)
      /\ c.value \in Clusters /\ v.o.write =>
           \E b : Spares(a, b) /\ Holds(c, b) /\ p \in b.files /\ << p, c.value >> \in b.claims
  <2>1. CASE v.o.start = 0
    <3>1. c = h
      BY <2>1
    <3>2. SameFile(v, h) /\ h.o = v.o /\ h.value \in Clusters \cup { 0, 1, Ones } /\ Holds(h, a)
          /\ (h.value \in Clusters => \A q : Holds(h, Grown(a, { << q, h.value >> }, {})))
      BY <1>0, ChainSameFile, CreateChainHolds
    <3> HIDE DEF h, c
    <3>3. ASSUME h.value \in Clusters, v.o.write
          PROVE  \E b : Spares(a, b) /\ Holds(h, b) /\ p \in b.files /\ << p, h.value >> \in b.claims
      <4> DEFINE b == Grown(a, { << p, h.value >> }, {})
      <4>1. Holds(h, b)
        BY <3>2, <3>3
      <4>2. Spares(a, b) /\ b.claims = a.claims \cup { << p, h.value >> } /\ b.files = a.files
        BY GrownHas, GrownSpares
      <4> HIDE DEF b
      <4>3. p \in a.files
        BY <3>3 DEF Tied
      <4> QED
        BY <4>1, <4>2, <4>3
    <3> QED
      BY <3>1, <3>2, <3>3
  <2>2. CASE v.o.start # 0
    <3>1. c = g
      BY <2>2
    <3>2. Calm(v, a, g) /\ g.o = v.o /\ g.value = v.o.start /\ v.o.start \in Clusters
      BY <1>0, <2>2, CalmSame, GivesFile DEF LooseOK
    <3> HIDE DEF g, c
    <3>3. SameFile(v, g) /\ Holds(g, a)
      BY <3>2, CalmSameFile DEF Calm
    <3>4. v.o.write => p \in a.files /\ << p, g.value >> \in a.claims
      BY <2>2, <3>2 DEF Tied
    <3> QED
      BY <3>1, <3>2, <3>3, <3>4, SparesSelf
  <2> QED
    BY <2>1, <2>2
<1> HIDE DEF c, w
<1>3. VolumeFields \subseteq DOMAIN c /\ c = [ f \in DOMAIN c |-> c[f] ] /\ VolumeOK(c) /\ LooseOK(c.o)
  BY <1>2, Fields DEF Holds, Intact
<1>4. Lands(v, a, p, x)
  <2> HIDE DEF r
  <2>1. /\ x = [ f \in DOMAIN x |-> x[f] ] /\ SameBut(c, x, { "o", "data", "result", "value" })
        /\ x.o = [ v.o EXCEPT !.position = 0 ]
    BY <1>2, <1>3 DEF SameBut, VolumeFields, TableFields
  <2> HIDE DEF x
  <2>2. LooseOK(x.o) /\ SameBut(c.o, x.o, CalmFields) /\ x.o.position = 0
    <3>1. SameBut(v.o, x.o, { "position" })
      BY <2>1, ClosedFields DEF SameBut, LooseOK, HasFields
    <3> QED
      BY <1>2, <2>1, <3>1, PlacedOK DEF SameBut, CalmFields
  <2>3. Calm(c, a, x)
    BY <1>2, <2>1, <2>2, CalmSet
  <2>4. Holds(x, a) /\ Tied(x.o, a, p) /\ SameFile(v, x)
    BY <1>2, <1>3, <2>3, CalmObject, CalmSameFile, SameFileAgain
  <2> QED
    BY <2>2, <2>4, SparesSelf DEF Lands
<1>5. ASSUME c.value \in Clusters \cup { 0 }
      PROVE  /\ SameFile(v, y) /\ VolumeOK(y) /\ y.o.start = c.value /\ y.o.cluster = c.value /\ y.o.position = 0
             /\ y.o.write = v.o.write
             /\ \A b : Holds(c, b) => Holds(y, b)
  <2>1. /\ y = [ f \in DOMAIN y |-> y[f] ] /\ SameBut(c, y, { "o", "data", "result", "value" })
        /\ y.o = [ v.o EXCEPT !.start = c.value, !.cluster = c.value, !.position = 0 ]
    BY <1>2, <1>3 DEF SameBut, VolumeFields, TableFields
  <2> HIDE DEF y
  <2>2. LooseOK(y.o) /\ SameBut(v.o, y.o, SeekFields)
    BY <1>5, <2>1, StartedOK
  <2>3. SameBut(c.o, y.o, MovingFields)
    BY <1>2, <2>2 DEF SameBut, SeekFields, MovingFields, CalmFields
  <2>4. SameFile(c, y) /\ (\A b : Holds(c, b) => Holds(y, b))
    BY <1>2, <2>1, <2>2, <2>3, MoveSet
  <2>5. Holds(y, a)
    BY <1>2, <2>4
  <2>6. y.o.start = c.value /\ y.o.cluster = c.value /\ y.o.position = 0 /\ y.o.write = v.o.write
    BY <2>1, ClosedFields DEF LooseOK, HasFields
  <2> QED
    BY <1>2, <2>4, <2>5, <2>6, SameFileAgain DEF Holds, Intact
<1>6. ASSUME c.value = 0 PROVE Lands(v, a, p, z)
  <2>1. /\ SameFile(v, y) /\ VolumeOK(y) /\ y.o.start = 0 /\ y.o.position = 0 /\ y.o.write = v.o.write /\ Holds(y, a)
    BY <1>2, <1>5, <1>6
  <2> HIDE DEF y
  <2>2. /\ z = [ f \in DOMAIN z |-> z[f] ] /\ SameBut(y, z, { "o", "data", "result", "value" }) /\ z.o = y.o
    BY <2>1, Fields DEF SameBut, VolumeFields, TableFields
  <2> HIDE DEF z
  <2>3. Calm(y, a, z)
    BY <2>1, <2>2, CalmSet DEF SameFile, SameBut
  <2>4. Tied(z.o, a, p)
    BY <2>1, <2>2 DEF Tied
  <2> QED
    BY <2>1, <2>2, <2>3, <2>4, CalmSameFile, SameFileAgain, SparesSelf DEF Lands, Calm
<1>7. ASSUME c.value \in Clusters PROVE Lands(v, a, p, s)
  <2>1. /\ SameFile(v, y) /\ VolumeOK(y) /\ y.o.start = c.value /\ y.o.cluster = c.value
        /\ y.o.write = v.o.write /\ (\A b : Holds(c, b) => Holds(y, b))
    BY <1>5, <1>7
  <2>2. \E b : /\ Spares(a, b) /\ Holds(c, b)
               /\ v.o.write => p \in b.files /\ << p, c.value >> \in b.claims
    <3>1. CASE v.o.write
      BY <1>2, <1>7, <3>1
    <3>2. CASE ~v.o.write
      BY <1>2, <3>2, SparesSelf
    <3> QED
      BY <3>1, <3>2
  <2> HIDE DEF y
  <2>3. PICK b : /\ Spares(a, b) /\ Holds(y, b)
                 /\ v.o.write => p \in b.files /\ << p, c.value >> \in b.claims
    BY <2>1, <2>2
  <2>4. Tied(y.o, b, p) /\ OnChain(y.o, b)
    <3>1. At(b.links, y.o.start, 0, y.o.cluster)
      BY <1>7, <2>1, AtStart
    <3> QED
      BY <2>1, <2>3, <3>1 DEF Tied, OnChain
  <2>5. Seeks(v, a, p, y) /\ LooseOK(y.o)
    BY <2>1, <2>3, <2>4 DEF Seeks, SameFile
  <2>6. \A d : Holds(y, d) /\ Tied(y.o, d, p) /\ OnChain(y.o, d) => Seeks(y, d, p, s)
    BY <2>5, SeekOnSeeks
  <2> HIDE DEF s
  <2> QED
    BY <2>5, <2>6, SeeksAgain, SeeksLands
<1> HIDE DEF x, z, s, y
<1>8. w \in { x, z, s }
  BY <1>1
<1> QED
  BY <1>1, <1>2, <1>4, <1>6, <1>7 DEF w

LEMMA AbortCalm ==
  ASSUME NEW v, NEW a, Holds(v, a), LooseOK(v.o)
  PROVE  Calm(v, a, Abort(v)) /\ Abort(v).o.position = v.o.position
<1> DEFINE x == [ v EXCEPT !.o.result = v.result ]
<1>1. VolumeOK(v)
  BY DEF Holds, Intact
<1>2. /\ x = [ f \in DOMAIN x |-> x[f] ] /\ SameBut(v, x, { "o", "data", "result", "value" })
      /\ x.o = [ v.o EXCEPT !.result = v.result ]
  BY <1>1, Fields DEF SameBut, VolumeFields, TableFields
<1> DEFINE w == Abort(v)
<1>3. w \in { v, x } /\ LooseOK(w.o)
  <2>1. LooseOK(w.o)
    BY <1>1, AbortStays
  <2> QED
    BY <2>1 DEF Abort
<1> HIDE DEF x, w
<1>4. SameBut(v.o, x.o, CalmFields) /\ x.o.position = v.o.position
  BY <1>2, ClosedFields DEF SameBut, CalmFields, LooseOK, HasFields
<1>5. CASE w = v
  BY <1>5, CalmSame DEF w
<1>6. CASE w = x
  BY <1>2, <1>3, <1>4, <1>6, CalmSet DEF w
<1> QED
  BY <1>3, <1>5, <1>6

\* Seek ends where it landed, with the data of the place.
LEMMA LandsThenCalm ==
  ASSUME NEW v, NEW a, NEW p, NEW u, Lands(v, a, p, u), NEW w,
         \A b : Holds(u, b) => Calm(u, b, w) /\ (u.o.position = 0 => w.o.position = 0)
  PROVE  Lands(v, a, p, w)
<1>1. PICK b : Spares(a, b) /\ Holds(u, b) /\ Tied(u.o, b, p) /\ (u.o.position # 0 => OnChain(u.o, b))
  BY DEF Lands
<1>2. Calm(u, b, w) /\ LooseOK(u.o) /\ (u.o.position = 0 => w.o.position = 0)
  BY <1>1 DEF Lands, SameFile
<1>3. SameFile(v, w)
  BY <1>2, CalmSameFile, SameFileAgain DEF Lands
<1>4. Tied(w.o, b, p) /\ (w.o.position # 0 => OnChain(w.o, b)) /\ Holds(w, b)
  BY <1>1, <1>2, CalmObject
<1> QED
  BY <1>1, <1>3, <1>4 DEF Lands

\* seek (3133).
LEMMA SeekCalls ==
  ASSUME NEW v, NEW a, NEW p, Holds(v, a), ObjectOK(v.o), v.o.result = "OK", Ready(v.o, a, p), NEW position \in Nat
  PROVE  Calls(v, a, p, Seek(v, position))
<1> DEFINE target == IF position > v.o.size /\ ~v.o.write THEN v.o.size ELSE position
           zero == [ v EXCEPT !.o.position = 0, !.value = NoSector ]
           m == IF target = 0 THEN zero
                ELSE IF SeekForward(v.o, target) THEN SeekFromHere(v, target)
                ELSE SeekFromStart(v, target)
           b == WriteBack(m)
           f == Fill(b, m.value)
           n == IF b.result = "OK" THEN f ELSE b
           c == IF m.result # "OK" THEN m
                ELSE IF Aligned(m.o.position) \/ m.value = m.o.cached THEN m ELSE n
           x == [ c EXCEPT !.o.size = c.o.position, !.o.written = TRUE ]
           g == IF c.result # "OK" THEN c ELSE IF c.o.position > c.o.size THEN x ELSE c
           d == Abort(g)
           w == Fails(d, d.o.result)
           P(u) == Lands(v, a, p, u)
<1>1. Seek(v, position) = w
  <2> HIDE DEF m, target
  <2>1. Seek(v, position) =
          LET Cache(e) ==
                IF Aligned(e.o.position) \/ e.value = e.o.cached THEN e
                ELSE Then(WriteBack(e), LAMBDA u : Fill(u, e.value))
              Grow(e) ==
                IF e.o.position > e.o.size THEN [ e EXCEPT !.o.size = e.o.position, !.o.written = TRUE ] ELSE e
          IN  With(Abort(Then(Then(m, Cache), Grow)), LAMBDA e : Fails(e, e.o.result))
    BY DEF Seek, m, target
  <2>2. c = LET Cache(e) ==
                IF Aligned(e.o.position) \/ e.value = e.o.cached THEN e
                ELSE Then(WriteBack(e), LAMBDA u : Fill(u, e.value))
            IN  Then(m, Cache)
    BY DEF Then
  <2> HIDE DEF c
  <2>3. g = LET Grow(e) ==
                IF e.o.position > e.o.size THEN [ e EXCEPT !.o.size = e.o.position, !.o.written = TRUE ] ELSE e
            IN  Then(c, Grow)
    BY DEF Then
  <2> HIDE DEF g
  <2> QED
    BY <2>1, <2>2, <2>3 DEF With
<1>2. LooseOK(v.o) /\ target \in Nat /\ VolumeOK(v) /\ Tied(v.o, a, p) /\ (v.o.position # 0 => OnChain(v.o, a))
  BY LooseAndResult DEF ObjectOK, Holds, Intact, Ready
<1> HIDE DEF target
<1>3. P(m) /\ (m.result = "OK" => m.value \in DataSectors \cup { NoSector })
  <2>1. CASE target = 0
    <3>1. /\ zero = [ e \in DOMAIN zero |-> zero[e] ] /\ SameBut(v, zero, { "o", "data", "result", "value" })
          /\ zero.o = [ v.o EXCEPT !.position = 0 ] /\ zero.value = NoSector
      BY <1>2, Fields DEF SameBut, VolumeFields, TableFields
    <3>2. m = zero
      BY <2>1
    <3> HIDE DEF zero, m
    <3>3. LooseOK(zero.o) /\ SameBut(v.o, zero.o, CalmFields) /\ zero.o.position = 0
      <4>1. SameBut(v.o, zero.o, { "position" })
        BY <1>2, <3>1, ClosedFields DEF SameBut, LooseOK, HasFields
      <4> QED
        BY <1>2, <3>1, <4>1, PlacedOK DEF SameBut, CalmFields
    <3>4. Calm(v, a, zero)
      BY <3>1, <3>3, CalmSet
    <3>5. Lands(v, a, p, zero)
      BY <1>2, <3>3, <3>4, CalmObject, CalmSameFile, SparesSelf DEF Lands
    <3> QED
      BY <3>1, <3>2, <3>5
  <2>2. CASE target # 0
    <3>1. target \in Nat \ {0}
      BY <1>2, <2>2
    <3>2. SeekForward(v.o, target) => P(SeekFromHere(v, target)) /\ Sought(v, SeekFromHere(v, target))
      <4>1. SeekForward(v.o, target) => OnChain(v.o, a)
        BY <1>2 DEF SeekForward, LooseOK
      <4> QED
        BY <1>2, <3>1, <4>1, SeekFromHereSeeks, SeekFromHereStays, SeeksLands
    <3>3. P(SeekFromStart(v, target)) /\ Sought(v, SeekFromStart(v, target))
      BY <1>2, <3>1, SeekFromStartLands, SeekFromStartStays
    <3> HIDE DEF P
    <3> QED
      BY <2>2, <3>2, <3>3 DEF Sought
  <2> QED
    BY <2>1, <2>2
<1> HIDE DEF m
<1>4. LooseOK(m.o) /\ VolumeOK(m)
  BY <1>3 DEF Lands, SameFile, Holds, Intact
<1>5. P(c)
  <2>1. CASE c = m
    BY <1>3, <2>1
  <2>2. CASE m.result = "OK" /\ ~Aligned(m.o.position) /\ c = n
    <3>1. ASSUME NEW e, Holds(m, e) PROVE Calm(m, e, n)
      <4>1. Calm(m, e, b)
        BY <1>4, <3>1, WriteBackCalm
      <4> HIDE DEF b
      <4>2. Calm(b, e, f)
        <5>1. m.value \in DataSectors \cup { NoSector }
          BY <1>3, <2>2
        <5> QED
          BY <4>1, <5>1, FillCalm DEF Calm
      <4> HIDE DEF f
      <4> QED
        BY <4>1, <4>2, CalmAgain
    <3>2. m.o.position # 0
      BY <2>2, FirstSector
    <3> HIDE DEF n
    <3>3. c = n
      BY <2>2
    <3> HIDE DEF c
    <3> QED
      BY <1>3, <3>1, <3>2, <3>3, LandsThenCalm
  <2> HIDE DEF n, P
  <2> QED
    BY <2>1, <2>2
<1> HIDE DEF c
<1>6. LooseOK(c.o) /\ VolumeOK(c)
  BY <1>5 DEF Lands, SameFile, Holds, Intact
<1>7. P(g)
  <2>1. P(x)
    <3> DEFINE q == c.o.position
    <3>1. q \in Nat
      BY <1>6 DEF LooseOK
    <3>2. /\ x = [ e \in DOMAIN x |-> x[e] ] /\ SameBut(c, x, { "o", "data", "result", "value" })
          /\ x.o = [ c.o EXCEPT !.size = q, !.written = TRUE ]
      BY <1>6, Fields DEF SameBut, VolumeFields, TableFields
    <3> HIDE DEF x
    <3>3. LooseOK(x.o) /\ x.o.position = q /\ SameBut(c.o, x.o, CalmFields)
      <4> DEFINE a1 == c.o
                 b1 == x.o
      <4>1. LooseOK(a1) /\ a1.position = q
        BY <1>6
      <4>2. b1 = [ a1 EXCEPT !.size = q, !.written = TRUE ]
        BY <3>2
      <4> HIDE DEF q, P, a1, b1
      <4>3. DOMAIN Closed \subseteq DOMAIN a1 /\ a1 = [ e \in DOMAIN a1 |-> a1[e] ]
        BY <4>1, ClosedFields DEF LooseOK, HasFields
      <4>4. b1 = [ e \in DOMAIN b1 |-> b1[e] ] /\ SameBut(a1, b1, { "size", "written" }) /\ b1.size = q
        BY <4>2, <4>3, ClosedFields DEF SameBut
      <4>5. SameBut(a1, b1, CalmFields)
        BY <4>4 DEF SameBut, CalmFields
      <4> QED
        BY <4>1, <4>4, <4>5, GrownOK DEF a1, b1
    <3>4. \A e : Holds(c, e) => Calm(c, e, x)
      BY <3>2, <3>3, CalmSet
    <3>5. x.o.position = c.o.position
      BY <3>3
    <3> HIDE DEF q
    <3> QED
      BY <1>5, <3>4, <3>5, LandsThenCalm
  <2> HIDE DEF P, x
  <2> QED
    BY <1>5, <2>1
<1> HIDE DEF g
<1>8. LooseOK(g.o)
  BY <1>7 DEF Lands, SameFile
<1>9. P(d)
  <2>1. \A e : Holds(g, e) => Calm(g, e, d) /\ d.o.position = g.o.position
    BY <1>8, AbortCalm
  <2> HIDE DEF d
  <2> QED
    BY <1>7, <2>1, LandsThenCalm
<1> HIDE DEF d
<1>10. LooseOK(d.o) /\ VolumeOK(d)
  BY <1>9 DEF Lands, SameFile, Holds, Intact
<1>11. P(w)
  <2>1. w.o = d.o
    BY <1>10, FailsFile
  <2>2. \A e : Holds(d, e) => Calm(d, e, w)
    BY <1>10, CalmSame
  <2> HIDE DEF w
  <2> QED
    BY <1>9, <2>1, <2>2, LandsThenCalm
<1> HIDE DEF w
<1> QED
  BY <1>1, <1>11 DEF Calls, Lands, Ready

-----------------------------------------------------------------------------
(* Giving up claims and links. *)

LEMMA AtLink ==
  ASSUME NEW L, NEW s, NEW n, NEW l \in L, At(L, s, n, l[1]), l[2] \in Clusters
  PROVE  At(L, s, n + 1, l[2])
<1> SUFFICES ASSUME NEW T \in SUBSET (Nat \X Clusters), Steady(T, L, s) PROVE << n + 1, l[2] >> \in T
  BY DEF At
<1>1. n \in Nat /\ << n, l[1] >> \in T
  BY DEF At
<1> QED
  BY <1>1 DEF Steady

\* The links of L that are met from s after m steps, for s and m in S.
Crossed(L, S) == { l \in L : \E s, m : << s, m >> \in S /\ At(L, s, m, l[1]) }

LEMMA CrossedAt ==
  ASSUME NEW L, Chained(L), NEW S, NEW s, NEW n \in Nat, \A m \in Nat : m < n => << s, m >> \in S,
         NEW c, At(L, s, n, c)
  PROVE  At(Crossed(L, S), s, n, c)
<1> DEFINE M == Crossed(L, S)
           T == { x \in Nat \X Clusters : At(L, s, x[1], x[2]) /\ (x[1] <= n => At(M, s, x[1], x[2])) }
<1>1. T \in SUBSET (Nat \X Clusters)
  OBVIOUS
<1>2. << 0, s >> \in T
  BY AtStart DEF At
<1>3. ASSUME NEW k \in Nat, NEW l \in L, << k, l[1] >> \in T PROVE << k + 1, l[2] >> \in T
  <2>1. l[2] \in Clusters
    BY DEF Chained
  <2>2. At(L, s, k, l[1]) /\ (k <= n => At(M, s, k, l[1]))
    BY <1>3
  <2>3. At(L, s, k + 1, l[2])
    BY <2>1, <2>2, AtLink
  <2>4. k + 1 <= n => At(M, s, k + 1, l[2])
    <3> SUFFICES ASSUME k + 1 <= n PROVE At(M, s, k + 1, l[2])
      OBVIOUS
    <3>1. << s, k >> \in S
      OBVIOUS
    <3>2. l \in M
      BY <2>2, <3>1 DEF Crossed
    <3> HIDE DEF M
    <3> QED
      BY <2>1, <2>2, <3>2, AtLink
  <2> QED
    BY <2>1, <2>3, <2>4
<1>4. Steady(T, L, s)
  BY <1>2, <1>3 DEF Steady
<1>5. << n, c >> \in T
  BY <1>1, <1>4 DEF At
<1> HIDE DEF M
<1> QED
  BY <1>5 DEF M

\* Links that are met on the way from claims of open files hang together.
LEMMA CrossedHangTogether ==
  ASSUME NEW L, Chained(L), \A l \in L : l[1] \in Clusters /\ l[2] \in Clusters, NEW K, RootClaim \in K,
         NEW F, NEW S,
         \A s, m : << s, m >> \in S =>
            /\ \E h \in K : h[2] = s /\ h[1] \in F \cup { RootPlace }
            /\ m \in Nat /\ (m # 0 => << s, m - 1 >> \in S),
         NEW Z
  PROVE  Rooted(Accord(K, Z, F, Crossed(L, S)))
<1> DEFINE M == Crossed(L, S)
           b == Accord(K, Z, F, M)
<1>1. b.claims = K /\ b.files = F /\ b.links = M
  BY DEF Accord
<1> HIDE DEF b
<1>2. ASSUME NEW l \in M
      PROVE  /\ l[1] \in Clusters /\ l[2] \in Clusters
             /\ \/ \E h \in K : h[2] = l[1] /\ h[1] \in F \cup { RootPlace }
                \/ \E m \in M : m[2] = l[1]
  <2>1. l \in L /\ l[1] \in Clusters /\ l[2] \in Clusters
    BY DEF Crossed
  <2>2. PICK s, m : << s, m >> \in S /\ At(L, s, m, l[1])
    BY DEF Crossed
  <2>3. CASE m = 0 /\ l[1] = s
    BY <2>1, <2>2, <2>3
  <2>4. CASE m - 1 \in Nat /\ \E k \in L : k[2] = l[1] /\ At(L, s, m - 1, k[1])
    <3>1. PICK k \in L : k[2] = l[1] /\ At(L, s, m - 1, k[1])
      BY <2>4
    <3>2. << s, m - 1 >> \in S
      BY <2>2, <2>4
    <3>3. k \in M
      BY <3>1, <3>2 DEF Crossed
    <3> HIDE DEF M
    <3> QED
      BY <2>1, <3>1, <3>3
  <2> QED
    BY <2>2, <2>3, <2>4, AtBack
<1> HIDE DEF M
<1> QED
  BY <1>1, <1>2 DEF Rooted, b, M

LEMMA CrossedRooted ==
  ASSUME NEW a, Rooted(a), Chained(a.links), NEW K, RootClaim \in K, NEW S,
         \A s, m : << s, m >> \in S =>
            /\ \E h \in K : h[2] = s /\ h[1] \in a.files \cup { RootPlace }
            /\ m \in Nat /\ (m # 0 => << s, m - 1 >> \in S),
         NEW Z
  PROVE  Rooted(Accord(K, Z, a.files, Crossed(a.links, S)))
<1>1. \A l \in a.links : l[1] \in Clusters /\ l[2] \in Clusters
  BY DEF Rooted
<1> QED
  BY <1>1, CrossedHangTogether

\* Claims of entries that are stale may be given up, and any links.
LEMMA PruneHolds ==
  ASSUME NEW v, NEW a, Holds(v, a), NEW b, Rooted(b), b.claims \subseteq a.claims, b.links \subseteq a.links,
         b.files = a.files, a.loose \subseteq b.loose, \A h \in a.claims \ b.claims : h[1] \in b.loose
  PROVE  Holds(v, b)
<1>1. ASSUME NEW e, NEW q, Fits(e, q, a) PROVE Fits(e, q, b)
  <2> DEFINE h == << q, e.start >>
  <2>1. h[1] = q
    OBVIOUS
  <2>2. h \in a.claims => h \in b.claims \/ q \in b.loose
    <3> HIDE DEF h
    <3> QED
      BY <2>1
  <2> QED
    BY <1>1, <2>2 DEF Fits
<1>2. ~v.dead => Respects(Logical(v), b) /\ WindowFits(v, b)
  <2>1. ~v.dead => HeadsApart(Logical(v), b.claims)
    BY FewerApart DEF Holds, Intact, Respects
  <2> QED
    BY <1>1, <2>1 DEF Holds, Intact, Respects, EntriesFit, WindowFits, LinksKept
<1>3. b.loose = {} => Mountable(v.disk)
  BY DEF Holds, Intact
<1> QED
  BY <1>2, <1>3 DEF Holds, Intact

\* From a to b the file whose entry is at p gives up clusters, the others do not.
Eases(a, b, p) ==
  /\ b.files = a.files /\ b.loose \subseteq a.loose \cup { p }
  /\ \A h \in a.claims :
       h[1] \in (a.files \cup { RootPlace }) \ { p } =>
         h \in b.claims /\ \A n, c : At(a.links, h[2], n, c) => At(b.links, h[2], n, c)

LEMMA SparesEases ==
  ASSUME NEW a, NEW b, Spares(a, b), NEW p
  PROVE  Eases(a, b, p)
  BY AtMore DEF Spares, Eases

LEMMA EasesAgain ==
  ASSUME NEW a, NEW b, NEW p, Eases(a, b, p), NEW c, Eases(b, c, p)
  PROVE  Eases(a, c, p)
  BY DEF Eases

LEMMA KeptChained ==
  ASSUME NEW v, NEW a, Holds(v, a), ~v.dead
  PROVE  /\ Chained(a.links)
         /\ \A h \in a.claims : Unlinked(a.links, h[2]) /\ h[2] \in Clusters /\ LinkOn(Logical(v), h[2]) # 0
         /\ \A g, h \in a.claims : g[2] = h[2] => g[1] = h[1]
         /\ \A h \in a.claims, k \in Clusters : LinkOn(Logical(v), k) # h[2]
<1>1. /\ TableSound(Logical(v)) /\ HeadsApart(Logical(v), a.claims) /\ LinksKept(Logical(v), a) /\ Rooted(a)
  BY DEF Holds, Intact, Respects
<1>2. Chained(a.links)
  BY <1>1 DEF Chained, LinksKept, Rooted, TableSound
<1>3. ASSUME NEW h \in a.claims PROVE Unlinked(a.links, h[2])
  BY <1>1 DEF Unlinked, LinksKept, Rooted, HeadsApart
<1> QED
  BY <1>1, <1>2, <1>3 DEF HeadsApart

\* A file gives up all its clusters: its entry is stale from then on.
GaveUp(v, a, p, b) == Holds(v, b) /\ Eases(a, b, p) /\ b.claims = { h \in a.claims : h[1] # p }

LEMMA GivesUp ==
  ASSUME NEW v, NEW a, Holds(v, a), ~v.dead, NEW p, p # RootPlace
  PROVE  \E b : GaveUp(v, a, p, b)
<1> DEFINE K == { h \in a.claims : h[1] # p }
           R == { h \in K : h[1] \in a.files \cup { RootPlace } }
           S == { h[2] : h \in R } \X Nat
           b == Accord(K, a.loose \cup { p }, a.files, Crossed(a.links, S))
<1>1. Chained(a.links) /\ Rooted(a)
  BY KeptChained DEF Holds, Intact
<1>2. b.claims = K /\ b.files = a.files /\ b.loose = a.loose \cup { p } /\ b.links = Crossed(a.links, S)
  BY DEF Accord
<1>3. RootClaim \in K
  <2>1. RootClaim[1] = RootPlace
    BY DEF RootClaim
  <2> QED
    BY <1>1, <2>1 DEF Rooted
<1>4. Rooted(b)
  <2>1. ASSUME NEW s, NEW m, << s, m >> \in S
        PROVE  /\ \E h \in K : h[2] = s /\ h[1] \in a.files \cup { RootPlace }
               /\ m \in Nat /\ (m # 0 => << s, m - 1 >> \in S)
    BY <2>1
  <2> HIDE DEF K, S
  <2> QED
    BY <1>1, <1>3, <2>1, CrossedRooted
<1>5. Eases(a, b, p)
  <2> SUFFICES ASSUME NEW h \in a.claims, h[1] \in (a.files \cup { RootPlace }) \ { p }
               PROVE  h \in b.claims /\ \A n, c : At(a.links, h[2], n, c) => At(b.links, h[2], n, c)
    BY <1>2 DEF Eases
  <2>1. h \in R
    OBVIOUS
  <2>2. ASSUME NEW n, NEW c, At(a.links, h[2], n, c) PROVE At(b.links, h[2], n, c)
    <3>1. n \in Nat
      BY <2>2 DEF At
    <3>2. \A m \in Nat : m < n => << h[2], m >> \in S
      BY <2>1
    <3> HIDE DEF S, b
    <3> QED
      BY <1>1, <1>2, <2>2, <3>1, <3>2, CrossedAt
  <2> HIDE DEF b
  <2> QED
    BY <1>2, <2>1, <2>2
<1> HIDE DEF b, S, R
<1>6. Holds(v, b)
  <2>1. b.links \subseteq a.links
    BY <1>2 DEF Crossed
  <2> QED
    BY <1>2, <1>4, <2>1, PruneHolds
<1>7. GaveUp(v, a, p, b)
  BY <1>2, <1>5, <1>6 DEF GaveUp
<1> QED
  BY <1>7

\* A file gives up the links from its cluster c on, which is the one with the number n.
GaveUpTail(v, a, p, s, n, c, b) ==
  /\ Holds(v, b) /\ Eases(a, b, p) /\ b.claims = a.claims /\ b.loose = a.loose
  /\ At(b.links, s, n, c) /\ \A l \in b.links : l[1] # c

LEMMA GivesUpTail ==
  ASSUME NEW v, NEW a, Holds(v, a), ~v.dead, NEW p \in a.files, p # RootPlace, NEW s, << p, s >> \in a.claims,
         NEW n, NEW c, At(a.links, s, n, c)
  PROVE  \E b : GaveUpTail(v, a, p, s, n, c, b)
<1> DEFINE R == { h \in a.claims : h[1] \in (a.files \cup { RootPlace }) \ { p } }
           S == ({ h[2] : h \in R } \X Nat) \cup ({ s } \X { m \in Nat : m < n })
           b == Accord(a.claims, a.loose, a.files, Crossed(a.links, S))
           g == << p, s >>
<1>1. /\ Chained(a.links) /\ Rooted(a) /\ n \in Nat
      /\ \A h \in a.claims : Unlinked(a.links, h[2])
      /\ \A h \in a.claims : h[2] = s => h[1] = p
  <2>1. g \in a.claims /\ g[1] = p /\ g[2] = s
    OBVIOUS
  <2> HIDE DEF g
  <2> QED
    BY <2>1, KeptChained DEF Holds, Intact, At
<1>2. b.claims = a.claims /\ b.files = a.files /\ b.loose = a.loose /\ b.links = Crossed(a.links, S)
  BY DEF Accord
<1>3. Rooted(b)
  <2>1. ASSUME NEW t, NEW m, << t, m >> \in S
        PROVE  /\ \E h \in a.claims : h[2] = t /\ h[1] \in a.files \cup { RootPlace }
               /\ m \in Nat /\ (m # 0 => << t, m - 1 >> \in S)
    <3>1. CASE << t, m >> \in { h[2] : h \in R } \X Nat
      BY <3>1
    <3>2. CASE << t, m >> \in { s } \X { i \in Nat : i < n }
      <4>1. t = s /\ m \in Nat /\ m < n
        BY <3>2
      <4>2. m # 0 => m - 1 \in Nat /\ m - 1 < n
        BY <1>1, <4>1
      <4>3. \E h \in a.claims : h[2] = t /\ h[1] \in a.files \cup { RootPlace }
        <5>1. g \in a.claims /\ g[1] = p /\ g[2] = s
          OBVIOUS
        <5> HIDE DEF g
        <5> QED
          BY <4>1, <5>1
      <4> QED
        BY <4>1, <4>2, <4>3
    <3> QED
      BY <2>1, <3>1, <3>2
  <2>2. RootClaim \in a.claims
    BY <1>1 DEF Rooted
  <2> HIDE DEF S
  <2> QED
    BY <1>1, <2>1, <2>2, CrossedRooted
<1>4. Eases(a, b, p)
  <2> SUFFICES ASSUME NEW h \in a.claims, h[1] \in (a.files \cup { RootPlace }) \ { p }
               PROVE  h \in b.claims /\ \A i, e : At(a.links, h[2], i, e) => At(b.links, h[2], i, e)
    BY <1>2 DEF Eases
  <2>1. h \in R
    OBVIOUS
  <2>2. ASSUME NEW i, NEW e, At(a.links, h[2], i, e) PROVE At(b.links, h[2], i, e)
    <3>1. i \in Nat
      BY <2>2 DEF At
    <3>2. \A m \in Nat : m < i => << h[2], m >> \in S
      BY <2>1
    <3> HIDE DEF S, b
    <3> QED
      BY <1>1, <1>2, <2>2, <3>1, <3>2, CrossedAt
  <2> HIDE DEF b
  <2> QED
    BY <1>2, <2>1, <2>2
<1>5. At(b.links, s, n, c)
  <2>1. \A m \in Nat : m < n => << s, m >> \in S
    OBVIOUS
  <2> HIDE DEF S, b
  <2> QED
    BY <1>1, <1>2, <2>1, CrossedAt
<1>6. ASSUME NEW l \in b.links, l[1] = c PROVE FALSE
  <2>1. PICK t, m : << t, m >> \in S /\ At(a.links, t, m, c)
    BY <1>2, <1>6 DEF Crossed
  <2>2. Unlinked(a.links, s)
    <3>1. g \in a.claims /\ g[2] = s
      OBVIOUS
    <3> HIDE DEF g
    <3> QED
      BY <1>1, <3>1
  <2>3. Unlinked(a.links, t)
    <3>1. CASE << t, m >> \in { h[2] : h \in R } \X Nat
      BY <1>1, <3>1
    <3>2. CASE << t, m >> \in { s } \X { i \in Nat : i < n }
      BY <2>2, <3>2
    <3> QED
      BY <2>1, <3>1, <3>2
  <2>4. m = n /\ t = s
    BY <1>1, <2>1, <2>2, <2>3, AtApart
  <2>5. << s, n >> \in { h[2] : h \in R } \X Nat
    <3>1. ~(n < n)
      BY <1>1
    <3> QED
      BY <2>1, <2>4, <3>1
  <2>6. PICK h \in R : h[2] = s
    BY <2>5
  <2> QED
    BY <1>1, <2>6
<1> HIDE DEF b, S, R
<1>7. Holds(v, b)
  <2>1. b.links \subseteq a.links
    BY <1>2 DEF Crossed
  <2> QED
    BY <1>2, <1>3, <2>1, PruneHolds
<1>8. GaveUpTail(v, a, p, s, n, c, b)
  BY <1>2, <1>4, <1>5, <1>6, <1>7 DEF GaveUpTail
<1> QED
  BY <1>8

\* A cluster is made the last one of its chain.
LEMMA CutRespects ==
  ASSUME NEW d, IsCard(d), NEW b, Rooted(b), Respects(d, b), NEW c \in Clusters, \A l \in b.links : l[1] # c
  PROVE  LET e == WithLink(d, c, LastLink)
             n == LinkOn(d, c)
         IN  /\ Respects(e, b)
             /\ n \in Clusters => (\A k \in Clusters : LinkOn(e, k) # n) /\ (\A h \in b.claims : h[2] # n)
<1> DEFINE e == WithLink(d, c, LastLink)
           n == LinkOn(d, c)
<1>1. LastLink \in 0 .. Ones /\ LastLink \notin Clusters /\ LastLink # 0
  BY Numbers
<1>2. \A k \in Clusters : LinkOn(e, k) = IF k = c THEN LastLink ELSE LinkOn(d, k)
  BY <1>1, TableWith
<1>3. TableSound(d) /\ HeadsApart(d, b.claims)
  BY DEF Respects
<1> HIDE DEF e
<1>4. TableSound(e)
  BY <1>1, <1>2, <1>3 DEF TableSound
<1>5. Respects(e, b)
  BY <1>1, <1>4, LinkRespects DEF e
<1>6. n \in Clusters => (\A k \in Clusters : LinkOn(e, k) # n) /\ (\A h \in b.claims : h[2] # n)
  BY <1>1, <1>2, <1>3 DEF TableSound, HeadsApart
<1> QED
  BY <1>5, <1>6 DEF e

\* The file whose entry is at p gives up clusters.
Trims(v, a, p, w) ==
  SameFile(v, w) /\
  \E b : Eases(a, b, p) /\ Holds(w, b) /\ Tied(w.o, b, p) /\ (w.o.position # 0 => OnChain(w.o, b))

LEMMA RemoveSameFile ==
  ASSUME NEW v, VolumeOK(v), LooseOK(v.o), NEW c
  PROVE  LET w == RemoveChain(v, c)
         IN  SameFile(v, w) /\ w.o = v.o /\ w.data = v.data
<1> DEFINE w == RemoveChain(v, c)
<1>1. SameBut(v, w, ChainFields)
  BY RemoveChainStays
<1> HIDE DEF w
<1>2. w.o = v.o /\ w.data = v.data
  BY <1>1, Fields DEF SameBut, ChainFields, WindowFields, VolumeFields, TableFields
<1>3. SameBut(v, w, FileFields) /\ SameBut(v.o, w.o, MovingFields)
  BY <1>1, <1>2 DEF SameBut, FileFields
<1> QED
  BY <1>2, <1>3 DEF SameFile, w

\* All the clusters are freed (3248).
LEMMA CutAllTrims ==
  ASSUME NEW v, NEW a, NEW p, Holds(v, a), ~v.dead, LooseOK(v.o), v.o.write, p # RootPlace, Tied(v.o, a, p),
         v.o.position = 0
  PROVE  Trims(v, a, p, CutOff(v))
<1> DEFINE r == RemoveChain(v, v.o.start)
           x == [ r EXCEPT !.o.start = 0 ]
<1>1. CutOff(v) = x
  BY DEF CutOff
<1>2. PICK b : Holds(v, b) /\ Eases(a, b, p) /\ b.claims = { h \in a.claims : h[1] # p }
  <2> HIDE DEF r, x
  <2>1. PICK b : GaveUp(v, a, p, b)
    BY GivesUp
  <2> QED
    BY <2>1 DEF GaveUp
<1>3. ASSUME v.o.start \in Clusters
      PROVE  (\A k \in Clusters : LinkOn(Logical(v), k) # v.o.start) /\ (\A h \in b.claims : h[2] # v.o.start)
  <2> DEFINE g == << p, v.o.start >>
  <2>1. g \in a.claims /\ g[1] = p /\ g[2] = v.o.start
    BY <1>3, Numbers DEF Tied
  <2> HIDE DEF g
  <2> QED
    BY <1>2, <2>1, KeptChained
<1>4. VolumeOK(v)
  BY DEF Holds, Intact
<1>5. Holds(r, b) /\ SameFile(v, r) /\ r.o = v.o
  BY <1>2, <1>3, <1>4, RemoveChainHolds, RemoveSameFile
<1> HIDE DEF r
<1>6. VolumeOK(r)
  BY <1>5 DEF Holds, Intact
<1>7. /\ x = [ f \in DOMAIN x |-> x[f] ] /\ SameBut(r, x, { "o", "data", "result", "value" })
      /\ x.o = [ v.o EXCEPT !.start = 0 ]
  BY <1>5, <1>6, Fields DEF SameBut, VolumeFields
<1> HIDE DEF x
<1>8. LooseOK(x.o) /\ SameBut(v.o, x.o, { "start" }) /\ x.o.start = 0 /\ x.o.position = 0 /\ x.o.write
  <2> DEFINE o == v.o
             q == x.o
  <2>1. HasFields(o, DOMAIN Closed) /\ LooseOK(o) /\ q = [ o EXCEPT !.start = 0 ] /\ o.write /\ o.position = 0
    BY <1>7 DEF LooseOK
  <2> HIDE DEF o, q
  <2>2. HasFields(q, DOMAIN Closed) /\ SameBut(o, q, { "start" }) /\ q.start = 0 /\ q.position = 0 /\ q.write
    BY <2>1, ClosedFields DEF HasFields, SameBut
  <2>3. LooseOK(q)
    BY <2>1, <2>2, ClosedFields DEF LooseOK, HasFields, SameBut
  <2> QED
    BY <2>2, <2>3 DEF o, q
<1>9. SameBut(r.o, x.o, MovingFields)
  BY <1>5, <1>8 DEF SameBut, MovingFields
<1>10. SameFile(v, x) /\ Holds(x, b)
  BY <1>5, <1>7, <1>8, <1>9, MoveSet, SameFileAgain
<1>11. Tied(x.o, b, p)
  BY <1>2, <1>8 DEF Tied, Eases
<1> QED
  BY <1>1, <1>2, <1>8, <1>10, <1>11 DEF Trims

\* The clusters after the one at hand are freed (3254).
LEMMA CutTailTrims ==
  ASSUME NEW v, NEW a, NEW p, Holds(v, a), ~v.dead, LooseOK(v.o), v.o.write, p # RootPlace, Tied(v.o, a, p),
         v.o.position # 0, OnChain(v.o, a)
  PROVE  Trims(v, a, p, CutOff(v))
<1> DEFINE c == v.o.cluster
           g == GetFat(v, c)
           u == PutFat(g, c, LastLink)
           y == RemoveChain(u, u.value)
           w == CutOff(v)
<1>1. \/ w \in { Fails(g, "INT_ERR"), Fails(g, "DISK_ERR"), Fails(g, "OK") }
      \/ c \in Clusters /\ g.value \notin { 1, Ones } /\ ~(g.value >= NumFatEntries) /\ u.result # "OK" /\ w = u
      \/ c \in Clusters /\ g.value \notin { 1, Ones } /\ ~(g.value >= NumFatEntries) /\ u.result = "OK" /\ w = y
  <2>1. c \notin Clusters => g.value = 1
    BY GetFatStays DEF Holds, Intact
  <2> QED
    BY <2>1 DEF CutOff, With, Then
<1> HIDE DEF w
<1>2. VolumeOK(v) /\ (\A e : Holds(v, e) => Calm(v, e, g)) /\ g.o = v.o
  BY GetFatCalm DEF Holds, Intact
<1>3. VolumeOK(g) /\ LooseOK(g.o) /\ SameFile(v, g) /\ Holds(g, a)
  BY <1>2, CalmSameFile DEF Calm, Holds, Intact
<1>4. CASE w \in { Fails(g, "INT_ERR"), Fails(g, "DISK_ERR"), Fails(g, "OK") }
  <2>1. PICK r : w = Fails(g, r)
    BY <1>4
  <2>2. Calm(g, a, w) /\ w.o = v.o
    BY <1>2, <1>3, <2>1, CalmSame, FailsFile
  <2>3. SameFile(v, w) /\ Holds(w, a) /\ Tied(w.o, a, p) /\ OnChain(w.o, a)
    BY <1>3, <2>2, CalmSameFile, SameFileAgain DEF Calm
  <2> QED
    BY <2>3, SparesSelf, SparesEases DEF Trims, w
<1>5. CASE c \in Clusters /\ g.value \notin { 1, Ones } /\ ~(g.value >= NumFatEntries)
           /\ (w = u \/ (w = y /\ u.result = "OK"))
  <2>1. PICK n : At(a.links, v.o.start, n, c)
    BY <1>5 DEF OnChain
  <2>2. v.o.start # 0
    BY <2>1, Numbers DEF At
  <2>3. p \in a.files /\ << p, v.o.start >> \in a.claims
    BY <2>2 DEF Tied
  <2>4. PICK b : /\ Holds(v, b) /\ Eases(a, b, p) /\ b.claims = a.claims /\ b.loose = a.loose
                 /\ At(b.links, v.o.start, n, c) /\ \A l \in b.links : l[1] # c
    <3> HIDE DEF c, g, u, y, w
    <3>1. PICK b : GaveUpTail(v, a, p, v.o.start, n, c, b)
      BY <2>1, <2>3, GivesUpTail
    <3> QED
      BY <3>1 DEF GaveUpTail
  <2>5. Holds(g, b)
    BY <1>2, <2>4 DEF Calm
  <2>6. VolumeOK(u) /\ LinkPut(g, u, c, LastLink) /\ (~u.dead => WindowLike(g, u)) /\ Fresh(u)
    <3> HIDE DEF u, g, c
    <3> QED
      BY <1>3, <1>5, <2>5, PutFatStays, PutFatLike DEF LinkValues, LinkStays, Holds, u
  <2>7. ~g.dead => /\ g.value = LinkOn(Logical(g), c)
                   /\ Respects(WithLink(Logical(g), c, LastLink), b)
                   /\ g.value \in Clusters =>
                        /\ \A k \in Clusters : LinkOn(WithLink(Logical(g), c, LastLink), k) # g.value
                        /\ \A h \in b.claims : h[2] # g.value
    <3>1. ~g.dead => g.value = LinkOn(Logical(g), c)
      <4> HIDE DEF c
      <4>1. c \in Clusters /\ ~g.dead => ~v.dead /\ Logical(g) = Logical(v) /\ (g.value # Ones => g.value = LinkOn(Logical(v), c))
        BY <1>2, GetFatStays
      <4> HIDE DEF g
      <4> QED
        BY <1>5, <4>1
    <3>2. ~g.dead => IsCard(Logical(g)) /\ Respects(Logical(g), b) /\ Rooted(b)
      BY <2>5, <1>3, CardsOK DEF Holds, Intact
    <3> HIDE DEF g, c
    <3> QED
      BY <1>5, <2>4, <3>1, <3>2, CutRespects
  <2> HIDE DEF g
  <2>8. Holds(u, b)
    <3> HIDE DEF u, c
    <3> QED
      BY <2>5, <2>6, <2>7, PutHolds
  <2>9. SameFile(g, u) /\ u.o = v.o /\ u.value = g.value
    <3> HIDE DEF u, c
    <3>1. SameBut(g, u, WindowFields)
      BY <2>6 DEF LinkPut
    <3>2. u.o = v.o /\ u.value = g.value
      BY <1>2, <1>3, <3>1, Fields DEF SameBut, WindowFields, VolumeFields, TableFields
    <3>3. SameBut(g, u, FileFields) /\ SameBut(g.o, u.o, MovingFields)
      BY <1>2, <3>1, <3>2 DEF SameBut, FileFields, ChainFields
    <3> QED
      BY <1>2, <1>3, <3>2, <3>3 DEF SameFile
  <2>10. Tied(v.o, b, p) /\ OnChain(v.o, b)
    BY <2>3, <2>4 DEF Tied, OnChain, Eases
  <2>11. CASE w = u
    BY <1>3, <2>4, <2>8, <2>9, <2>10, <2>11, SameFileAgain DEF Trims, w
  <2>12. CASE w = y /\ u.result = "OK"
    <3> HIDE DEF u
    <3>1. ~u.dead /\ u.value \in Clusters =>
            (\A k \in Clusters : LinkOn(Logical(u), k) # u.value) /\ (\A h \in b.claims : h[2] # u.value)
      <4>1. ~u.dead => ~g.dead /\ Logical(u) = WithLink(Logical(g), c, LastLink)
        BY <1>3, <2>6, <2>12, CardsOK DEF LinkPut
      <4> QED
        BY <2>7, <2>9, <4>1
    <3>2. Holds(y, b) /\ SameFile(u, y) /\ y.o = u.o
      BY <1>3, <2>6, <2>8, <2>9, <3>1, RemoveChainHolds, RemoveSameFile
    <3> HIDE DEF y
    <3> QED
      BY <1>3, <2>4, <2>9, <2>10, <2>12, <3>2, SameFileAgain DEF Trims, w
  <2> QED
    BY <1>5, <2>11, <2>12
<1> HIDE DEF w, u, y, g, c
<1> QED
  BY <1>1, <1>4, <1>5 DEF w

-----------------------------------------------------------------------------
(* truncate (3234). *)

CutFields == { "size", "written", "shortened", "start", "dirty", "result" }

\* From v to w the file whose entry is at p is cut off, or nothing happens to it.
Cuts(v, a, p, w) ==
  /\ LooseOK(w.o) /\ SameBut(v, w, FileFields) /\ SameBut(v.o, w.o, CutFields)
  /\ \/ w.o.written = v.o.written /\ w.o.shortened = v.o.shortened
     \/ w.o.write /\ w.o.written = TRUE /\ w.o.shortened = TRUE
  /\ \E b : Eases(a, b, p) /\ Holds(w, b) /\ Ready(w.o, b, p) /\ (b.loose \subseteq a.loose \/ w.o.shortened = TRUE)

\* The size and the marks are set first.
LEMMA MarkedShortened ==
  ASSUME NEW v, NEW a, NEW p, Holds(v, a), LooseOK(v.o), v.o.write, Ready(v.o, a, p), v.o.result = "OK",
         NEW u, u = [ v EXCEPT !.o = [ v.o EXCEPT !.size = v.o.position, !.written = TRUE, !.shortened = TRUE ] ]
  PROVE  /\ Holds(u, a) /\ VolumeOK(u) /\ LooseOK(u.o) /\ SameBut(v, u, { "o" })
         /\ SameBut(v.o, u.o, { "size", "written", "shortened" })
         /\ u.o.write /\ u.o.written = TRUE /\ u.o.shortened = TRUE /\ u.o.position = v.o.position
         /\ Tied(u.o, a, p) /\ (u.o.position # 0 => OnChain(u.o, a))
<1> DEFINE o == v.o
           q == [ o EXCEPT !.size = o.position, !.written = TRUE, !.shortened = TRUE ]
<1>1. VolumeOK(v) /\ LooseOK(o)
  BY DEF Holds, Intact
<1>2. u = [ f \in DOMAIN u |-> u[f] ] /\ SameBut(v, u, { "o" }) /\ u.o = q
  BY <1>1, Fields DEF SameBut, VolumeFields
<1>3. /\ LooseOK(q) /\ SameBut(o, q, { "size", "written", "shortened" }) /\ q.write = o.write /\ q.written = TRUE
      /\ q.shortened = TRUE /\ q.position = o.position /\ q.start = o.start /\ q.cluster = o.cluster
  <2>1. LooseOK(o)
    BY <1>1
  <2> HIDE DEF o
  <2>2. o.position \in Nat
    BY <2>1 DEF LooseOK
  <2>3. HasFields(q, DOMAIN Closed) /\ SameBut(o, q, { "size", "written", "shortened" }) /\ q.size = o.position
        /\ q.written = TRUE /\ q.shortened = TRUE
    BY <2>1, ClosedFields DEF LooseOK, HasFields, SameBut
  <2> HIDE DEF q
  <2>4. /\ q.write = o.write /\ q.position = o.position /\ q.start = o.start /\ q.cluster = o.cluster
        /\ q.cached = o.cached /\ q.units = o.units /\ q.dirty = o.dirty /\ q.open = o.open /\ q.result = o.result
    BY <2>1, <2>3, ClosedFields DEF LooseOK, HasFields, SameBut
  <2>5. LooseOK(q)
    BY <2>1, <2>2, <2>3, <2>4, ClosedFields DEF LooseOK
  <2> QED
    BY <2>3, <2>4, <2>5
<1>4. Tied(o, a, p) /\ (o.position # 0 => OnChain(o, a)) /\ o.write
  BY DEF Ready
<1> HIDE DEF o, q
<1>5. Tied(q, a, p) /\ (q.position # 0 => OnChain(q, a))
  BY <1>3, <1>4 DEF Tied, OnChain
<1>6. Seen(v, u)
  BY <1>1, <1>2, OuterSeen DEF SameBut, OuterFields
<1>7. Holds(u, a)
  BY <1>6, SeenHolds
<1>8. VolumeOK(u)
  BY <1>7 DEF Holds, Intact
<1> QED
  BY <1>2, <1>3, <1>4, <1>5, <1>7, <1>8 DEF o

\* The clusters go, then the cached sector, then the result is kept.
LEMMA CutCuts ==
  ASSUME NEW v, NEW a, NEW p, Holds(v, a), ~v.dead, LooseOK(v.o), v.o.write, Ready(v.o, a, p), v.o.result = "OK",
         p # RootPlace,
         NEW u, u = [ v EXCEPT !.o = [ v.o EXCEPT !.size = v.o.position, !.written = TRUE, !.shortened = TRUE ] ]
  PROVE  Cuts(v, a, p, KeepResult(Then(CutOff(u), WriteBack)))
<1> DEFINE c == CutOff(u)
           d == WriteBack(c)
           e == IF c.result = "OK" THEN d ELSE c
           r == e.result
           k == KeepResult(e)
<1>1. Then(c, WriteBack) = e
  BY DEF Then
<1>2. /\ Holds(u, a) /\ VolumeOK(u) /\ LooseOK(u.o) /\ SameBut(v, u, { "o" })
      /\ SameBut(v.o, u.o, { "size", "written", "shortened" })
      /\ u.o.write /\ u.o.written = TRUE /\ u.o.shortened = TRUE /\ u.o.position = v.o.position
      /\ Tied(u.o, a, p) /\ (u.o.position # 0 => OnChain(u.o, a))
  BY MarkedShortened
<1>3. ~u.dead
  BY <1>2, Fields DEF SameBut, TableFields
<1>4. Trims(u, a, p, c)
  BY <1>2, <1>3, CutAllTrims, CutTailTrims
<1>5. SameBut(u.o, c.o, { "start" })
  BY <1>2, CutOffStays
<1> HIDE DEF c
<1>6. PICK b : Eases(a, b, p) /\ Holds(c, b) /\ Tied(c.o, b, p) /\ (c.o.position # 0 => OnChain(c.o, b))
  BY <1>4 DEF Trims
<1>7. SameFile(u, c) /\ LooseOK(c.o) /\ VolumeOK(c)
  BY <1>4, <1>6 DEF Trims, SameFile, Holds, Intact
<1>8. Calm(c, b, d) /\ d.o.position = c.o.position /\ SameBut(c.o, d.o, { "dirty" })
  BY <1>6, <1>7, WriteBackCalm, WriteBackStays
<1>9. Calm(c, b, e) /\ SameBut(c.o, e.o, { "dirty" })
  <2>1. Calm(c, b, c)
    BY <1>6, <1>7, CalmSame
  <2>2. SameBut(c.o, c.o, { "dirty" })
    BY DEF SameBut
  <2> QED
    BY <1>8, <2>1, <2>2
<1> HIDE DEF d, e
<1>10. VolumeOK(e) /\ LooseOK(e.o) /\ Holds(e, b)
  BY <1>7, <1>9, CalmObject
<1>11. k = [ g \in DOMAIN k |-> k[g] ] /\ SameBut(e, k, { "o", "result" }) /\ k.o = [ e.o EXCEPT !.result = r ]
  BY <1>10, Fields DEF KeepResult, SameBut, VolumeFields, TableFields
<1> HIDE DEF k, r
<1>12. LooseOK(k.o) /\ SameBut(e.o, k.o, { "result" })
  BY <1>10, <1>11, KeepResultStays
<1>13. Calm(e, b, k)
  BY <1>10, <1>11, <1>12, CalmSet DEF SameBut, CalmFields
<1>14. Holds(k, b) /\ Tied(k.o, b, p) /\ (c.o.position # 0 => OnChain(k.o, b))
  <2>1. (Tied(e.o, b, p) <=> Tied(c.o, b, p)) /\ (OnChain(e.o, b) <=> OnChain(c.o, b))
    BY <1>7, <1>9, CalmObject
  <2>2. (Tied(k.o, b, p) <=> Tied(e.o, b, p)) /\ (OnChain(k.o, b) <=> OnChain(e.o, b))
    BY <1>10, <1>13, CalmObject
  <2> QED
    BY <1>6, <1>13, <2>1, <2>2 DEF Calm
<1>15. SameBut(v.o, k.o, CutFields)
  BY <1>2, <1>5, <1>9, <1>12 DEF SameBut, CutFields
<1>16. k.o.write = u.o.write /\ k.o.written = u.o.written /\ k.o.shortened = u.o.shortened
  BY <1>2, <1>5, <1>7, <1>9, <1>10, <1>12, ClosedFields DEF SameBut, LooseOK, HasFields
<1>17. k.o.position = c.o.position
  BY <1>7, <1>9, <1>10, <1>12, ClosedFields DEF SameBut, LooseOK, HasFields
<1>18. Ready(k.o, b, p)
  BY <1>14, <1>17 DEF Ready
<1>19. SameBut(v, k, FileFields)
  <2>1. SameBut(u, k, FileFields)
    BY <1>7, <1>9, <1>13 DEF SameFile, Calm, SameBut
  <2> QED
    BY <1>2, <2>1 DEF SameBut, FileFields
<1>20. Cuts(v, a, p, k)
  BY <1>2, <1>6, <1>12, <1>14, <1>15, <1>16, <1>18, <1>19 DEF Cuts
<1> QED
  BY <1>1, <1>20 DEF k, c

LEMMA TruncateCuts ==
  ASSUME NEW v, NEW a, NEW p, Holds(v, a), ~v.dead, ObjectOK(v.o), Ready(v.o, a, p), v.o.result = "OK",
         p # RootPlace
  PROVE  Cuts(v, a, p, Truncate(v))
<1> DEFINE u == [ v EXCEPT !.o = [ v.o EXCEPT !.size = v.o.position, !.written = TRUE, !.shortened = TRUE ] ]
           k == KeepResult(Then(CutOff(u), WriteBack))
           m == KeepResult(Fails(v, "OK"))
           n == [ v EXCEPT !.o.result = "DENIED", !.result = "DENIED" ]
           w == Truncate(v)
<1>1. (~v.o.write /\ w = n) \/ (v.o.write /\ w \in { k, m })
  BY DEF Truncate
<1> HIDE DEF w
<1>2. VolumeOK(v) /\ LooseOK(v.o)
  BY LooseAndResult DEF Holds, Intact
<1>3. v.o.write => Cuts(v, a, p, k)
  <2> HIDE DEF k
  <2> QED
    BY <1>2, CutCuts DEF k
<1>4. ASSUME NEW r, NEW x, x = [ g \in DOMAIN x |-> x[g] ], SameBut(v, x, { "o", "result" }),
             x.o = [ v.o EXCEPT !.result = r ]
      PROVE  Cuts(v, a, p, x)
  <2>1. LooseOK(x.o) /\ SameBut(v.o, x.o, { "result" })
    BY <1>2, <1>4, KeepResultStays
  <2>2. Calm(v, a, x)
    BY <1>4, <2>1, CalmSet DEF SameBut, CalmFields
  <2>3. x.o.written = v.o.written /\ x.o.shortened = v.o.shortened /\ x.o.position = v.o.position
    BY <1>2, <2>1, ClosedFields DEF SameBut, LooseOK, HasFields
  <2>4. Ready(x.o, a, p)
    BY <1>2, <2>2, <2>3, CalmObject DEF Ready
  <2>5. SameBut(v.o, x.o, CutFields)
    BY <2>1 DEF SameBut, CutFields
  <2> QED
    BY <2>1, <2>2, <2>3, <2>4, <2>5, SparesSelf, SparesEases DEF Cuts, Calm
<1>5. Cuts(v, a, p, n)
  <2>1. n = [ g \in DOMAIN n |-> n[g] ] /\ SameBut(v, n, { "o", "result" }) /\ n.o = [ v.o EXCEPT !.result = "DENIED" ]
    BY <1>2, Fields DEF SameBut, VolumeFields, TableFields
  <2> HIDE DEF n
  <2> QED
    BY <1>4, <2>1
<1>6. Cuts(v, a, p, m)
  <2> DEFINE y == Fails(v, "OK")
             r == y.result
  <2>1. VolumeOK(y) /\ LooseOK(y.o) /\ y.o = v.o /\ SameBut(v, y, { "result" }) /\ r = "OK"
    BY <1>2, FailsFile, Fields DEF SameBut, Fails
  <2>2. m = KeepResult(y)
    OBVIOUS
  <2> HIDE DEF m, y, r
  <2>3. m = [ g \in DOMAIN m |-> m[g] ] /\ SameBut(y, m, { "o", "result" }) /\ m.o = [ y.o EXCEPT !.result = r ]
    BY <2>1, <2>2, Fields DEF KeepResult, SameBut, VolumeFields, TableFields, r
  <2>4. SameBut(v, m, { "o", "result" }) /\ m.o = [ v.o EXCEPT !.result = r ]
    BY <2>1, <2>3 DEF SameBut
  <2> QED
    BY <1>4, <2>3, <2>4
<1> HIDE DEF k, m, n
<1> QED
  BY <1>1, <1>3, <1>5, <1>6 DEF w

-----------------------------------------------------------------------------
(* sync (3283). *)

\* The entry at p is up to date.
Firm(a, p) == Accord(a.claims, a.loose \ { p }, a.files, a.links)

LEMMA FirmHas ==
  ASSUME NEW a, NEW p
  PROVE  LET b == Firm(a, p)
         IN  /\ b.claims = a.claims /\ b.loose = a.loose \ { p } /\ b.files = a.files /\ b.links = a.links
             /\ Rooted(a) => Rooted(b)
             /\ \A e, q : q # p /\ Fits(e, q, a) => Fits(e, q, b)
             /\ \A e : Fits(e, p, a) /\ (e.start # 0 => << p, e.start >> \in a.claims) => Fits(e, p, b)
<1> DEFINE b == Firm(a, p)
<1>1. b.claims = a.claims /\ b.loose = a.loose \ { p } /\ b.files = a.files /\ b.links = a.links
  BY DEF Firm, Accord
<1> HIDE DEF b
<1>2. Rooted(a) => Rooted(b)
  BY <1>1 DEF Rooted
<1>3. \A e, q : q # p /\ Fits(e, q, a) => Fits(e, q, b)
  BY <1>1 DEF Fits
<1>4. \A e : Fits(e, p, a) /\ (e.start # 0 => << p, e.start >> \in a.claims) => Fits(e, p, b)
  BY <1>1 DEF Fits, NamesChain
<1> QED
  BY <1>1, <1>2, <1>3, <1>4 DEF b

\* A window that has the entry right.
LEMMA WindowFirm ==
  ASSUME NEW v, NEW a, Holds(v, a), ~v.dead, v.dirty, v.sector \in Sectors, NEW p, NEW i, p = << v.sector, i >>,
         i \in DOMAIN v.buffer.entries /\ v.buffer.entries[i].start # 0 =>
           << p, v.buffer.entries[i].start >> \in a.claims
  PROVE  Respects(Logical(v), Firm(a, p)) /\ WindowFits(v, Firm(a, p))
<1> DEFINE b == Firm(a, p)
           d == Logical(v)
<1>1. /\ b.claims = a.claims /\ b.loose = a.loose \ { p } /\ b.files = a.files /\ b.links = a.links
      /\ \A e, q : q # p /\ Fits(e, q, a) => Fits(e, q, b)
      /\ \A e : Fits(e, p, a) /\ (e.start # 0 => << p, e.start >> \in a.claims) => Fits(e, p, b)
  BY FirmHas
<1> HIDE DEF b
<1>2. Respects(d, a) /\ WindowFits(v, a) /\ VolumeOK(v)
  BY DEF Holds, Intact
<1>3. d[v.sector] = v.buffer
  BY <1>2, CardsOK DEF Logical, IsCard
<1> HIDE DEF d
<1>4. EntriesFit(d, b)
  <2> SUFFICES ASSUME NEW s \in DataSectors, NEW j \in DOMAIN d[s].entries
               PROVE  Fits(d[s].entries[j], << s, j >>, b)
    BY DEF EntriesFit
  <2>1. Fits(d[s].entries[j], << s, j >>, a)
    BY <1>2 DEF Respects, EntriesFit
  <2>2. CASE << s, j >> = p
    <3>1. s = v.sector /\ j = i
      BY <2>2
    <3> QED
      BY <1>1, <1>3, <2>1, <2>2, <3>1
  <2> QED
    BY <1>1, <2>1, <2>2
<1>5. WindowFits(v, b)
  <2> SUFFICES ASSUME v.sector \in DataSectors, NEW j \in DOMAIN v.buffer.entries
               PROVE  Fits(v.buffer.entries[j], << v.sector, j >>, b)
    BY DEF WindowFits
  <2>1. Fits(v.buffer.entries[j], << v.sector, j >>, a)
    BY <1>2 DEF WindowFits
  <2>2. CASE << v.sector, j >> = p
    <3>1. j = i
      BY <2>2
    <3> QED
      BY <1>1, <2>1, <2>2, <3>1
  <2> QED
    BY <1>1, <2>1, <2>2
<1>6. Respects(d, b)
  BY <1>1, <1>2, <1>4 DEF Respects, LinksKept
<1> QED
  BY <1>5, <1>6 DEF b, d

\* Once it is on the card the entry is firm.
LEMMA SyncFsFirm ==
  ASSUME NEW v, NEW a, NEW p, Holds(v, a),
         ~v.dead => Respects(Logical(v), Firm(a, p)) /\ WindowFits(v, Firm(a, p)),
         NEW w, w = SyncFs(v), w.result = "OK", ~w.dead
  PROVE  Holds(w, Firm(a, p))
<1> DEFINE b == Firm(a, p)
           d == Logical(v)
           e == Logical(w)
<1>1. /\ Holds(w, a) /\ VolumeOK(w) /\ ~w.dirty /\ ~v.dead /\ SameData(d, e)
      /\ (w.sector = v.sector /\ w.buffer = v.buffer) \/ w.sector \notin DataSectors
  BY SyncFsHolds
<1>2. Rooted(b)
  BY FirmHas DEF Holds, Intact
<1>3. Respects(d, b) /\ WindowFits(v, b)
  BY <1>1
<1>4. e = w.disk
  BY <1>1 DEF Logical
<1> HIDE DEF b, d, e
<1>5. Respects(e, b)
  <2>1. TableSound(e) /\ HeadsApart(e, b.claims) /\ LinksKept(e, b)
    <3>1. \A t \in FatSectors : d[t].links = e[t].links
      BY <1>1 DEF SameData
    <3> QED
      BY <1>2, <1>3, <3>1, LinksDecide DEF Respects
  <2>2. EntriesFit(e, b)
    <3>1. \A s \in DataSectors : e[s] = d[s]
      BY <1>1 DEF SameData
    <3> QED
      BY <1>3, <3>1 DEF Respects, EntriesFit
  <2> QED
    BY <2>1, <2>2 DEF Respects
<1>6. WindowFits(w, b)
  BY <1>1, <1>3 DEF WindowFits
<1>7. b.loose = {} => Mountable(w.disk)
  BY <1>2, <1>4, <1>5, RespectsMountable
<1> QED
  BY <1>1, <1>2, <1>5, <1>6, <1>7 DEF Holds, Intact, b, e

\* A window that is nowhere on the card cannot be written.
LEMMA SyncFsNowhere ==
  ASSUME NEW v, VolumeOK(v), v.dirty, v.sector \notin Sectors
  PROVE  SyncFs(v).result # "OK"
<1> DEFINE x == DiskWrite(v, v.sector, v.buffer)
           u == [ x EXCEPT !.dirty = x.result # "OK" ]
<1>1. SyncWindow(v) = u
  BY DEF SyncWindow, With
<1>2. x.result = "DISK_ERR"
  BY Fields DEF DiskWrite, Burn, TableFields
<1>3. u.result = x.result
  <2> HIDE DEF x
  <2>1. u.result = IF "result" = "dirty" THEN x.result # "OK" ELSE x.result
    OBVIOUS
  <2> QED
    BY <2>1
<1> HIDE DEF u
<1> QED
  BY <1>1, <1>2, <1>3 DEF SyncFs, Then

\* What sync does to the window.
LEMMA UpdateDoes ==
  ASSUME NEW v, VolumeOK(v), LooseOK(v.o)
  PROVE  LET w == Update(v)
         IN  /\ VolumeOK(w) /\ LooseOK(w.o) /\ SameBut(v, w, { "buffer", "dirty", "o" }) /\ w.dirty = TRUE
             /\ SameBut(v.o, w.o, { "written" }) /\ w.o.written = FALSE
             /\ w.buffer.links = v.buffer.links
             /\ \A i \in DOMAIN w.buffer.entries :
                  /\ i \in DOMAIN v.buffer.entries
                  /\ i # v.o.slot => w.buffer.entries[i] = v.buffer.entries[i]
                  /\ i = v.o.slot => /\ w.buffer.entries[i].start = v.o.start
                                     /\ w.buffer.entries[i].kind = v.buffer.entries[i].kind
<1> DEFINE w == Update(v)
           slot == v.o.slot
           old == v.buffer.entries[slot]
           size == v.o.size
           start == v.o.start
           e == [ old EXCEPT !.size = size, !.start = start ]
           x == [ v.o EXCEPT !.written = FALSE ]
<1>1. VolumeFields \subseteq DOMAIN v /\ v = [ f \in DOMAIN v |-> v[f] ] /\ Belongs(v.sector, v.buffer)
  BY Fields DEF VolumeOK
<1>2. VolumeOK(w) /\ LooseOK(w.o) /\ SameBut(v.o, w.o, { "written" })
  BY UpdateStays DEF FileStays
<1>3. x.written = FALSE
  BY ClosedFields DEF LooseOK, HasFields
<1>4. CASE slot \in DOMAIN v.buffer.entries
  <2> DEFINE es == [ v.buffer.entries EXCEPT ![slot] = e ]
             b == [ v.buffer EXCEPT !.entries = es ]
  <2>1. e.start = start /\ e.kind = old.kind
    <3>1. EntryOK(old)
      BY <1>1, <1>4 DEF Belongs
    <3> HIDE DEF old, size, start
    <3> QED
      BY <3>1 DEF EntryOK, HasFields
  <2>2. w = [ v EXCEPT !.buffer.entries[slot] = e, !.dirty = TRUE, !.o.written = FALSE ]
    BY <1>4 DEF Update
  <2> HIDE DEF e, w
  <2>3. b.entries = es /\ b.links = v.buffer.links
    <3> HIDE DEF es
    <3> QED
      BY <1>1 DEF Belongs, HasFields
  <2>4. \A i \in DOMAIN es : i \in DOMAIN v.buffer.entries /\ es[i] = IF i = slot THEN e ELSE v.buffer.entries[i]
    <3> HIDE DEF slot
    <3> QED
      BY <1>1, <1>4 DEF Belongs
  <2>5. w = [ v EXCEPT !.buffer = b, !.dirty = TRUE, !.o = x ]
    BY <1>1, <1>4, <2>2 DEF VolumeFields, TableFields, Belongs, HasFields
  <2> HIDE DEF b, es, x
  <2>6. SameBut(v, w, { "buffer", "dirty", "o" }) /\ w.dirty = TRUE /\ w.buffer = b /\ w.o = x
    BY <1>1, <2>5 DEF SameBut, VolumeFields, TableFields
  <2> HIDE DEF old, start, slot
  <2>7. \A i \in DOMAIN w.buffer.entries :
          /\ i \in DOMAIN v.buffer.entries
          /\ i # slot => w.buffer.entries[i] = v.buffer.entries[i]
          /\ i = slot => w.buffer.entries[i] = e
    BY <2>3, <2>4, <2>6
  <2> QED
    BY <1>2, <1>3, <2>1, <2>3, <2>6, <2>7 DEF old, start, slot, w
<1>5. CASE slot \notin DOMAIN v.buffer.entries
  <2>1. w = [ v EXCEPT !.dirty = TRUE, !.o.written = FALSE ]
    BY <1>5 DEF Update
  <2> HIDE DEF w
  <2>2. SameBut(v, w, { "dirty", "o" }) /\ w.dirty = TRUE /\ w.buffer = v.buffer /\ w.o = x
    BY <1>1, <2>1 DEF SameBut, VolumeFields, TableFields
  <2> HIDE DEF x
  <2>3. SameBut(v, w, { "buffer", "dirty", "o" })
    BY <2>2 DEF SameBut
  <2> QED
    BY <1>2, <1>3, <1>5, <2>2, <2>3 DEF w
<1> QED
  BY <1>4, <1>5

\* The entry it writes is the file's own.
LEMMA UpdateHolds ==
  ASSUME NEW v, NEW a, NEW p, Holds(v, a), LooseOK(v.o), v.o.write, Tied(v.o, a, p),
         p = << v.o.ownSector, v.o.slot >>, v.sector \in Sectors => v.sector = v.o.ownSector
  PROVE  LET w == Update(v)
         IN  /\ Holds(w, a) /\ VolumeOK(w) /\ LooseOK(w.o) /\ SameBut(v, w, { "buffer", "dirty", "o" })
             /\ SameBut(v.o, w.o, { "written" }) /\ w.o.written = FALSE
             /\ w.dirty = TRUE /\ w.sector = v.sector
             /\ v.sector \in Sectors /\ ~w.dead => Respects(Logical(w), Firm(a, p)) /\ WindowFits(w, Firm(a, p))
<1> DEFINE w == Update(v)
           slot == v.o.slot
<1>1. VolumeOK(v)
  BY DEF Holds, Intact
<1>2. /\ VolumeOK(w) /\ LooseOK(w.o) /\ SameBut(v, w, { "buffer", "dirty", "o" }) /\ w.dirty = TRUE
      /\ SameBut(v.o, w.o, { "written" }) /\ w.o.written = FALSE
      /\ w.buffer.links = v.buffer.links
      /\ \A i \in DOMAIN w.buffer.entries :
           /\ i \in DOMAIN v.buffer.entries
           /\ i # slot => w.buffer.entries[i] = v.buffer.entries[i]
           /\ i = slot => /\ w.buffer.entries[i].start = v.o.start
                          /\ w.buffer.entries[i].kind = v.buffer.entries[i].kind
  BY <1>1, UpdateDoes
<1> HIDE DEF w
<1>3. w.disk = v.disk /\ w.dead = v.dead /\ w.sector = v.sector
  BY <1>1, <1>2, Fields DEF SameBut, TableFields
<1>4. p \in a.files /\ (v.o.start # 0 => << p, v.o.start >> \in a.claims)
  BY DEF Tied
<1>5. ASSUME ~v.dead, v.sector \in DataSectors, NEW i \in DOMAIN w.buffer.entries
      PROVE  \/ Fits(w.buffer.entries[i], << v.sector, i >>, a)
             \/ i \in DOMAIN v.buffer.entries /\ w.buffer.entries[i] = v.buffer.entries[i]
  <2>1. CASE i = slot
    <3>1. v.sector = v.o.ownSector
      BY <1>5, SectorPlaces
    <3>2. << v.sector, i >> = p
      BY <2>1, <3>1
    <3>3. Fits(v.buffer.entries[i], << v.sector, i >>, a)
      BY <1>2, <1>5 DEF Holds, Intact, WindowFits
    <3>4. v.buffer.entries[i].kind # "dir"
      BY <1>4, <3>2, <3>3 DEF Fits
    <3> HIDE DEF slot
    <3> QED
      BY <1>2, <1>4, <2>1, <3>2, <3>4 DEF Fits, NamesChain
  <2> QED
    BY <1>2, <2>1
<1>6. Holds(w, a)
  BY <1>2, <1>3, <1>5, EntriesHold
<1>7. ASSUME v.sector \in Sectors, ~w.dead
      PROVE  Respects(Logical(w), Firm(a, p)) /\ WindowFits(w, Firm(a, p))
  <2>1. p = << w.sector, slot >> /\ w.sector \in Sectors
    BY <1>3, <1>7
  <2>2. slot \in DOMAIN w.buffer.entries /\ w.buffer.entries[slot].start # 0 =>
          << p, w.buffer.entries[slot].start >> \in a.claims
    BY <1>2, <1>4
  <2> HIDE DEF slot
  <2> QED
    BY <1>2, <1>6, <1>7, <2>1, <2>2, WindowFirm
<1> QED
  BY <1>2, <1>3, <1>6, <1>7 DEF w

\* The null pointer has led to the entry, or nowhere.
Led(o) == o.dirSector \in Sectors => o.dirSector = o.ownSector

\* From v to w the file whose entry is at p is brought to the card, or that fails.
Syncs(v, a, p, w) ==
  /\ Holds(w, a) /\ LooseOK(w.o) /\ SameBut(v, w, FileFields) /\ SameBut(v.o, w.o, SyncFields)
  /\ ~v.o.written => w.result = v.o.result /\ w.o = v.o
  /\ v.o.written => w.o.result = w.result
  /\ v.o.written /\ w.result = "OK" => w.o.written = FALSE /\ (~w.dead => Holds(w, Firm(a, p)))

\* The window goes to where the null pointer says.
LEMMA MoveWindowCalm ==
  ASSUME NEW v, NEW a, Holds(v, a), LooseOK(v.o), NEW s
  PROVE  LET w == MoveWindow(v, s)
         IN  Calm(v, a, w) /\ VolumeOK(w) /\ w.o = v.o /\ (w.result = "OK" => w.sector = s)
<1> DEFINE w == MoveWindow(v, s)
<1>1. VolumeOK(v)
  BY DEF Holds, Intact
<1>2. /\ Stays(v, w) /\ VolumeOK(w) /\ SameBut(v, w, WindowFields) /\ (w.result = "OK" => w.sector = s)
      /\ Seen(v, w)
  BY <1>1, MoveWindowStays, MoveWindowSeen
<1> HIDE DEF w
<1>3. SameBut(v, w, ChainFields)
  BY <1>2 DEF SameBut, ChainFields
<1>4. w.o = v.o
  BY <1>1, <1>2, <1>3, TableKeepsFile
<1>5. Holds(w, a)
  BY <1>2, SeenHolds
<1>6. SameBut(v.o, w.o, CalmFields) /\ SameBut(v, w, FileFields)
  BY <1>3, <1>4 DEF SameBut, FileFields
<1> QED
  BY <1>2, <1>4, <1>5, <1>6 DEF Calm, w

LEMMA SyncFsCalm ==
  ASSUME NEW v, NEW a, Holds(v, a), LooseOK(v.o)
  PROVE  LET w == SyncFs(v) IN Calm(v, a, w) /\ VolumeOK(w) /\ w.o = v.o
<1> DEFINE w == SyncFs(v)
<1>1. VolumeOK(v)
  BY DEF Holds, Intact
<1>2. Stays(v, w) /\ VolumeOK(w) /\ SameBut(v, w, ChainFields) /\ Holds(w, a)
  BY <1>1, SyncFsStays, SyncFsHolds
<1> HIDE DEF w
<1>3. w.o = v.o
  BY <1>1, <1>2, TableKeepsFile
<1>4. SameBut(v.o, w.o, CalmFields) /\ SameBut(v, w, FileFields)
  BY <1>2, <1>3 DEF SameBut, FileFields
<1> QED
  BY <1>2, <1>3, <1>4 DEF Calm, w

LEMMA SyncSyncs ==
  ASSUME NEW v, NEW a, NEW p, Holds(v, a), LooseOK(v.o),
         v.o.written => v.o.write /\ Tied(v.o, a, p) /\ p = Own(v.o) /\ Led(v.o)
  PROVE  Syncs(v, a, p, Sync(v))
<1> DEFINE b == WriteBack(v)
           m == MoveWindow(b, b.o.dirSector)
           u == Update(m)
           s == SyncFs(u)
           c == IF b.result = "OK" THEN m ELSE b
           d == IF c.result = "OK" THEN Update(c) ELSE c
           e == IF d.result = "OK" THEN SyncFs(d) ELSE d
           r == e.result
           k == KeepResult(e)
           w == Sync(v)
<1>1. VolumeOK(v)
  BY DEF Holds, Intact
<1>2. (v.o.written /\ w = k) \/ (~v.o.written /\ w = Fails(v, v.o.result))
  BY DEF Sync, Then
<1> HIDE DEF w
<1>3. CASE ~v.o.written
  <2>1. Calm(v, a, w) /\ w.o = v.o /\ w.result = v.o.result
    BY <1>1, <1>2, <1>3, CalmSame, FailsFile
  <2>2. SameBut(v.o, w.o, SyncFields)
    BY <2>1 DEF SameBut
  <2> QED
    BY <1>3, <2>1, <2>2 DEF Syncs, Calm, w
<1>4. CASE v.o.written
  <2>1. Calm(v, a, b) /\ SameBut(v.o, b.o, { "dirty" }) /\ VolumeOK(b)
    BY <1>1, WriteBackCalm, WriteBackStays
  <2> HIDE DEF b
  <2>2. Holds(b, a) /\ LooseOK(b.o) /\ b.o.write = v.o.write /\ b.o.start = v.o.start
        /\ b.o.ownSector = v.o.ownSector /\ b.o.dirSector = v.o.dirSector /\ b.o.slot = v.o.slot
    BY <2>1, ClosedFields DEF Calm, SameBut, LooseOK, HasFields
  <2>3. Calm(b, a, m) /\ VolumeOK(m) /\ m.o = b.o /\ (m.result = "OK" => m.sector = b.o.dirSector)
    BY <2>2, MoveWindowCalm
  <2> HIDE DEF m
  <2>4. Holds(m, a) /\ LooseOK(m.o) /\ m.o.write /\ Tied(m.o, a, p) /\ p = << m.o.ownSector, m.o.slot >>
        /\ SameBut(v.o, m.o, SyncFields) /\ SameBut(v, m, FileFields)
    <3>1. Tied(m.o, a, p)
      BY <1>4, <2>2, <2>3 DEF Tied
    <3>2. SameBut(v.o, m.o, SyncFields)
      BY <2>1, <2>3 DEF SameBut, SyncFields
    <3>3. SameBut(v, m, FileFields)
      BY <2>1, <2>3 DEF Calm, SameBut
    <3> QED
      BY <1>4, <2>2, <2>3, <3>1, <3>2, <3>3 DEF Calm, Own
  <2>5. ASSUME m.result = "OK"
        PROVE  /\ Holds(u, a) /\ VolumeOK(u) /\ LooseOK(u.o) /\ SameBut(m, u, { "buffer", "dirty", "o" })
               /\ SameBut(m.o, u.o, { "written" }) /\ u.o.written = FALSE
               /\ u.dirty = TRUE /\ u.sector = m.sector
               /\ m.sector \in Sectors /\ ~u.dead => Respects(Logical(u), Firm(a, p)) /\ WindowFits(u, Firm(a, p))
    <3>1. m.sector \in Sectors => m.sector = m.o.ownSector
      BY <1>4, <2>2, <2>3, <2>5 DEF Led
    <3> QED
      BY <2>4, <3>1, UpdateHolds
  <2> HIDE DEF u
  <2>6. ASSUME m.result = "OK" PROVE u.result = "OK"
    BY <2>3, <2>5, <2>6, Fields DEF SameBut, TableFields
  <2>7. ASSUME m.result = "OK"
        PROVE  /\ Calm(u, a, s) /\ VolumeOK(s) /\ s.o = u.o
               /\ s.result = "OK" /\ ~s.dead => Holds(s, Firm(a, p))
    <3>1. Calm(u, a, s) /\ VolumeOK(s) /\ s.o = u.o
      BY <2>5, <2>7, SyncFsCalm
    <3>2. ASSUME s.result = "OK", ~s.dead PROVE Holds(s, Firm(a, p))
      <4>1. u.sector \in Sectors
        BY <2>5, <2>7, <3>2, SyncFsNowhere
      <4> QED
        BY <2>5, <2>7, <3>2, <4>1, SyncFsFirm
    <3> QED
      BY <3>1, <3>2
  <2> HIDE DEF s
  <2>8. \/ e = b /\ b.result # "OK"
        \/ e = m /\ m.result # "OK"
        \/ e = s /\ m.result = "OK"
    BY <2>6 DEF u, s
  <2> HIDE DEF e
  <2>9. /\ Holds(e, a) /\ VolumeOK(e) /\ LooseOK(e.o) /\ SameBut(v.o, e.o, SyncFields) /\ SameBut(v, e, FileFields)
        /\ e.result = "OK" => e.o.written = FALSE /\ (~e.dead => Holds(e, Firm(a, p)))
    <3>1. CASE e = b /\ b.result # "OK"
      <4>1. SameBut(v.o, b.o, SyncFields)
        BY <2>1 DEF SameBut, SyncFields
      <4> QED
        BY <2>1, <2>2, <3>1, <4>1 DEF Calm
    <3>2. CASE e = m /\ m.result # "OK"
      BY <2>3, <2>4, <3>2
    <3>3. CASE e = s /\ m.result = "OK"
      <4>1. SameBut(v.o, s.o, SyncFields)
        BY <2>4, <2>5, <2>7, <3>3 DEF SameBut, SyncFields
      <4>2. SameBut(v, s, FileFields)
        BY <2>4, <2>5, <2>7, <3>3 DEF Calm, SameBut, FileFields, ChainFields, WindowFields
      <4> QED
        BY <2>5, <2>7, <3>3, <4>1, <4>2 DEF Calm
    <3> QED
      BY <2>8, <3>1, <3>2, <3>3
  <2>10. k = [ g \in DOMAIN k |-> k[g] ] /\ SameBut(e, k, { "o", "result" }) /\ k.o = [ e.o EXCEPT !.result = r ]
         /\ k.result = r /\ k.dead = e.dead
    BY <2>9, Fields DEF KeepResult, SameBut, VolumeFields, TableFields
  <2> HIDE DEF k
  <2>11. LooseOK(k.o) /\ SameBut(e.o, k.o, { "result" }) /\ k.o.result = r
    BY <2>9, <2>10, KeepResultStays
  <2>12. \A x : Holds(e, x) => Holds(k, x)
    BY <2>9, <2>10, OuterSeen, SeenHolds DEF SameBut, OuterFields
  <2>13. SameBut(v.o, k.o, SyncFields)
    BY <2>9, <2>11 DEF SameBut, SyncFields
  <2>14. SameBut(v, k, FileFields)
    BY <2>9, <2>10 DEF SameBut, FileFields, ChainFields, WindowFields
  <2>15. k.o.written = e.o.written
    BY <2>9, <2>11, ClosedFields DEF SameBut, LooseOK, HasFields
  <2> QED
    BY <1>2, <1>4, <2>9, <2>10, <2>11, <2>12, <2>13, <2>14, <2>15 DEF Syncs, w
<1> QED
  BY <1>3, <1>4

-----------------------------------------------------------------------------
(* The destructor (2806). *)

\* From a to b the file whose entry is at p is done with.
Leaves(a, b, p) ==
  /\ b.claims = a.claims /\ b.loose = a.loose /\ b.files = a.files \ { p }
  /\ \A h \in a.claims :
       h[1] \in (a.files \cup { RootPlace }) \ { p } => \A n, c : At(a.links, h[2], n, c) => At(b.links, h[2], n, c)

\* A file whose entry is up to date may be left as it is.
LEMMA LeaveHolds ==
  ASSUME NEW v, NEW a, Holds(v, a), ~v.dead, NEW p, p # RootPlace
  PROVE  \E b : Leaves(a, b, p) /\ Holds(v, b)
<1> DEFINE F == a.files \ { p }
           R == { h \in a.claims : h[1] \in F \cup { RootPlace } }
           S == { h[2] : h \in R } \X Nat
           b == Accord(a.claims, a.loose, F, Crossed(a.links, S))
<1>1. Chained(a.links) /\ Rooted(a)
  BY KeptChained DEF Holds, Intact
<1>2. b.claims = a.claims /\ b.files = F /\ b.loose = a.loose /\ b.links = Crossed(a.links, S)
  BY DEF Accord
<1>3. Rooted(b)
  <2>1. ASSUME NEW s, NEW m, << s, m >> \in S
        PROVE  /\ \E h \in a.claims : h[2] = s /\ h[1] \in F \cup { RootPlace }
               /\ m \in Nat /\ (m # 0 => << s, m - 1 >> \in S)
    BY <2>1
  <2>2. \A l \in a.links : l[1] \in Clusters /\ l[2] \in Clusters
    BY <1>1 DEF Rooted
  <2>3. RootClaim \in a.claims
    BY <1>1 DEF Rooted
  <2> HIDE DEF F, S
  <2> QED
    BY <1>1, <2>1, <2>2, <2>3, CrossedHangTogether
<1>4. Leaves(a, b, p)
  <2> SUFFICES ASSUME NEW h \in a.claims, h[1] \in (a.files \cup { RootPlace }) \ { p },
                      NEW n, NEW c, At(a.links, h[2], n, c)
               PROVE  At(b.links, h[2], n, c)
    BY <1>2 DEF Leaves
  <2>1. h \in R
    OBVIOUS
  <2>2. n \in Nat
    BY DEF At
  <2>3. \A m \in Nat : m < n => << h[2], m >> \in S
    BY <2>1
  <2> HIDE DEF S, b
  <2> QED
    BY <1>1, <1>2, <2>2, <2>3, CrossedAt
<1> HIDE DEF b, S, R
<1>5. \A e, q : Fits(e, q, a) => Fits(e, q, b)
  BY <1>2 DEF Fits
<1>6. b.links \subseteq a.links
  BY <1>2 DEF Crossed
<1>7. Holds(v, b)
  <2>1. ~v.dead => Respects(Logical(v), b) /\ WindowFits(v, b)
    BY <1>2, <1>5, <1>6 DEF Holds, Intact, Respects, EntriesFit, WindowFits, LinksKept
  <2>2. b.loose = {} => Mountable(v.disk)
    BY <1>2 DEF Holds, Intact
  <2> QED
    BY <1>3, <2>1, <2>2 DEF Holds, Intact
<1> QED
  BY <1>4, <1>7

\* From v to w the file is closed, or that fails; then its entry in the table of open files stays.
Closes(v, a, p, w) ==
  /\ Holds(w, a) /\ SameBut(v, w, FileFields \cup { "locks" })
  /\ w.o.open = FALSE /\ w.o.shortened = v.o.shortened
  /\ ~v.o.written => w.result = v.o.result
  /\ v.o.written /\ w.result = "OK" /\ ~w.dead => Holds(w, Firm(a, p))
  /\ w.result # "OK" => w.locks = v.locks
  /\ w.result = "OK" =>
       w.locks = IF v.locks[v.o.key] \in { 1, WriteOpen } THEN [ k \in DOMAIN v.locks \ { v.o.key } |-> v.locks[k] ]
                 ELSE [ v.locks EXCEPT ![v.o.key] = v.locks[v.o.key] - 1 ]

LEMMA CloseCloses ==
  ASSUME NEW v, NEW a, NEW p, Holds(v, a), LooseOK(v.o),
         v.o.written => v.o.write /\ Tied(v.o, a, p) /\ p = Own(v.o) /\ Led(v.o)
  PROVE  Closes(v, a, p, Close(v))
<1> DEFINE opens == v.locks[v.o.key]
           left == IF opens \in { 1, WriteOpen } THEN [ k \in DOMAIN v.locks \ { v.o.key } |-> v.locks[k] ]
                   ELSE [ v.locks EXCEPT ![v.o.key] = opens - 1 ]
           s == Sync(v)
           x == [ s EXCEPT !.locks = left ]
           y == IF s.result = "OK" THEN x ELSE s
           w == Close(v)
<1>1. w = [ y EXCEPT !.o.open = FALSE ]
  BY DEF Close, Then
<1>2. Syncs(v, a, p, s)
  BY SyncSyncs
<1> HIDE DEF w, s
<1>3. Holds(s, a) /\ VolumeOK(s) /\ LooseOK(s.o) /\ SameBut(v, s, FileFields) /\ VolumeOK(v)
  BY <1>2 DEF Syncs, Holds, Intact
<1>4. s.locks = v.locks
  BY <1>3, Fields DEF SameBut, FileFields, ChainFields, WindowFields, VolumeFields
<1> HIDE DEF left
<1>5. x = [ f \in DOMAIN x |-> x[f] ] /\ SameBut(s, x, { "locks" }) /\ x.o = s.o /\ x.locks = left
      /\ x.result = s.result /\ x.dead = s.dead
  BY <1>3, Fields DEF SameBut, VolumeFields, TableFields
<1> HIDE DEF x
<1>6. /\ y = [ f \in DOMAIN y |-> y[f] ] /\ SameBut(s, y, { "locks" }) /\ y.o = s.o
      /\ y.result = s.result /\ y.dead = s.dead /\ VolumeFields \subseteq DOMAIN y
      /\ y.locks = IF y.result = "OK" THEN left ELSE v.locks
  BY <1>3, <1>4, <1>5, Fields DEF SameBut
<1> HIDE DEF y
<1>7. w = [ f \in DOMAIN w |-> w[f] ] /\ SameBut(y, w, { "o" }) /\ w.o = [ y.o EXCEPT !.open = FALSE ]
      /\ w.result = s.result /\ w.dead = s.dead /\ w.locks = y.locks
  BY <1>1, <1>6 DEF SameBut, VolumeFields, TableFields
<1>8. \A z : Holds(s, z) => Holds(w, z)
  <2>1. SameBut(s, w, OuterFields)
    BY <1>6, <1>7 DEF SameBut, OuterFields
  <2> QED
    BY <1>3, <1>7, <2>1, OuterSeen, SeenHolds
<1>9. w.o.open = FALSE /\ w.o.shortened = v.o.shortened
  <2> DEFINE q == s.o
             r == w.o
  <2>1. r = [ q EXCEPT !.open = FALSE ] /\ LooseOK(q) /\ SameBut(v.o, q, SyncFields) /\ LooseOK(v.o)
    BY <1>2, <1>3, <1>6, <1>7 DEF Syncs
  <2> HIDE DEF q, r
  <2>2. r.open = FALSE /\ r.shortened = v.o.shortened
    BY <2>1, ClosedFields DEF SameBut, SyncFields, LooseOK, HasFields
  <2> QED
    BY <2>2 DEF r
<1>10. SameBut(v, w, FileFields \cup { "locks" })
  BY <1>3, <1>6, <1>7 DEF SameBut, FileFields
<1> HIDE DEF opens
<1>11. /\ ~v.o.written => w.result = v.o.result
       /\ v.o.written /\ w.result = "OK" /\ ~w.dead => Holds(w, Firm(a, p))
  BY <1>2, <1>7, <1>8 DEF Syncs
<1>12. w.locks = IF w.result = "OK" THEN left ELSE v.locks
  BY <1>6, <1>7
<1> QED
  BY <1>3, <1>8, <1>9, <1>10, <1>11, <1>12 DEF Closes, w, left, opens

-----------------------------------------------------------------------------
(* The constructor of cFile. *)

\* A path of one name stays in the root directory.
LEMMA FlatWalk ==
  ASSUME NEW v, NEW a, Holds(v, a), a.loose \subseteq a.files, NEW path, Names(path), Len(path) = 1
  PROVE  Walk(v, path).dir.start = 0
<1> DEFINE v0 == [ v EXCEPT !.dir = NoDir, !.result = "OK" ]
           p == FollowPath(v, path)
           u(k) == Walking!Passes(v0, path)[k]
<1>1. p = u(1)
  BY DEF FollowPath
<1>2. u(0) = v0 /\ u(0 + 1) = FollowPass(u(0), path, 0 + 1)
  BY Walking!PassByPass
<1>3. VolumeOK(v)
  BY DEF Holds, Intact
<1>4. Seen(v, v0) /\ VolumeOK(v0) /\ DirOK(v0.dir) /\ v0.dir.start = 0 /\ v0.result = "OK"
  <2>1. v0 = [ f \in DOMAIN v0 |-> v0[f] ] /\ SameBut(v, v0, { "dir", "result" }) /\ v0.dir = NoDir /\ v0.result = "OK"
    BY <1>3, Fields DEF SameBut, VolumeFields, TableFields
  <2> HIDE DEF v0
  <2>2. SameBut(v, v0, OuterFields)
    BY <2>1 DEF SameBut, OuterFields
  <2>3. Seen(v, v0)
    BY <1>3, <2>1, <2>2, OuterSeen
  <2>4. NoDir.start = 0
    BY DEF NoDir
  <2> QED
    BY <2>1, <2>3, <2>4, DirFields DEF Seen
<1> HIDE DEF u, v0
<1>5. Holds(v0, a) /\ Headed(v0.dir, a)
  BY <1>4, SeenHolds DEF Headed
<1>6. \E r : r # "OK" /\ p = ButNoFile(Find(v0, path[1]), r)
  <2> DEFINE r == IF 1 < Len(path) THEN "NO_PATH" ELSE "NO_FILE"
  <2>1. r # "OK"
    OBVIOUS
  <2>2. FollowPass(v0, path, 1) = ButNoFile(Find(v0, path[1]), r)
    BY <1>4 DEF FollowPass, Then
  <2> HIDE DEF r
  <2> QED
    BY <1>1, <1>2, <2>1, <2>2
<1>7. p.dir.start = 0 /\ VolumeOK(p)
  <2>1. PICK r : r # "OK" /\ p = ButNoFile(Find(v0, path[1]), r)
    BY <1>6
  <2>2. p.dir.start = v0.dir.start
    BY <1>4, <1>5, <2>1, FindReached
  <2>3. Seen(v, p)
    BY FollowPathLooks
  <2> QED
    BY <1>4, <2>2, <2>3 DEF Seen
<1> HIDE DEF p
<1>8. Walk(v, path).dir = p.dir
  <2> DEFINE w == [ p EXCEPT !.result = "OK", !.found = p.result = "OK",
                             !.misled = @ \/ (p.result # "OK" /\ ~OnBlank(p)) ]
  <2>1. Walk(v, path) = w
    BY DEF Walk, With, p
  <2>2. w.dir = p.dir
    BY <1>7, Fields DEF VolumeFields, TableFields
  <2> QED
    BY <2>1, <2>2
<1> QED
  BY <1>7, <1>8

\* p becomes the place of an open file.
Joins(a, b, p) ==
  /\ b.claims = a.claims /\ b.loose = a.loose /\ b.files = a.files \cup { p }
  /\ \A h \in a.claims : \A n, c : At(a.links, h[2], n, c) => At(b.links, h[2], n, c)

LEMMA JoinHolds ==
  ASSUME NEW v, NEW a, Holds(v, a), ~v.dead, v.sector \in DataSectors, NEW i,
         i \in DOMAIN v.buffer.entries => v.buffer.entries[i].kind # "dir",
         NEW n, NEW c, At(LinksOf(Logical(v)), RootCluster, n, c)
  PROVE  LET p == << v.sector, i >>
         IN  \E b : Joins(a, b, p) /\ Holds(v, b) /\ At(b.links, RootCluster, n, c)
<1> DEFINE p == << v.sector, i >>
           L == LinksOf(Logical(v))
           X == Crossed(L, { RootCluster } \X Nat)
           F == a.files \cup { p }
           b == Accord(a.claims, a.loose, F, a.links \cup X)
<1>1. b.claims = a.claims /\ b.files = F /\ b.loose = a.loose /\ b.links = a.links \cup X
  BY DEF Accord
<1>2. Chained(L) /\ Rooted(a) /\ VolumeOK(v) /\ RootClaim \in a.claims
  BY SoundLinks DEF Holds, Intact, Respects, Rooted
<1>3. \A l \in L : l[1] \in Clusters /\ l[2] \in Clusters
  BY DEF LinksOf
<1>4. Rooted(Accord(a.claims, a.loose, F, X))
  <2> DEFINE S == { RootCluster } \X Nat
  <2>1. ASSUME NEW s, NEW m, << s, m >> \in S
        PROVE  /\ \E h \in a.claims : h[2] = s /\ h[1] \in F \cup { RootPlace }
               /\ m \in Nat /\ (m # 0 => << s, m - 1 >> \in S)
    <3>1. s = RootCluster /\ m \in Nat
      BY <2>1
    <3>2. RootClaim[1] = RootPlace /\ RootClaim[2] = RootCluster
      BY DEF RootClaim
    <3>3. m # 0 => << s, m - 1 >> \in S
      BY <3>1
    <3> HIDE DEF S, F
    <3> QED
      BY <1>2, <3>1, <3>2, <3>3
  <2> HIDE DEF S, F, L
  <2> QED
    BY <1>2, <1>3, <2>1, CrossedHangTogether DEF S
<1>5. At(X, RootCluster, n, c)
  <2>1. n \in Nat
    BY DEF At
  <2>2. \A m \in Nat : m < n => << RootCluster, m >> \in { RootCluster } \X Nat
    OBVIOUS
  <2> HIDE DEF L
  <2> QED
    BY <1>2, <2>1, <2>2, CrossedAt DEF L
<1>6. \A l \in X : l \in L
  BY DEF Crossed
<1> HIDE DEF X, F, b
<1>7. Rooted(b)
  <2> DEFINE y == Accord(a.claims, a.loose, F, X)
  <2>1. y.claims = a.claims /\ y.files = F /\ y.links = X
    BY DEF Accord
  <2> HIDE DEF y
  <2>2. Rooted(y)
    BY <1>4 DEF y
  <2>3. a.files \subseteq F
    BY DEF F
  <2>4. ASSUME NEW l \in b.links
        PROVE  /\ l[1] \in Clusters /\ l[2] \in Clusters
               /\ \/ \E h \in b.claims : h[2] = l[1] /\ h[1] \in b.files \cup { RootPlace }
                  \/ \E m \in b.links : m[2] = l[1]
    <3>1. CASE l \in a.links
      BY <1>1, <1>2, <2>3, <3>1 DEF Rooted
    <3>2. CASE l \in X
      BY <1>1, <2>1, <2>2, <3>2 DEF Rooted
    <3> QED
      BY <1>1, <3>1, <3>2
  <2> QED
    BY <1>1, <1>2, <2>4 DEF Rooted
<1>8. At(b.links, RootCluster, n, c) /\ Joins(a, b, p)
  <2>1. \A l \in X : l \in b.links
    BY <1>1
  <2>2. At(b.links, RootCluster, n, c)
    BY <1>5, <2>1, AtMore
  <2>3. \A l \in a.links : l \in b.links
    BY <1>1
  <2>4. \A s, k, d : At(a.links, s, k, d) => At(b.links, s, k, d)
    BY <2>3, AtMore
  <2> QED
    BY <1>1, <2>2, <2>4 DEF Joins, F
<1>9. \A e, q : Fits(e, q, a) /\ (q = p => e.kind # "dir") => Fits(e, q, b)
  BY <1>1 DEF Fits, F
<1>10. WindowFits(v, b)
  <2> SUFFICES ASSUME NEW j \in DOMAIN v.buffer.entries
               PROVE  Fits(v.buffer.entries[j], << v.sector, j >>, b)
    BY DEF WindowFits
  <2>1. Fits(v.buffer.entries[j], << v.sector, j >>, a)
    BY DEF Holds, Intact, WindowFits
  <2>2. << v.sector, j >> = p => j = i
    OBVIOUS
  <2> QED
    BY <1>9, <2>1, <2>2
<1>11. EntriesFit(Logical(v), b)
  <2> SUFFICES ASSUME NEW s \in DataSectors, NEW j \in DOMAIN Logical(v)[s].entries
               PROVE  Fits(Logical(v)[s].entries[j], << s, j >>, b)
    BY DEF EntriesFit
  <2>1. Fits(Logical(v)[s].entries[j], << s, j >>, a)
    BY DEF Holds, Intact, Respects, EntriesFit
  <2>2. ASSUME << s, j >> = p PROVE Logical(v)[s].entries[j].kind # "dir"
    <3>1. s = v.sector /\ j = i
      BY <2>2
    <3>2. Logical(v)[s] = IF v.dirty THEN v.buffer ELSE v.disk[s]
      BY <1>2, <3>1, SectorPlaces, LogicalAt
    <3>3. ~v.dirty => v.disk[s].entries \in { v.buffer.entries, << >> }
      BY <3>1 DEF Holds, Fresh
    <3>4. Logical(v)[s].entries \in { v.buffer.entries, << >> }
      BY <3>2, <3>3
    <3>5. DOMAIN << >> = {}
      OBVIOUS
    <3>6. Logical(v)[s].entries = v.buffer.entries
      BY <3>4, <3>5
    <3> QED
      BY <3>1, <3>6
  <2> HIDE DEF p
  <2> QED
    BY <1>9, <2>1, <2>2
<1>12. Respects(Logical(v), b)
  <2>1. \A l \in L : LinkOn(Logical(v), l[1]) = l[2]
    BY DEF LinksOf
  <2>2. \A l \in b.links : LinkOn(Logical(v), l[1]) = l[2]
    BY <1>1, <1>6, <2>1 DEF Holds, Intact, Respects, LinksKept
  <2> QED
    BY <1>1, <1>11, <2>2 DEF Holds, Intact, Respects, LinksKept
<1>13. Holds(v, b)
  <2>1. b.loose = {} => Mountable(v.disk)
    BY <1>1 DEF Holds, Intact
  <2> QED
    BY <1>7, <1>10, <1>12, <2>1 DEF Holds, Intact
<1> QED
  BY <1>8, <1>13

\* A new object for the entry where a walk stopped.
IsOpened(o, write, key, p, start) ==
  /\ HasFields(o, DOMAIN Closed)
  /\ o.open = TRUE /\ o.write = write /\ o.key = key /\ o.start = start /\ Own(o) = p
  /\ o.position = 0 /\ o.dirty = FALSE /\ o.written = FALSE /\ o.shortened = FALSE /\ o.result = "OK"

\* From v to w a file is opened: w.o is on key in the table of open files, and if it is to be
\* written its entry at p is its own.
Opens(v, a, write, w) ==
  \E i, p, start :
    LET opens == IF << 0, i >> \in DOMAIN v.locks THEN v.locks[<< 0, i >>] ELSE 0
    IN  /\ IsOpened(w.o, write, << 0, i >>, p, start)
        /\ w.locks = Entered(v.locks, << 0, i >>, IF write THEN WriteOpen ELSE opens + 1)
        /\ opens # WriteOpen /\ (write => ~(opens > 0))
        /\ ~w.dead /\ ~w.misled /\ (write => << 0, i >> \notin DOMAIN v.locks) /\ write =>
             /\ i \in Nat /\ p \notin a.files \cup { RootPlace }
             /\ \E b, c : /\ Joins(a, b, p) /\ Holds(w, b) /\ Tied(w.o, b, p)
                          /\ At(b.links, RootCluster, i \div EntriesPerCluster, c) /\ p = PlaceAt(c, i)

LEMMA NewObject ==
  ASSUME NEW write, NEW key, NEW start, NEW size, NEW dirSector, NEW sector, NEW slot
  PROVE  IsOpened([ Closed EXCEPT !.open = TRUE, !.write = write, !.key = key, !.start = start,
                                  !.size = size, !.dirSector = dirSector, !.ownSector = sector,
                                  !.slot = slot ], write, key, << sector, slot >>, start)
<1> DEFINE o1 == [ Closed EXCEPT !.open = TRUE, !.write = write ]
           o2 == [ o1 EXCEPT !.key = key, !.start = start, !.size = size ]
           o == [ o2 EXCEPT !.dirSector = dirSector, !.ownSector = sector, !.slot = slot ]
           P(y) == /\ y = [ f \in DOMAIN y |-> y[f] ] /\ DOMAIN y = DOMAIN Closed
                   /\ y.position = 0 /\ y.dirty = FALSE /\ y.written = FALSE /\ y.shortened = FALSE /\ y.result = "OK"
                   /\ y.open = TRUE /\ y.write = write
<1>1. P(o1)
  BY DEF Closed
<1> HIDE DEF o1
<1>2. P(o2) /\ o2.key = key /\ o2.start = start
  BY <1>1, ClosedFields
<1> HIDE DEF o2
<1>3. P(o) /\ o.key = key /\ o.start = start /\ o.ownSector = sector /\ o.slot = slot
  BY <1>2, ClosedFields
<1> HIDE DEF o
<1>4. HasFields(o, DOMAIN Closed)
  BY <1>3 DEF HasFields
<1>5. IsOpened(o, write, key, << sector, slot >>, start)
  BY <1>3, <1>4 DEF IsOpened, Own
<1> QED
  BY <1>5 DEF o, o2, o1

\* A walk that finds its name does not mislead.
LEMMA FoundWalk ==
  ASSUME NEW v, NEW a, Holds(v, a), a.loose \subseteq a.files, NEW path, Names(path), ~v.misled, Walk(v, path).found
  PROVE  ~Walk(v, path).misled
<1> DEFINE p == FollowPath(v, path)
           v0 == [ v EXCEPT !.dir = NoDir, !.result = "OK" ]
           x == p.result = "OK"
           w == [ p EXCEPT !.result = "OK", !.found = x, !.misled = @ \/ (p.result # "OK" /\ ~OnBlank(p)) ]
<1>1. Walk(v, path) = w
  BY DEF Walk, With
<1>2. Looks(v0, p) /\ VolumeOK(p) /\ VolumeOK(v)
  BY FollowPathLooks, LooksOK DEF Holds, Intact
<1>3. v0.misled = v.misled /\ DOMAIN v0 = DOMAIN v /\ VolumeFields \subseteq DOMAIN v
  BY <1>2, Fields DEF VolumeFields
<1> HIDE DEF v0, p
<1>4. p.misled = v.misled
  BY <1>2, <1>3 DEF Looks, SameBut, LookFields, WindowFields, VolumeFields
<1>5. w.found = x /\ w.misled = (p.misled \/ (p.result # "OK" /\ ~OnBlank(p)))
  BY <1>2, Fields DEF VolumeFields
<1>6. p.result = "OK"
  BY <1>1, <1>5
<1> QED
  BY <1>1, <1>4, <1>5, <1>6

LEMMA OpenOpens ==
  ASSUME NEW v, NEW a, Holds(v, a), a.loose \subseteq a.files, Locked(v, a), ~v.misled, NEW path, Names(path), Len(path) = 1,
         NEW write \in BOOLEAN, NEW dirSector
  PROVE  LET w == OpenWhole(v, path, write, dirSector)
         IN  /\ Holds(w, a)
             /\ \/ w.result = "OK" /\ Opens(v, a, write, w)
                \/ w.result # "OK" /\ w.o = Closed /\ w.locks = v.locks
<1> DEFINE k == Walk(v, path)
           w == [ k EXCEPT !.o = Closed ]
           e == Shown(w)
           opens == IF Key(w) \in DOMAIN w.locks THEN w.locks[Key(w)] ELSE 0
           key == Key(w)
           o == [ Closed EXCEPT !.open = TRUE, !.write = write, !.key = key, !.start = e.start,
                                !.size = e.size, !.dirSector = dirSector, !.ownSector = w.sector,
                                !.slot = w.dir.slot ]
           misled == ~w.found
           locks == Entered(w.locks, key, IF write THEN WriteOpen ELSE opens + 1)
           x == [ w EXCEPT !.o = o, !.misled = misled, !.locks = locks ]
           z == OpenWhole(v, path, write, dirSector)
           good == ~(opens = WriteOpen \/ (write /\ opens > 0)) /\ e.kind # "dir"
<1>1. (z = x /\ good) \/ \E r : r # "OK" /\ z = Fails(w, r)
  <2>1. x = [ w EXCEPT !.o = o, !.misled = ~w.found, !.locks = Entered(@, key, IF write THEN WriteOpen ELSE opens + 1) ]
    OBVIOUS
  <2>2. z = IF opens = WriteOpen \/ (write /\ opens > 0) THEN Fails(w, "LOCKED")
            ELSE IF opens = 0 /\ Cardinality(DOMAIN w.locks) >= FS_LOCK THEN Fails(w, "TOO_MANY_OPEN_FILES")
            ELSE IF e.kind = "dir" THEN Fails(w, "NO_FILE")
            ELSE IF write /\ e.readOnly THEN Fails(w, "DENIED")
            ELSE x
    <3> HIDE DEF x
    <3> QED
      BY <2>1 DEF OpenWhole, Open, LoadCluster
  <2> HIDE DEF x, z, w, e, opens
  <2> QED
    BY <2>2
<1>2. /\ Seen(v, k) /\ DirOK(k.dir) /\ k.result = "OK"
      /\ SameBut(v, k, LookFields \cup { "dir", "found", "misled" })
      /\ Arrived(k, a, path[1])
  BY WalkLooks
<1>w. k.dir.start = 0
  BY FlatWalk
<1> HIDE DEF z, k
<1>v. VolumeOK(k) /\ VolumeOK(v) /\ Holds(k, a)
  BY <1>2, SeenHolds DEF Seen, Holds, Intact
<1>3. k.locks = v.locks
  BY <1>2, <1>v, Fields DEF SameBut, LookFields, WindowFields, VolumeFields
<1>4. w = [ f \in DOMAIN w |-> w[f] ] /\ SameBut(k, w, { "o" }) /\ w.o = Closed /\ w.result = "OK"
  BY <1>2, <1>v, Fields DEF SameBut, VolumeFields, TableFields
<1> HIDE DEF w
<1>5. /\ w.dir = k.dir /\ w.dead = k.dead /\ w.disk = k.disk /\ w.sector = k.sector /\ w.buffer = k.buffer
      /\ w.dirty = k.dirty /\ w.locks = v.locks /\ w.found = k.found /\ w.misled = k.misled
  BY <1>2, <1>3, <1>4, <1>v, Fields DEF SameBut, VolumeFields, TableFields
<1>6. Holds(w, a) /\ VolumeOK(w)
  <2>1. SameBut(k, w, OuterFields)
    BY <1>4 DEF SameBut, OuterFields
  <2> QED
    BY <1>4, <1>v, <2>1, OuterSeen, SeenHolds DEF Seen
<1>7. Arrived(w, a, path[1])
  <2>1. Logical(w) = Logical(k) /\ Shown(w) = Shown(k)
    BY <1>5 DEF Logical, Shown
  <2> QED
    BY <1>2, <1>5, <2>1 DEF Arrived, Placed, Found
<1> HIDE DEF o, misled, locks
<1>8. ASSUME NEW r, r # "OK", z = Fails(w, r)
      PROVE  Holds(z, a) /\ z.result # "OK" /\ z.o = Closed /\ z.locks = v.locks
  <2>1. Holds(z, a)
    BY <1>6, <1>8, SameSeen, SeenHolds
  <2>2. z.result = r /\ z.o = w.o /\ z.locks = w.locks
    BY <1>6, <1>8, Fields DEF Fails, VolumeFields, TableFields
  <2> QED
    BY <1>4, <1>5, <1>8, <2>1, <2>2
<1>9. ASSUME z = x, good
      PROVE  Holds(z, a) /\ z.result = "OK" /\ Opens(v, a, write, z)
  <2> DEFINE i == w.dir.index
             p == << w.sector, w.dir.slot >>
             start == e.start
  <2>1. /\ z = [ f \in DOMAIN z |-> z[f] ] /\ SameBut(w, z, { "o", "misled", "locks" })
        /\ z.o = o /\ z.misled = misled /\ z.locks = locks /\ z.result = "OK"
    BY <1>4, <1>6, <1>9, Fields DEF SameBut, VolumeFields, TableFields
  <2>2. /\ z.dead = w.dead /\ z.disk = w.disk /\ z.sector = w.sector /\ z.buffer = w.buffer /\ z.dirty = w.dirty
    BY <1>6, <2>1, Fields DEF SameBut, VolumeFields, TableFields
  <2>3. Seen(w, z) /\ Holds(z, a)
    <3>1. SameBut(w, z, OuterFields)
      BY <2>1 DEF SameBut, OuterFields
    <3> QED
      BY <1>6, <2>1, <3>1, OuterSeen, SeenHolds
  <2>4. key = << 0, i >> /\ i \in Nat
    BY <1>2, <1>5, <1>w DEF Key, DirOK
  <2>5. IsOpened(z.o, write, << 0, i >>, p, start)
    <3> HIDE DEF key, e, i
    <3>1. IsOpened(o, write, key, p, start)
      BY NewObject DEF o
    <3> QED
      BY <2>1, <2>4, <3>1
  <2>6. z.locks = Entered(v.locks, << 0, i >>, IF write THEN WriteOpen ELSE opens + 1)
    BY <1>5, <2>1, <2>4 DEF locks
  <2>7. opens = IF << 0, i >> \in DOMAIN v.locks THEN v.locks[<< 0, i >>] ELSE 0
    BY <1>5, <2>4
  <2>8. ASSUME ~z.dead, ~z.misled, write, << 0, i >> \notin DOMAIN v.locks
        PROVE  /\ p \notin a.files \cup { RootPlace }
               /\ \E b, c : /\ Joins(a, b, p) /\ Holds(z, b) /\ Tied(z.o, b, p)
                            /\ At(b.links, RootCluster, i \div EntriesPerCluster, c) /\ p = PlaceAt(c, i)
    <3> HIDE DEF opens, key, e
    <3>1. ~w.dead /\ w.found /\ ~w.misled
      <4>1. ~w.dead /\ w.found
        BY <2>1, <2>2, <2>8 DEF misled
      <4>2. ~k.misled
        BY <1>5, <4>1, FoundWalk DEF k
      <4> QED
        BY <1>5, <4>1, <4>2
    <3>2. Headed(w.dir, a) /\ Placed(w) /\ w.sector = w.dir.sector /\ Found(w, path[1])
      BY <1>7, <3>1 DEF Arrived
    <3>3. w.sector \in DataSectors /\ w.sector # NoSector /\ w.dir.cluster \in Clusters
      BY <3>2, PlacedInData
    <3>4. p \notin a.files
      <4>1. Locked(w, a)
        BY <1>5 DEF Locked
      <4>2. Key(w) \notin DOMAIN w.locks
        BY <1>5, <2>4, <2>8 DEF key
      <4> QED
        BY <1>6, <3>1, <3>2, <4>1, <4>2, FreeElsewhere
    <3>5. p # RootPlace
      BY <3>3 DEF RootPlace
    <3>6. /\ At(LinksOf(Logical(w)), RootCluster, i \div EntriesPerCluster, w.dir.cluster)
          /\ p = PlaceAt(w.dir.cluster, i)
      BY <1>5, <1>w, <3>2 DEF Placed, First, PlaceAt
    <3>7. start # 0 => << p, start >> \in a.claims
      <4>1. path[1] \notin Dots
        BY DEF Names
      <4> QED
        BY <1>6, <1>7, <3>1, <3>2, <3>4, <4>1, ArrivedFits DEF e
    <3>8. w.dir.slot \in DOMAIN w.buffer.entries => w.buffer.entries[w.dir.slot].kind # "dir"
      BY <1>9 DEF e, Shown
    <3>9. PICK b : Joins(a, b, p) /\ Holds(w, b) /\ At(b.links, RootCluster, i \div EntriesPerCluster, w.dir.cluster)
      <4> HIDE DEF i
      <4> QED
        BY <1>6, <3>1, <3>3, <3>6, <3>8, JoinHolds
    <3>10. Holds(z, b)
      BY <2>3, <3>9, SeenHolds
    <3>11. Tied(z.o, b, p)
      <4>1. z.o.start = start
        BY <2>5 DEF IsOpened
      <4> HIDE DEF p, start
      <4> QED
        BY <3>7, <3>9, <4>1 DEF Tied, Joins
    <3> QED
      BY <3>4, <3>5, <3>6, <3>9, <3>10, <3>11
  <2> HIDE DEF opens, key, e, i, p, start, locks
  <2> QED
    BY <1>9, <2>1, <2>3, <2>4, <2>5, <2>6, <2>7, <2>8 DEF Opens
<1>10. CASE z = x /\ good
  BY <1>9, <1>10 DEF z
<1>11. CASE \E r : r # "OK" /\ z = Fails(w, r)
  <2> HIDE DEF x
  <2>1. PICK r : r # "OK" /\ z = Fails(w, r)
    BY <1>11
  <2>2. Holds(z, a) /\ z.result # "OK" /\ z.o = Closed /\ z.locks = v.locks
    BY <1>8, <2>1
  <2> QED
    BY <2>2 DEF z
<1> HIDE DEF x, good
<1> QED
  BY <1>1, <1>10, <1>11 DEF z

-----------------------------------------------------------------------------
(* An object that only reads has nothing to write into its entry. *)

\* From o to q there is nothing more to write, or there may be.
Notes(o, q) == q.written = o.written \/ (o.write /\ q.written = TRUE)

LEMMA NotesAgain ==
  ASSUME NEW o, NEW q, NEW r, Notes(o, q), Notes(q, r), q.write = o.write
  PROVE  Notes(o, r)
  BY DEF Notes

LEMMA AbortNotes ==
  ASSUME NEW v, VolumeOK(v), LooseOK(v.o)
  PROVE  Abort(v).o.written = v.o.written /\ Abort(v).o.write = v.o.write
<1> DEFINE w == [ v EXCEPT !.o.result = v.result ]
           q == v.o
           o == w.o
<1>1. o = [ q EXCEPT !.result = v.result ]
  BY Fields DEF VolumeFields
<1>2. LooseOK(q)
  OBVIOUS
<1> HIDE DEF q, o
<1>3. o.written = q.written /\ o.write = q.write
  BY <1>1, <1>2, ClosedFields DEF LooseOK, HasFields
<1> HIDE DEF w
<1>4. Abort(v) \in { v, w }
  BY DEF Abort, w
<1> QED
  BY <1>3, <1>4 DEF q, o

LEMMA ReadNotes ==
  ASSUME NEW v, VolumeOK(v), ObjectOK(v.o), v.o.result = "OK", NEW n \in Nat
  PROVE  Notes(v.o, Read(v, n).o)
<1> DEFINE end == v.o.position + SmallerOf(n, v.o.size - v.o.position)
           u(k) == Moving!Passes(v, end)[k]
           P(x) == /\ FileStays(v, x) /\ SameBut(v.o, x.o, MoveFields)
                   /\ x.o.position <= end
           T == { k \in Nat : P(u(k)) }
           w == Abort(u(n))
<1>1. Read(v, n) = w
  BY DEF Read
<1>2. LooseOK(v.o) /\ v.o.position \in Nat /\ v.o.size \in Nat /\ v.o.position <= v.o.size
  BY LooseAndResult DEF ObjectOK
<1>3. end \in Nat /\ v.o.position <= end /\ end <= v.o.size
  BY <1>2 DEF SmallerOf
<1> HIDE DEF end
<1>4. u(0) = v /\ \A k \in Nat : u(k + 1) = MovePass(u(k), end, k + 1)
  BY Moving!PassByPass
<1> HIDE DEF u
<1>5. 0 \in T
  BY <1>2, <1>3, <1>4, FileSame DEF SameBut
<1>6. ASSUME NEW k \in Nat, k \in T PROVE k + 1 \in T
  <2>1. P(u(k)) /\ VolumeOK(u(k)) /\ LooseOK(u(k).o)
    BY <1>6, FileTwice
  <2>2. FileStays(u(k), u(k + 1)) /\ SameBut(u(k).o, u(k + 1).o, MoveFields) /\ u(k + 1).o.position <= end
    BY <1>3, <1>4, <2>1, MovePassStays
  <2> QED
    BY <1>2, <2>1, <2>2, FileTwice, MovesOn
<1>7. Nat \subseteq T
  <2> HIDE DEF T
  <2> QED
    BY <1>5, <1>6, Moving!Upwards
<1>8. P(u(n)) /\ VolumeOK(u(n)) /\ LooseOK(u(n).o)
  BY <1>7, FileTwice
<1>9. u(n).o.written = v.o.written
  BY <1>2, <1>8, ClosedFields DEF SameBut, MoveFields, LooseOK, HasFields
<1> HIDE DEF P, T
<1>10. w.o.written = v.o.written
  BY <1>8, <1>9, AbortNotes
<1> QED
  BY <1>1, <1>10 DEF Notes

LEMMA WriteNotes ==
  ASSUME NEW v, VolumeOK(v), ObjectOK(v.o), v.o.write, NEW units \in Seq(Unit)
  PROVE  Notes(v.o, Write(v, units).o)
<1> DEFINE v0 == [ v EXCEPT !.data = units ]
           u(k) == Writing!Passes(v0, 0)[k]
           P(x) == LooseOK(x.o) /\ VolumeOK(x) /\ x.data \in Seq(Unit) /\ x.o.written = v.o.written
           T == { k \in Nat : P(u(k)) }
           n == Len(units)
           w == u(n)
           x == [ w EXCEPT !.o.size = LargerOf(@, w.o.position), !.o.written = TRUE, !.result = "OK" ]
           a == Abort(w)
<1>1. Write(v, units) = IF w.result \in { "OK", "FULL" } THEN x ELSE a
  BY DEF Write, With
<1>2. LooseOK(v.o)
  BY LooseAndResult
<1>3. P(v0)
  <2>1. v0 = [ g \in DOMAIN v0 |-> v0[g] ] /\ SameBut(v, v0, { "data" }) /\ v0.o = v.o /\ v0.data = units
    BY Fields DEF SameBut, VolumeFields
  <2> HIDE DEF v0
  <2> QED
    BY <1>2, <2>1, FileSet, FileIsFileOrFails DEF SameBut, OuterFields
<1>4. u(0) = v0 /\ \A k \in Nat : u(k + 1) = WritePass(u(k), 0, k + 1)
  BY Writing!PassByPass
<1> HIDE DEF u, v0
<1>5. 0 \in T
  BY <1>3, <1>4
<1>6. ASSUME NEW k \in Nat, k \in T PROVE k + 1 \in T
  <2> DEFINE y == u(k)
             z == u(k + 1)
  <2>1. P(y)
    BY <1>6
  <2>2. FileStaysOrFails(y, z) /\ z.data \in Seq(Unit) /\ SameBut(y.o, z.o, WriteFields)
    BY <1>4, <2>1, WritePassStays
  <2> HIDE DEF y, z
  <2>3. z.o.written = y.o.written
    BY <2>1, <2>2, ClosedFields DEF SameBut, WriteFields, MoveFields, LooseOK, HasFields
  <2>4. P(z)
    BY <2>1, <2>2, <2>3 DEF FileStaysOrFails, StaysOrFails
  <2> QED
    BY <2>4 DEF z
<1>7. Nat \subseteq T
  <2> HIDE DEF T
  <2> QED
    BY <1>5, <1>6, Writing!Upwards
<1>8. P(w)
  <2>1. n \in Nat
    OBVIOUS
  <2> QED
    BY <1>7, <2>1
<1> HIDE DEF w
<1>9. x.o.written = TRUE
  <2> DEFINE q == w.o
             m == LargerOf(q.size, q.position)
             o == x.o
  <2>1. o = [ q EXCEPT !.size = m, !.written = TRUE ]
    BY <1>8, Fields, ClosedFields DEF VolumeFields, LooseOK, HasFields
  <2>2. LooseOK(q)
    BY <1>8
  <2> HIDE DEF q, m, o
  <2>3. o.written = TRUE
    BY <2>1, <2>2, ClosedFields DEF LooseOK, HasFields
  <2> QED
    BY <2>3 DEF o
<1>10. a.o.written = v.o.written
  BY <1>8, AbortNotes
<1> HIDE DEF x, a
<1> QED
  BY <1>1, <1>9, <1>10 DEF Notes

\* A reader goes from cluster to cluster (3172) as long as there are some.
LEMMA SeekPassReads ==
  ASSUME NEW v, VolumeOK(v), LooseOK(v.o), v.o.write = FALSE, v.result # "FULL", NEW k
  PROVE  LET w == SeekPass(v, 0, k)
         IN  /\ VolumeOK(w) /\ LooseOK(w.o) /\ w.o.write = FALSE /\ w.result # "FULL"
             /\ w.result = "OK" => v.result = "OK" /\ w.o.position = v.o.position + UnitsPerCluster
<1> DEFINE c == GetFat(v, v.o.cluster)
           p == v.o.position + UnitsPerCluster
           x == [ c EXCEPT !.o.cluster = c.value, !.o.position = @ + UnitsPerCluster, !.result = "OK" ]
           w == SeekPass(v, 0, k)
<1>1. \/ w = v /\ v.result # "OK"
      \/ v.result = "OK" /\ w \in { Fails(c, "DISK_ERR"), Fails(c, "INT_ERR") }
      \/ v.result = "OK" /\ w = x
  BY DEF SeekPass, With
<1>2. VolumeOK(w) /\ LooseOK(w.o) /\ SameBut(v.o, w.o, SeekFields)
  BY SeekPassStays DEF FileStaysOrFails, StaysOrFails
<1> HIDE DEF w
<1>3. w.o.write = FALSE
  BY <1>2, SeeksOn
<1>4. VolumeOK(c) /\ c.o = v.o
  <2>1. VolumeOK(c) /\ SameBut(v, c, WindowFields \cup { "value" })
    BY GetFatStays
  <2> HIDE DEF c
  <2>2. SameBut(v, c, ChainFields)
    BY <2>1 DEF SameBut, ChainFields
  <2> QED
    BY <2>1, <2>2, RestIsKept
<1> HIDE DEF c
<1>5. Fails(c, "DISK_ERR").result = "DISK_ERR" /\ Fails(c, "INT_ERR").result = "INT_ERR"
  BY <1>4, FailsFile
<1>6. x.result = "OK" /\ x.o.position = v.o.position + UnitsPerCluster
  <2> DEFINE q == v.o
             o == x.o
  <2>1. o = [ q EXCEPT !.cluster = c.value, !.position = @ + UnitsPerCluster ] /\ x.result = "OK"
    BY <1>4, Fields DEF VolumeFields, TableFields
  <2>2. LooseOK(q)
    OBVIOUS
  <2> HIDE DEF q, o
  <2>3. o.position = q.position + UnitsPerCluster
    BY <2>1, <2>2, ClosedFields DEF LooseOK, HasFields
  <2> QED
    BY <2>1, <2>3 DEF q, o
<1> HIDE DEF x
<1>7. /\ w.result # "FULL"
      /\ w.result = "OK" => v.result = "OK" /\ w.o.position = v.o.position + UnitsPerCluster
  BY <1>1, <1>5, <1>6
<1> QED
  BY <1>2, <1>3, <1>7 DEF w

LEMMA OneMore ==
  ASSUME NEW n \in Nat, NEW u \in Nat
  PROVE  0 * u = 0 /\ n * u \in Nat /\ (n + 1) * u = n * u + u
  OBVIOUS

LEMMA SeekOnReads ==
  ASSUME NEW v, VolumeOK(v), LooseOK(v.o), v.o.write = FALSE, NEW rest \in Nat \ {0}
  PROVE  LET w == SeekOn(v, rest)
         IN  w.o.write = FALSE /\ (w.result = "OK" => w.o.position = v.o.position + rest)
<1> DEFINE v0 == Fails(v, "OK")
           U == UnitsPerCluster
           u(i) == Seeking!Passes(v0, 0)[i]
           P(x, i) == /\ LooseOK(x.o) /\ VolumeOK(x) /\ x.o.write = FALSE /\ x.result # "FULL"
                      /\ x.result = "OK" => x.o.position = v.o.position + i * U
           T == { i \in Nat : P(u(i), i) }
           clusters == (rest - 1) \div UnitsPerCluster
           last == rest - clusters * UnitsPerCluster
           n == clusters
           w == u(n)
           a == [ w EXCEPT !.o.position = @ + last, !.value = NoSector ]
           b == [ w EXCEPT !.o.position = @ + last, !.result = "INT_ERR" ]
           c == [ w EXCEPT !.o.position = @ + last, !.value = ClusterToSector(w.o.cluster) + last \div UnitsPerSector ]
           d == [ w EXCEPT !.o.position = @ + UnitsPerCluster, !.result = "OK", !.value = NoSector ]
           z == SeekOn(v, rest)
<1>1. n \in Nat /\ last \in Nat /\ U \in Nat /\ v.o.position \in Nat
  BY LastUnits, FileUnits DEF LooseOK
<1>2. P(v0, 0)
  <2>1. VolumeOK(v0) /\ LooseOK(v0.o) /\ v0.o = v.o /\ v0.result = "OK"
    BY FailsFile
  <2> HIDE DEF v0, U
  <2> QED
    BY <1>1, <2>1, OneMore
<1>3. u(0) = v0 /\ \A i \in Nat : u(i + 1) = SeekPass(u(i), 0, i + 1)
  BY Seeking!PassByPass
<1>4. \/ w.result = "OK" /\ z \in { a, b, c }
      \/ w.result = "FULL" /\ z = d
      \/ w.result # "OK" /\ z = w
  <2>0. z = SeekOn(v, rest)
    OBVIOUS
  <2> HIDE DEF z
  <2> QED
    BY <2>0 DEF SeekOn, With
<1>5. n * U + last = rest
  <2>1. n * U \in Nat
    BY <1>1, OneMore
  <2> HIDE DEF n
  <2> QED
    BY <2>1 DEF n
<1> HIDE DEF u, v0, clusters, last, z, U
<1>6. 0 \in T
  BY <1>2, <1>3
<1>7. ASSUME NEW i \in Nat, i \in T PROVE i + 1 \in T
  <2> DEFINE y == u(i)
             x == u(i + 1)
  <2>1. P(y, i)
    BY <1>7
  <2>2. x = SeekPass(y, 0, i + 1)
    BY <1>3
  <2> HIDE DEF y, x
  <2>3. /\ VolumeOK(x) /\ LooseOK(x.o) /\ x.o.write = FALSE /\ x.result # "FULL"
        /\ x.result = "OK" => y.result = "OK" /\ x.o.position = y.o.position + U
    BY <2>1, <2>2, SeekPassReads DEF U
  <2>4. x.result = "OK" => x.o.position = v.o.position + (i + 1) * U
    <3>1. i * U \in Nat /\ (i + 1) * U = i * U + U
      BY <1>1, OneMore
    <3> QED
      BY <1>1, <2>1, <2>3, <3>1
  <2>5. P(x, i + 1)
    BY <2>3, <2>4
  <2> QED
    BY <2>5 DEF x
<1>8. Nat \subseteq T
  <2> HIDE DEF T
  <2> QED
    BY <1>6, <1>7, Seeking!Upwards
<1>9. P(w, n)
  BY <1>1, <1>8
<1> HIDE DEF w
<1>10. ASSUME NEW x \in { a, b, c }, w.result = "OK"
       PROVE  x.o.write = FALSE /\ x.o.position = v.o.position + rest
  <2> DEFINE q == w.o
             o == x.o
  <2>1. o = [ q EXCEPT !.position = @ + last ]
    BY <1>9, Fields DEF VolumeFields, TableFields
  <2>2. LooseOK(q) /\ q.write = FALSE /\ q.position = v.o.position + n * U
    BY <1>9, <1>10
  <2> HIDE DEF q, o, a, b, c
  <2>3. o.position = q.position + last /\ o.write = q.write
    BY <2>1, <2>2, ClosedFields DEF LooseOK, HasFields
  <2>4. n * U \in Nat
    BY <1>1, OneMore
  <2>5. o.position = v.o.position + rest
    BY <1>1, <1>5, <2>2, <2>3, <2>4
  <2> QED
    BY <2>2, <2>3, <2>5 DEF q, o
<1> HIDE DEF a, b, c, d
<1> QED
  BY <1>4, <1>9, <1>10 DEF z

LEMMA SeekFromStartReads ==
  ASSUME NEW v, VolumeOK(v), LooseOK(v.o), v.o.write = FALSE, NEW target \in Nat \ {0}
  PROVE  LET w == SeekFromStart(v, target)
         IN  w.o.write = FALSE /\ (w.result = "OK" => w.o.position <= target)
<1> DEFINE h == CreateChain(v, 0)
           g == Gives(v, v.o.start)
           c == IF v.o.start = 0 THEN h ELSE g
           y == [ c EXCEPT !.o.start = c.value, !.o.cluster = c.value, !.o.position = 0 ]
           r == IF c.value = 1 THEN "INT_ERR" ELSE "DISK_ERR"
           x == [ c EXCEPT !.o.position = 0, !.result = r ]
           z == [ y EXCEPT !.result = "OK", !.value = NoSector ]
           s == SeekOn(y, target)
           w == SeekFromStart(v, target)
<1>1. VolumeOK(c) /\ c.o = v.o /\ c.value \in Clusters \cup { 0, 1, Ones }
  <2>1. CASE c = h
    <3>1. ChainStays(v, h)
      BY CreateChainStays
    <3> HIDE DEF h, c
    <3> QED
      BY <2>1, <3>1, RestIsKept DEF ChainStays
  <2>2. CASE c = g
    <3>1. v.o.start \in Clusters \cup { 0 }
      BY DEF LooseOK
    <3>2. FileStays(v, g) /\ VolumeOK(g) /\ g.o = v.o /\ g.value = v.o.start
      BY GivesFile
    <3> HIDE DEF g, c
    <3> QED
      BY <2>2, <3>1, <3>2 DEF FileStays, Stays
  <2> QED
    BY <2>1, <2>2
<1>2. \/ w = x
      \/ w = z
      \/ c.value \notin { 0, 1, Ones } /\ w = s
  <2>0. w = SeekFromStart(v, target)
    OBVIOUS
  <2> HIDE DEF w
  <2> QED
    BY <2>0 DEF SeekFromStart, With
<1> HIDE DEF c, w, r
<1>3. VolumeFields \subseteq DOMAIN c /\ c = [ f \in DOMAIN c |-> c[f] ]
  BY <1>1, Fields
<1>4. x.o.write = FALSE /\ x.o.position = 0
  <2> DEFINE q == v.o
             o == x.o
  <2>1. o = [ q EXCEPT !.position = 0 ]
    BY <1>1, <1>3 DEF VolumeFields, TableFields
  <2>2. LooseOK(q) /\ q.write = FALSE
    OBVIOUS
  <2> HIDE DEF q, o
  <2>3. o.position = 0 /\ o.write = q.write
    BY <2>1, <2>2, ClosedFields DEF LooseOK, HasFields
  <2> QED
    BY <2>2, <2>3 DEF o
<1>5. y = [ f \in DOMAIN y |-> y[f] ] /\ SameBut(c, y, { "o" }) /\ y.o.write = FALSE /\ y.o.position = 0
      /\ y.o = [ v.o EXCEPT !.start = c.value, !.cluster = c.value, !.position = 0 ]
  <2> DEFINE q == v.o
             o == y.o
  <2>1. o = [ q EXCEPT !.start = c.value, !.cluster = c.value, !.position = 0 ]
        /\ y = [ f \in DOMAIN y |-> y[f] ] /\ SameBut(c, y, { "o" })
    BY <1>1, <1>3 DEF SameBut, VolumeFields, TableFields
  <2>2. LooseOK(q) /\ q.write = FALSE
    OBVIOUS
  <2> HIDE DEF q, o, y
  <2>3. o.position = 0 /\ o.write = q.write
    BY <2>1, <2>2, ClosedFields DEF LooseOK, HasFields
  <2> QED
    BY <2>1, <2>2, <2>3 DEF o, q
<1> HIDE DEF y
<1>6. z.o = y.o
  BY <1>3, <1>5 DEF SameBut, VolumeFields, TableFields
<1>7. c.value \notin { 0, 1, Ones } => s.o.write = FALSE /\ (s.result = "OK" => s.o.position = target)
  <2> SUFFICES ASSUME c.value \in Clusters PROVE s.o.write = FALSE /\ (s.result = "OK" => s.o.position = target)
    BY <1>1
  <2>1. LooseOK(y.o)
    BY <1>5, StartedOK
  <2>2. VolumeOK(y)
    BY <1>1, <1>5, <2>1, FileSet DEF SameBut, OuterFields
  <2>3. s.o.write = FALSE /\ (s.result = "OK" => s.o.position = y.o.position + target)
    BY <1>5, <2>1, <2>2, SeekOnReads
  <2> QED
    BY <1>5, <2>3
<1> HIDE DEF x, z, s
<1>8. 0 <= target /\ target <= target
  OBVIOUS
<1>9. w.o.write = FALSE /\ (w.result = "OK" => w.o.position <= target)
  <2>1. CASE w = x
    BY <1>4, <1>8, <2>1
  <2>2. CASE w = z
    BY <1>5, <1>6, <1>8, <2>2
  <2>3. CASE c.value \notin { 0, 1, Ones } /\ w = s
    BY <1>7, <1>8, <2>3
  <2> QED
    BY <1>2, <2>1, <2>2, <2>3
<1> QED
  BY <1>9 DEF w

\* seek (3133) lets a file grow only for who writes it.
LEMMA SeekNotes ==
  ASSUME NEW v, VolumeOK(v), ObjectOK(v.o), v.o.result = "OK", NEW position \in Nat
  PROVE  Notes(v.o, Seek(v, position).o)
<1> DEFINE target == IF position > v.o.size /\ ~v.o.write THEN v.o.size ELSE position
           zero == [ v EXCEPT !.o.position = 0, !.value = NoSector ]
           m == IF target = 0 THEN zero
                ELSE IF SeekForward(v.o, target) THEN SeekFromHere(v, target)
                ELSE SeekFromStart(v, target)
           b == WriteBack(m)
           f == Fill(b, m.value)
           n == IF b.result = "OK" THEN f ELSE b
           c == IF m.result # "OK" THEN m
                ELSE IF Aligned(m.o.position) \/ m.value = m.o.cached THEN m ELSE n
           x == [ c EXCEPT !.o.size = c.o.position, !.o.written = TRUE ]
           g == IF c.result # "OK" THEN c ELSE IF c.o.position > c.o.size THEN x ELSE c
           a == Abort(g)
           w == Fails(a, a.o.result)
<1>1. Seek(v, position) = w
  <2> HIDE DEF m, target
  <2>1. Seek(v, position) =
          LET Cache(e) ==
                IF Aligned(e.o.position) \/ e.value = e.o.cached THEN e
                ELSE Then(WriteBack(e), LAMBDA u : Fill(u, e.value))
              Grow(e) ==
                IF e.o.position > e.o.size THEN [ e EXCEPT !.o.size = e.o.position, !.o.written = TRUE ] ELSE e
          IN  With(Abort(Then(Then(m, Cache), Grow)), LAMBDA e : Fails(e, e.o.result))
    BY DEF Seek, m, target
  <2>2. c = LET Cache(e) ==
                IF Aligned(e.o.position) \/ e.value = e.o.cached THEN e
                ELSE Then(WriteBack(e), LAMBDA u : Fill(u, e.value))
            IN  Then(m, Cache)
    BY DEF Then
  <2> HIDE DEF c
  <2>3. g = LET Grow(e) ==
                IF e.o.position > e.o.size THEN [ e EXCEPT !.o.size = e.o.position, !.o.written = TRUE ] ELSE e
            IN  Then(c, Grow)
    BY DEF Then
  <2> HIDE DEF g
  <2> QED
    BY <2>1, <2>2, <2>3 DEF With
<1>2. LooseOK(v.o) /\ target \in Nat /\ v.o.size \in Nat /\ (~v.o.write => target <= v.o.size)
  BY LooseAndResult DEF ObjectOK
<1> HIDE DEF target
<1>3. /\ VolumeOK(m) /\ LooseOK(m.o) /\ SameBut(v.o, m.o, SeekFields)
      /\ m.result = "OK" => m.value \in DataSectors \cup { NoSector }
      /\ ~v.o.write /\ m.result = "OK" => m.o.position <= target
  <2>1. CASE target = 0
    <3>1. /\ zero = [ e \in DOMAIN zero |-> zero[e] ] /\ SameBut(v, zero, { "o", "value" })
          /\ zero.o = [ v.o EXCEPT !.position = 0 ] /\ zero.value = NoSector
      BY Fields DEF SameBut, VolumeFields, TableFields
    <3>2. m = zero
      BY <2>1
    <3> HIDE DEF zero, m
    <3>3. LooseOK(zero.o) /\ SameBut(v.o, zero.o, SeekFields) /\ zero.o.position = 0
      BY <1>2, <3>1, PlacedOK
    <3>4. VolumeOK(zero)
      BY <3>1, <3>3, FileSet DEF SameBut, OuterFields
    <3>5. m.o.position = 0 /\ 0 <= target
      BY <2>1, <3>2, <3>3
    <3> QED
      BY <2>1, <3>1, <3>2, <3>3, <3>4, <3>5
  <2>2. CASE target # 0 /\ SeekForward(v.o, target)
    <3> DEFINE s == SeekFromHere(v, target)
               base == ((v.o.position - 1) \div UnitsPerCluster) * UnitsPerCluster
               y == [ v EXCEPT !.o.position = base ]
    <3>1. target \in Nat \ {0} /\ m = s
      BY <1>2, <2>2
    <3>2. base \in Nat /\ target - base \in Nat \ {0}
      BY <1>2, <2>2, <3>1, HereBefore
    <3>3. s = SeekOn(y, target - base)
      BY DEF SeekFromHere
    <3> HIDE DEF base, s, m
    <3>4. y = [ e \in DOMAIN y |-> y[e] ] /\ SameBut(v, y, { "o" }) /\ y.o = [ v.o EXCEPT !.position = base ]
      BY Fields DEF SameBut, VolumeFields, TableFields
    <3> HIDE DEF y
    <3>5. LooseOK(y.o) /\ SameBut(v.o, y.o, SeekFields) /\ y.o.position = base
      BY <1>2, <3>2, <3>4, PlacedOK
    <3>6. VolumeOK(y) /\ y.o.write = v.o.write /\ v.o.write \in BOOLEAN
      BY <1>2, <3>4, <3>5, SeeksOn, FileSet DEF SameBut, OuterFields, LooseOK
    <3>7. Sought(v, s)
      BY <1>2, <2>2, <3>1, SeekFromHereStays DEF s
    <3>8. ~v.o.write /\ s.result = "OK" => s.o.position = base + (target - base)
      BY <3>2, <3>3, <3>5, <3>6, SeekOnReads
    <3>9. base + (target - base) = target /\ target <= target
      BY <3>1, <3>2
    <3> QED
      BY <3>1, <3>7, <3>8, <3>9 DEF Sought, FileStaysOrFails, StaysOrFails
  <2>3. CASE target # 0 /\ ~SeekForward(v.o, target)
    <3>1. target \in Nat \ {0} /\ m = SeekFromStart(v, target)
      BY <1>2, <2>3
    <3> HIDE DEF m
    <3>2. Sought(v, m)
      BY <1>2, <3>1, SeekFromStartStays
    <3>3. v.o.write \in BOOLEAN
      BY <1>2 DEF LooseOK
    <3>4. ~v.o.write /\ m.result = "OK" => m.o.position <= target
      BY <1>2, <3>1, <3>3, SeekFromStartReads
    <3> QED
      BY <3>2, <3>4 DEF Sought, FileStaysOrFails, StaysOrFails
  <2> QED
    BY <2>1, <2>2, <2>3
<1> HIDE DEF m
<1>4. /\ m.o.write = v.o.write /\ m.o.written = v.o.written /\ m.o.size = v.o.size
      /\ m.o.position \in Nat
  <2>1. m.o.written = v.o.written
    BY <1>2, <1>3, ClosedFields DEF SameBut, SeekFields, LooseOK, HasFields
  <2> QED
    BY <1>2, <1>3, <2>1, SeeksOn DEF LooseOK
<1> DEFINE Like(y) == /\ VolumeOK(y) /\ LooseOK(y.o)
                      /\ y.o.write = m.o.write /\ y.o.written = m.o.written /\ y.o.size = m.o.size
                      /\ y.o.position = m.o.position
<1>5. Like(c) /\ (c.result = "OK" => m.result = "OK")
  <2>1. ASSUME m.result = "OK" PROVE Like(n)
    <3>1. m.value \in DataSectors \cup { NoSector }
      BY <1>3, <2>1
    <3>2. FileStays(m, b) /\ VolumeOK(b) /\ LooseOK(b.o) /\ SameBut(m.o, b.o, { "dirty" })
      BY <1>3, WriteBackStays
    <3> HIDE DEF b
    <3>3. FileStays(b, f) /\ VolumeOK(f) /\ LooseOK(f.o) /\ SameBut(b.o, f.o, { "units", "cached" })
      BY <3>1, <3>2, FillStays
    <3> HIDE DEF f
    <3>4. Like(b)
      BY <1>3, <3>2, ClosedFields DEF SameBut, LooseOK, HasFields
    <3>5. Like(f)
      BY <3>2, <3>3, <3>4, ClosedFields DEF SameBut, LooseOK, HasFields
    <3> HIDE DEF Like
    <3> QED
      BY <3>4, <3>5
  <2>2. Like(m)
    BY <1>3
  <2> HIDE DEF n, Like
  <2> QED
    BY <2>1, <2>2
<1> HIDE DEF c
<1>6. x.o.written = TRUE /\ x.o.write = c.o.write /\ VolumeOK(x) /\ LooseOK(x.o)
  <2> DEFINE q == c.o
             p == q.position
             o == x.o
  <2>1. /\ o = [ q EXCEPT !.size = p, !.written = TRUE ]
        /\ x = [ e \in DOMAIN x |-> x[e] ] /\ SameBut(c, x, { "o" })
    BY <1>5, Fields DEF SameBut, VolumeFields, TableFields
  <2>2. LooseOK(q) /\ p \in Nat
    BY <1>5 DEF LooseOK
  <2> HIDE DEF q, o, p, x
  <2>3. DOMAIN Closed \subseteq DOMAIN q /\ q = [ e \in DOMAIN q |-> q[e] ]
    BY <2>2, ClosedFields DEF LooseOK, HasFields
  <2>4. o = [ e \in DOMAIN o |-> o[e] ] /\ SameBut(q, o, { "size", "written" }) /\ o.size = p
        /\ o.written = TRUE /\ o.write = q.write
    BY <2>1, <2>3, ClosedFields DEF SameBut
  <2>5. LooseOK(o)
    BY <2>2, <2>4, GrownOK DEF p
  <2> QED
    BY <1>5, <2>1, <2>4, <2>5, FileSet DEF o, q, SameBut, OuterFields
<1> HIDE DEF x
<1>7. Notes(v.o, g.o) /\ VolumeOK(g) /\ LooseOK(g.o)
  <2>1. CASE g = c
    BY <1>4, <1>5, <2>1 DEF Notes
  <2>2. CASE g = x /\ c.result = "OK" /\ c.o.position > c.o.size
    <3>1. v.o.write
      <4> SUFFICES ASSUME ~v.o.write PROVE FALSE
        OBVIOUS
      <4>1. m.o.position <= target /\ target <= v.o.size
        BY <1>2, <1>3, <1>5, <2>2
      <4>2. m.o.position > v.o.size
        BY <1>4, <1>5, <2>2
      <4> QED
        BY <1>2, <1>4, <4>1, <4>2
    <3> QED
      BY <1>6, <2>2, <3>1 DEF Notes
  <2> QED
    BY <2>1, <2>2
<1> HIDE DEF g
<1>8. a.o.written = g.o.written /\ VolumeOK(a) /\ LooseOK(a.o)
  BY <1>7, AbortNotes, AbortStays
<1> HIDE DEF a
<1>9. w.o = a.o
  BY <1>8, FailsFile
<1> HIDE DEF w
<1> QED
  BY <1>1, <1>7, <1>8, <1>9 DEF Notes

-----------------------------------------------------------------------------
(* Mounting (mount, 404). *)

\* What a card says that has just been mounted.
AtMount(d) == Accord(Heads(d), {}, {}, {})

\* A card that may be mounted is respected.
LEMMA MountHolds ==
  ASSUME NEW d, IsCard(d), \A s \in Sectors : Belongs(s, d[s]), Mountable(d)
  PROVE  Holds(Mount(d), AtMount(d)) /\ AtMount(d).files = {} /\ AtMount(d).loose = {}
<1> DEFINE v == Mount(d)
           a == AtMount(d)
<1>1. a.claims = Heads(d) /\ a.loose = {} /\ a.files = {} /\ a.links = {}
  BY DEF AtMount, Accord
<1>2. VolumeOK(v)
  BY MountOK
<1>3. v.disk = d /\ v.dirty = FALSE /\ v.dead = FALSE /\ v.sector \in { DataBase - 1, BootSector }
  BY DEF Mount
<1> HIDE DEF v, a
<1>4. v.sector \notin DataSectors
  BY <1>3, SectorPlaces
<1>5. Logical(v) = d
  BY <1>3 DEF Logical
<1>6. Rooted(a)
  BY <1>1 DEF Rooted, Heads
<1>7. EntriesFit(d, a)
  <2> SUFFICES ASSUME NEW s \in DataSectors, NEW i \in DOMAIN d[s].entries PROVE Fits(d[s].entries[i], << s, i >>, a)
    BY DEF EntriesFit
  <2>1. NamesChain(d[s].entries[i]) => << << s, i >>, d[s].entries[i].start >> \in Heads(d)
    BY DEF Heads
  <2> QED
    BY <2>1, <1>1 DEF Fits
<1>8. Respects(d, a)
  BY <1>1, <1>7 DEF Respects, Mountable, LinksKept
<1>9. WindowFits(v, a) /\ Fresh(v)
  BY <1>4 DEF WindowFits, Fresh
<1> QED
  BY <1>1, <1>2, <1>3, <1>5, <1>6, <1>8, <1>9 DEF Holds, Intact, Mountable, v, a

-----------------------------------------------------------------------------
(* Before, between and after calls. *)

\* The window and the card stay as they are.
LEMMA AsSeen ==
  ASSUME NEW v, VolumeOK(v), NEW w, VolumeOK(w), w.disk = v.disk, w.dead = v.dead, w.dirty = v.dirty,
         w.sector = v.sector, w.buffer = v.buffer
  PROVE  Seen(v, w) /\ Logical(w) = Logical(v)
<1>1. v.dead \in BOOLEAN
  BY DEF VolumeOK, IsVolume
<1>2. Logical(w) = Logical(v)
  BY DEF Logical
<1> QED
  BY <1>1, <1>2 DEF Seen, WindowLike, Fresh

\* A fault is planned.
LEMMA BeginsHolds ==
  ASSUME NEW v, VolumeOK(v), v.fault = "none", NEW u, Begins(v, u)
  PROVE  /\ VolumeOK(u) /\ SameBut(v, u, { "fuse", "fault" }) /\ u.dead = v.dead /\ u.o = v.o /\ u.locks = v.locks
         /\ u.misled = v.misled /\ Seen(v, u)
<1>1. VolumeOK(u)
  BY BeginsOK
<1>2. SameBut(v, u, { "fuse", "fault" })
  <2>1. CASE u = v
    BY <2>1 DEF SameBut
  <2>2. CASE u # v
    <3>1. PICK n \in Nat, k \in Faults : u = [ v EXCEPT !.fuse = n, !.fault = k ]
      BY <2>2 DEF Begins
    <3> QED
      BY <3>1, Fields DEF SameBut, VolumeFields, TableFields
  <2> QED
    BY <2>1, <2>2
<1>3. VolumeFields \subseteq DOMAIN v
  BY Fields
<1>4. /\ u.disk = v.disk /\ u.sector = v.sector /\ u.buffer = v.buffer /\ u.dirty = v.dirty /\ u.dead = v.dead
      /\ u.o = v.o /\ u.locks = v.locks /\ u.misled = v.misled
  BY <1>2, <1>3 DEF SameBut, VolumeFields, TableFields
<1> QED
  BY <1>1, <1>2, <1>4, AsSeen

\* A call has ended.
LEMMA AtRestHolds ==
  ASSUME NEW v, VolumeOK(v)
  PROVE  LET w == AtRest(v)
         IN  Seen(v, w) /\ VolumeOK(w) /\ w.dead = v.dead /\ w.locks = v.locks /\ w.misled = v.misled
             /\ Logical(w) = Logical(v) /\ w.disk = v.disk
<1> DEFINE w == AtRest(v)
           Lost == { "dir", "o", "data", "fuse", "fault", "result", "value", "found" }
<1>1. VolumeFields \subseteq DOMAIN v
  BY Fields
<1>2. \A f \in DOMAIN v \ Lost : w[f] = v[f]
  BY <1>1 DEF AtRest, VolumeFields, TableFields
<1>3. VolumeOK(w)
  BY AtRestOK
<1> HIDE DEF w
<1>4. /\ w.disk = v.disk /\ w.sector = v.sector /\ w.buffer = v.buffer /\ w.dirty = v.dirty /\ w.dead = v.dead
      /\ w.locks = v.locks /\ w.misled = v.misled
  BY <1>1, <1>2 DEF VolumeFields, TableFields
<1> QED
  BY <1>3, <1>4, AsSeen DEF w

\* The object of a call is put in.
LEMMA HeldHolds ==
  ASSUME NEW v, VolumeOK(v), NEW o
  PROVE  LET w == [ v EXCEPT !.o = o ]
         IN  Seen(v, w) /\ VolumeOK(w) /\ w.o = o /\ w.dead = v.dead /\ w.locks = v.locks /\ w.misled = v.misled
             /\ w.fault = v.fault
<1> DEFINE w == [ v EXCEPT !.o = o ]
<1>1. VolumeFields \subseteq DOMAIN v
  BY Fields
<1>2. w = [ x \in DOMAIN w |-> w[x] ] /\ SameBut(v, w, { "o" }) /\ w.o = o
  BY Fields DEF SameBut, VolumeFields, TableFields
<1> HIDE DEF w
<1>3. SameBut(v, w, OuterFields)
  BY <1>2 DEF SameBut, OuterFields
<1>4. VolumeOK(w) /\ w.fault = v.fault /\ w.dead = v.dead
  BY <1>2, <1>3, OuterStays
<1>5. Seen(v, w)
  BY <1>2, <1>3, OuterSeen
<1>6. w.locks = v.locks /\ w.misled = v.misled
  BY <1>1, <1>2 DEF SameBut, VolumeFields
<1> QED
  BY <1>2, <1>4, <1>5, <1>6 DEF w

-----------------------------------------------------------------------------
(* The table of open files. *)

\* Who has the file on key k open for reading.
Readers(os, k) == { f \in Files : os[f].open /\ ~os[f].write /\ os[f].key = k }

\* A file that is written has one object, and its count says so.  Of those that are read the
\* count is at least the number of objects: a close that fails leaves its one.
Counted(locks, os) ==
  /\ \A k \in DOMAIN locks : locks[k] \in 1 .. WriteOpen
  /\ \A f \in Writers(os) : os[f].key \in DOMAIN locks /\ locks[os[f].key] = WriteOpen
  /\ \A f, g \in Writers(os) : os[f].key = os[g].key => f = g
  /\ \A k : Readers(os, k) # {} =>
       k \in DOMAIN locks /\ locks[k] # WriteOpen /\ Cardinality(Readers(os, k)) <= locks[k]

LEMMA FewerReaders ==
  ASSUME IsFiniteSet(Files), NEW os, NEW k, NEW S, S \subseteq Readers(os, k)
  PROVE  /\ IsFiniteSet(S) /\ Cardinality(S) \in Nat /\ Cardinality(Readers(os, k)) \in Nat
         /\ Cardinality(S) <= Cardinality(Readers(os, k)) /\ IsFiniteSet(Readers(os, k))
<1>1. IsFiniteSet(Readers(os, k))
  BY FS_Subset DEF Readers
<1> QED
  BY <1>1, FS_Subset, FS_CardinalityType

\* Objects that are still open are the same.
LEMMA CountedFewer ==
  ASSUME IsFiniteSet(Files), NEW locks, NEW os, Counted(locks, os), NEW ns,
         \A f \in Files : ns[f].open => os[f].open /\ ns[f].write = os[f].write /\ ns[f].key = os[f].key
  PROVE  Counted(locks, ns)
<1>1. Writers(ns) \subseteq Writers(os) /\ \A f \in Writers(ns) : ns[f].key = os[f].key
  BY DEF Writers
<1>2. ASSUME NEW k, Readers(ns, k) # {}
      PROVE  k \in DOMAIN locks /\ locks[k] # WriteOpen /\ Cardinality(Readers(ns, k)) <= locks[k]
  <2>1. Readers(ns, k) \subseteq Readers(os, k)
    BY DEF Readers
  <2>2. k \in DOMAIN locks /\ locks[k] # WriteOpen /\ Cardinality(Readers(os, k)) <= locks[k] /\ locks[k] \in 1 .. WriteOpen
    BY <1>2, <2>1 DEF Counted
  <2> HIDE DEF WriteOpen
  <2>3. /\ Cardinality(Readers(ns, k)) \in Nat /\ Cardinality(Readers(os, k)) \in Nat
        /\ Cardinality(Readers(ns, k)) <= Cardinality(Readers(os, k))
    BY <2>1, FewerReaders
  <2>4. locks[k] \in Nat
    BY <2>2 DEF WriteOpen
  <2> QED
    BY <2>2, <2>3, <2>4
<1> QED
  BY <1>1, <1>2 DEF Counted

\* Nothing is open.
LEMMA CountedNone ==
  ASSUME NEW os, \A f \in Files : os[f].open = FALSE
  PROVE  Counted(<< >>, os) /\ Writers(os) = {}
  BY DEF Counted, Writers, Readers

\* A file is opened.
LEMMA CountedOpen ==
  ASSUME IsFiniteSet(Files), NEW locks, NEW os, DOMAIN os = Files, Counted(locks, os), NEW f \in Files, ~os[f].open, NEW o,
         o.open = TRUE, o.write \in BOOLEAN, NEW ns, ns = [ os EXCEPT ![f] = o ], NEW opens,
         opens = IF o.key \in DOMAIN locks THEN locks[o.key] ELSE 0,
         opens # WriteOpen, o.write => ~(opens > 0), ~o.write => opens + 1 # WriteOpen
  PROVE  /\ Counted(Entered(locks, o.key, IF o.write THEN WriteOpen ELSE opens + 1), ns)
         /\ o.write => o.key \notin DOMAIN locks
<1> DEFINE n == IF o.write THEN WriteOpen ELSE opens + 1
           now == Entered(locks, o.key, n)
<1>1. opens \in 0 .. WriteOpen /\ (opens = 0 <=> o.key \notin DOMAIN locks)
  BY DEF Counted, WriteOpen
<1>2. o.write => o.key \notin DOMAIN locks
  BY <1>1
<1>3. n \in 1 .. WriteOpen
  BY <1>1 DEF WriteOpen
<1>4. DOMAIN now = DOMAIN locks \cup { o.key } /\ now[o.key] = n /\ \A k \in DOMAIN locks : k # o.key => now[k] = locks[k]
  BY DEF Entered
<1> HIDE DEF now
<1>5. ns[f] = o /\ \A g \in Files : g # f => ns[g] = os[g]
  OBVIOUS
<1>6. \A k \in DOMAIN now : now[k] \in 1 .. WriteOpen
  BY <1>3, <1>4 DEF Counted
<1>7. \A g \in Writers(os) : g # f /\ (os[g].key = o.key => ~o.write /\ opens = WriteOpen)
  BY <1>2 DEF Counted, Writers
<1>8. Writers(ns) = IF o.write THEN Writers(os) \cup { f } ELSE Writers(os)
  BY <1>5 DEF Writers
<1>9. ASSUME NEW g \in Writers(ns) PROVE ns[g].key \in DOMAIN now /\ now[ns[g].key] = WriteOpen
  <2>1. CASE g = f
    <3>1. o.write
      BY <2>1, <1>5, <1>9 DEF Writers
    <3> QED
      BY <2>1, <3>1, <1>4, <1>5
  <2>2. CASE g # f
    <3>1. g \in Writers(os) /\ ns[g] = os[g] /\ os[g].key # o.key
      BY <2>2, <1>5, <1>7, <1>9 DEF Writers
    <3> QED
      BY <3>1, <1>4 DEF Counted
  <2> QED
    BY <2>1, <2>2
<1>10. \A g, h \in Writers(ns) : ns[g].key = ns[h].key => g = h
  BY <1>5, <1>7, <1>8 DEF Counted, Writers
<1>11. ASSUME NEW k, Readers(ns, k) # {}
       PROVE  k \in DOMAIN now /\ now[k] # WriteOpen /\ Cardinality(Readers(ns, k)) <= now[k]
  <2>1. CASE ~o.write /\ k = o.key
    <3>1. f \notin Readers(os, k) /\ Readers(ns, k) = Readers(os, k) \cup { f }
      BY <2>1, <1>5 DEF Readers
    <3>2. IsFiniteSet(Readers(os, k)) /\ Cardinality(Readers(os, k)) \in Nat
      BY FewerReaders
    <3>3. Cardinality(Readers(ns, k)) = Cardinality(Readers(os, k)) + 1
      BY <3>1, <3>2, FS_AddElement
    <3>4. Cardinality(Readers(os, k)) <= opens
      <4>1. CASE Readers(os, k) = {}
        BY <4>1, <1>1, FS_EmptySet
      <4>2. CASE Readers(os, k) # {}
        BY <4>2, <2>1 DEF Counted
      <4> QED
        BY <4>1, <4>2
    <3>5. now[k] = opens + 1 /\ k \in DOMAIN now
      BY <2>1, <1>4
    <3> QED
      BY <3>2, <3>3, <3>4, <3>5, <2>1, <1>1
  <2>2. CASE o.write \/ k # o.key
    <3>1. Readers(ns, k) = Readers(os, k)
      BY <2>2, <1>5 DEF Readers
    <3>2. k \in DOMAIN locks /\ locks[k] # WriteOpen /\ Cardinality(Readers(os, k)) <= locks[k]
      BY <3>1, <1>11 DEF Counted
    <3>3. k # o.key
      BY <2>2, <3>2, <1>2
    <3> QED
      BY <3>1, <3>2, <3>3, <1>4
  <2> QED
    BY <2>1, <2>2
<1> QED
  BY <1>2, <1>6, <1>9, <1>10, <1>11 DEF Counted, now

\* A file is closed.
LEMMA CountedClose ==
  ASSUME IsFiniteSet(Files), NEW locks, NEW os, DOMAIN os = Files, Counted(locks, os), NEW f \in Files, os[f].open,
         os[f].write \in BOOLEAN, NEW ns, ns = [ os EXCEPT ![f] = Closed ], NEW now,
         now = IF locks[os[f].key] \in { 1, WriteOpen } THEN [ k \in DOMAIN locks \ { os[f].key } |-> locks[k] ]
               ELSE [ locks EXCEPT ![os[f].key] = locks[os[f].key] - 1 ]
  PROVE  Counted(now, ns)
<1> DEFINE key == os[f].key
           n == locks[key]
<1>1. ns[f].open = FALSE /\ \A g \in Files : g # f => ns[g] = os[g]
  BY DEF Closed
<1>2. Writers(ns) = Writers(os) \ { f }
  BY <1>1 DEF Writers
<1>3. key \in DOMAIN locks /\ n \in 1 .. WriteOpen
  BY DEF Counted, Writers, Readers
<1>4. \A k : k # key => Readers(ns, k) = Readers(os, k)
  BY <1>1 DEF Readers
<1>5. \A k \in DOMAIN now : k \in DOMAIN locks /\ (k # key => now[k] = locks[k])
  OBVIOUS
<1>6. \A k \in DOMAIN locks : k # key => k \in DOMAIN now
  OBVIOUS
<1>7. key \in DOMAIN now => n \notin { 1, WriteOpen } /\ now[key] = n - 1
  BY <1>3
<1>8. key \notin DOMAIN now => n \in { 1, WriteOpen }
  BY <1>3
<1> HIDE DEF key
<1>9. \A k \in DOMAIN now : now[k] \in 1 .. WriteOpen
  BY <1>3, <1>5, <1>7 DEF Counted, WriteOpen
<1>10. ASSUME NEW g \in Writers(ns) PROVE ns[g].key \in DOMAIN now /\ now[ns[g].key] = WriteOpen
  <2>1. g # f /\ ns[g] = os[g] /\ g \in Writers(os)
    BY <1>1, <1>2 DEF Writers
  <2>2. os[g].key # key
    BY <2>1 DEF Counted, Writers, Readers, key
  <2> QED
    BY <2>1, <2>2, <1>5, <1>6 DEF Counted
<1>11. \A g, h \in Writers(ns) : ns[g].key = ns[h].key => g = h
  BY <1>1, <1>2 DEF Counted, Writers
<1>12. ASSUME NEW k, Readers(ns, k) # {}
       PROVE  k \in DOMAIN now /\ now[k] # WriteOpen /\ Cardinality(Readers(ns, k)) <= now[k]
  <2>1. CASE k # key
    BY <2>1, <1>4, <1>5, <1>6, <1>12 DEF Counted
  <2>2. CASE k = key
    <3>1. Readers(ns, k) = Readers(os, k) \ { f }
      BY <2>2, <1>1 DEF Readers
    <3>2. Readers(os, k) # {} /\ n # WriteOpen /\ Cardinality(Readers(os, k)) <= n
      BY <2>2, <3>1, <1>12 DEF Counted
    <3>3. ~os[f].write
      BY <2>2, <3>2 DEF Counted, Writers, key
    <3>4. f \in Readers(os, k)
      BY <2>2, <3>3 DEF Readers, key
    <3>5. /\ IsFiniteSet(Readers(os, k)) /\ Cardinality(Readers(os, k)) \in Nat
          /\ Cardinality(Readers(ns, k)) = Cardinality(Readers(os, k)) - 1
      BY <3>1, <3>4, FewerReaders, FS_RemoveElement
    <3>6. IsFiniteSet(Readers(ns, k)) /\ Cardinality(Readers(ns, k)) # 0 /\ Cardinality(Readers(ns, k)) \in Nat
      BY <3>1, <3>5, <1>12, FS_RemoveElement, FS_EmptySet, FS_Subset, FS_CardinalityType
    <3>7. n # 1
      BY <3>2, <3>5, <3>6, <1>3
    <3>8. k \in DOMAIN now /\ now[k] = n - 1
      BY <2>2, <3>2, <3>7, <1>7, <1>8
    <3> QED
      BY <3>2, <3>5, <3>8, <1>3
  <2> QED
    BY <2>1, <2>2
<1> QED
  BY <1>9, <1>10, <1>11, <1>12 DEF Counted

-----------------------------------------------------------------------------
(* What open files and the volume have to do with each other. *)

\* The entry of the object o is where its key says, in the root directory.
AtKey(o, a) ==
  \E i \in Nat, c \in Clusters :
    o.key = << 0, i >> /\ At(a.links, RootCluster, i \div EntriesPerCluster, c) /\ Own(o) = PlaceAt(c, i)

\* An object that only reads has changed nothing; a size that was cut is yet to be written.
Honest(o) == /\ o.written \/ o.shortened => o.write
             /\ o.shortened /\ o.result = "OK" => o.written

\* The volume v respects a, and a says of the objects os where their entries are, which of
\* these are stale, and whose clusters they go to.
Agree(v, os, a) ==
  /\ Holds(v, a)
  /\ a.files = { Own(os[f]) : f \in Writers(os) }
  /\ a.loose \subseteq { Own(os[f]) : f \in { g \in Writers(os) : os[g].shortened } }
  /\ \A f \in Writers(os) : Ready(os[f], a, Own(os[f])) /\ AtKey(os[f], a)
  /\ \A f, g \in Writers(os) : Own(os[f]) = Own(os[g]) => f = g

LEMMA AgreeHas ==
  ASSUME NEW v, NEW os, NEW a, Agree(v, os, a)
  PROVE  /\ Holds(v, a) /\ VolumeOK(v) /\ Rooted(a) /\ a.loose \subseteq a.files
         /\ \A f \in Writers(os) : Own(os[f]) \in a.files /\ Own(os[f])[1] \in DataSectors
         /\ \A p \in a.files : p[1] \in DataSectors
         /\ (\A f \in Files : ~os[f].shortened) => a.loose = {}
<1>1. ASSUME NEW f \in Writers(os) PROVE Own(os[f])[1] \in DataSectors
  <2>1. PICK i \in Nat, c \in Clusters : Own(os[f]) = PlaceAt(c, i)
    BY DEF Agree, AtKey
  <2>2. ClusterToSector(c) + SectorInCluster(i) \in DataSectors
    BY SectorNumbers, ClusterPlaces
  <2> QED
    BY <2>1, <2>2 DEF PlaceAt
<1> QED
  BY <1>1 DEF Agree, Holds, Intact, Writers

\* The table of open files has the keys of those that are written.
LEMMA AgreeLocked ==
  ASSUME NEW v, NEW os, NEW a, Agree(v, os, a), Counted(v.locks, os), NEW u, u.locks = v.locks
  PROVE  Locked(u, a)
  BY DEF Agree, Counted, AtKey, Locked

\* No object that writes a file is touched.
LEMMA AgreeSpares ==
  ASSUME NEW v, NEW os, NEW a, Agree(v, os, a), NEW b, Spares(a, b), NEW w, Holds(w, b), NEW ns,
         Writers(ns) = Writers(os), \A f \in Writers(os) : ns[f] = os[f]
  PROVE  Agree(w, ns, b)
<1>1. b.loose = a.loose /\ b.files = a.files
  BY DEF Spares
<1>2. ASSUME NEW f \in Writers(os) PROVE Ready(os[f], b, Own(os[f])) /\ AtKey(os[f], b)
  <2>1. Own(os[f]) \in a.files /\ Ready(os[f], a, Own(os[f])) /\ AtKey(os[f], a)
    BY DEF Agree
  <2>2. \A s, n, c : At(a.links, s, n, c) => At(b.links, s, n, c)
    BY AtMore DEF Spares
  <2>3. Tied(os[f], b, Own(os[f]))
    BY <2>1 DEF Ready, Tied, Spares
  <2>4. OnChain(os[f], a) => OnChain(os[f], b)
    BY <2>2 DEF OnChain
  <2> QED
    BY <2>1, <2>2, <2>3, <2>4 DEF Ready, AtKey
<1>3. b.files = { Own(ns[f]) : f \in Writers(ns) }
  BY <1>1 DEF Agree
<1>4. b.loose \subseteq { Own(ns[f]) : f \in { g \in Writers(ns) : ns[g].shortened } }
  BY <1>1 DEF Agree
<1> QED
  BY <1>2, <1>3, <1>4 DEF Agree

\* What a says of the file whose entry is at p, and of the root directory, b does.
Upholds(a, b, p) ==
  /\ p \in b.files
  /\ \A h \in a.claims :
       h[1] \in { p, RootPlace } => h \in b.claims /\ \A n, c : At(a.links, h[2], n, c) => At(b.links, h[2], n, c)

LEMMA RootUpheld ==
  ASSUME NEW a, Rooted(a), NEW b,
         \A h \in a.claims : h[1] = RootPlace => \A n, c : At(a.links, h[2], n, c) => At(b.links, h[2], n, c)
  PROVE  /\ \A n, c : At(a.links, RootCluster, n, c) => At(b.links, RootCluster, n, c)
         /\ \A o : AtKey(o, a) => AtKey(o, b)
<1>1. RootClaim \in a.claims /\ RootClaim[1] = RootPlace /\ RootClaim[2] = RootCluster
  BY DEF Rooted, RootClaim
<1>2. \A n, c : At(a.links, RootCluster, n, c) => At(b.links, RootCluster, n, c)
  BY <1>1
<1> QED
  BY <1>2 DEF AtKey

\* What is said of a file that is open stays true while another one gives up clusters.
LEMMA OthersReady ==
  ASSUME NEW a, Rooted(a), NEW b, NEW o, o.write, Upholds(a, b, Own(o)), Ready(o, a, Own(o)), AtKey(o, a)
  PROVE  Ready(o, b, Own(o)) /\ AtKey(o, b)
<1>1. o.start # 0 => << Own(o), o.start >> \in a.claims
  BY DEF Ready, Tied
<1>2. Tied(o, b, Own(o))
  BY <1>1 DEF Tied, Upholds
<1>3. ASSUME OnChain(o, a) PROVE OnChain(o, b)
  <2>1. CASE o.start = 0
    <3>1. \A n : ~At(a.links, o.start, n, o.cluster)
      BY <2>1, TableAssumption DEF At, Clusters
    <3> QED
      BY <3>1, <1>3 DEF OnChain
  <2>2. CASE o.start # 0
    <3>1. \A n, c : At(a.links, o.start, n, c) => At(b.links, o.start, n, c)
      BY <2>2, <1>1 DEF Upholds
    <3> QED
      BY <3>1, <1>3 DEF OnChain
  <2> QED
    BY <2>1, <2>2
<1>4. AtKey(o, b)
  BY RootUpheld DEF Upholds
<1> QED
  BY <1>2, <1>3, <1>4 DEF Ready

\* A call on an object that writes its file.
LEMMA AgreeMoves ==
  ASSUME NEW v, NEW os, NEW a, Agree(v, os, a), DOMAIN os = Files, NEW f \in Writers(os), NEW b, Eases(a, b, Own(os[f])),
         NEW w, Holds(w, b), NEW q, q.open, q.write, q.key = os[f].key, Own(q) = Own(os[f]), Ready(q, b, Own(q)),
         Own(q) \in b.loose => q.shortened, NEW ns, ns = [ os EXCEPT ![f] = q ]
  PROVE  Agree(w, ns, b)
<1> DEFINE p == Own(os[f])
<1>1. /\ f \in Files /\ ns[f] = q /\ \A g \in Files : g # f => ns[g] = os[g]
  BY DEF Writers
<1>2. Writers(ns) = Writers(os)
  BY <1>1 DEF Writers
<1>3. p # RootPlace /\ Rooted(a)
  BY AgreeHas, SectorPlaces DEF RootPlace
<1>4. \A g \in Writers(os) : g # f => Own(os[g]) # p
  BY DEF Agree
<1>5. b.files = a.files /\ b.loose \subseteq a.loose \cup { p }
  BY DEF Eases
<1>6. \A g \in Writers(ns) : Own(ns[g]) = Own(os[g])
  BY <1>1, <1>2 DEF Writers
<1>7. b.files = { Own(ns[g]) : g \in Writers(ns) }
  BY <1>2, <1>5, <1>6 DEF Agree
<1>8. ASSUME NEW r \in b.loose PROVE r \in { Own(ns[g]) : g \in { h \in Writers(ns) : ns[h].shortened } }
  <2>1. CASE r = p
    BY <2>1, <1>1, <1>2, <1>8
  <2>2. CASE r # p
    <3>1. PICK g \in Writers(os) : os[g].shortened /\ r = Own(os[g])
      BY <2>2, <1>5, <1>8 DEF Agree
    <3>2. g # f /\ g \in Writers(ns) /\ ns[g] = os[g]
      BY <3>1, <2>2, <1>1, <1>2 DEF Writers
    <3> QED
      BY <3>1, <3>2
  <2> QED
    BY <2>1, <2>2
<1>9. ASSUME NEW g \in Writers(ns) PROVE Ready(ns[g], b, Own(ns[g])) /\ AtKey(ns[g], b)
  <2>1. CASE g = f
    <3>1. AtKey(os[f], a)
      BY DEF Agree
    <3>2. AtKey(os[f], b)
      BY <3>1, <1>3, RootUpheld DEF Eases
    <3>3. AtKey(q, b)
      BY <3>2 DEF AtKey
    <3> QED
      BY <2>1, <3>3, <1>1
  <2>2. CASE g # f
    <3>1. g \in Writers(os) /\ ns[g] = os[g] /\ Own(os[g]) # p /\ os[g].write
      BY <2>2, <1>1, <1>2, <1>4, <1>9 DEF Writers
    <3>2. Ready(os[g], a, Own(os[g])) /\ AtKey(os[g], a)
      BY <3>1 DEF Agree
    <3>3. Upholds(a, b, Own(os[g]))
      BY <3>1, <3>2, <1>3 DEF Upholds, Eases, Ready, Tied
    <3> QED
      BY <3>1, <3>2, <3>3, <1>3, OthersReady
  <2> QED
    BY <2>1, <2>2
<1>10. \A g, h \in Writers(ns) : Own(ns[g]) = Own(ns[h]) => g = h
  BY <1>2, <1>6 DEF Agree
<1> QED
  BY <1>7, <1>8, <1>9, <1>10 DEF Agree

\* An object that wrote its file is closed, and nothing is left to be written.
LEMMA AgreeLeaves ==
  ASSUME NEW v, NEW os, NEW a, Agree(v, os, a), DOMAIN os = Files, NEW f \in Writers(os), NEW b,
         Leaves(Firm(a, Own(os[f])), b, Own(os[f])), NEW w, Holds(w, b), NEW ns, ns = [ os EXCEPT ![f] = Closed ]
  PROVE  Agree(w, ns, b)
<1> DEFINE p == Own(os[f])
<1>1. /\ f \in Files /\ ns[f].open = FALSE /\ \A g \in Files : g # f => ns[g] = os[g]
  BY DEF Writers, Closed
<1>2. Writers(ns) = Writers(os) \ { f }
  BY <1>1 DEF Writers
<1>3. p # RootPlace /\ Rooted(a)
  BY AgreeHas, SectorPlaces DEF RootPlace
<1>4. \A g \in Writers(os) : g # f => Own(os[g]) # p
  BY DEF Agree
<1>5. /\ b.claims = a.claims /\ b.files = a.files \ { p } /\ b.loose = a.loose \ { p }
      /\ \A h \in a.claims :
           h[1] \in (a.files \cup { RootPlace }) \ { p } => \A n, c : At(a.links, h[2], n, c) => At(b.links, h[2], n, c)
  BY FirmHas DEF Leaves
<1>6. \A g \in Writers(ns) : ns[g] = os[g] /\ g # f /\ g \in Writers(os) /\ Own(os[g]) # p
  BY <1>1, <1>2, <1>4 DEF Writers
<1>7. b.files = { Own(ns[g]) : g \in Writers(ns) }
  <2>1. a.files = { Own(os[g]) : g \in Writers(os) }
    BY DEF Agree
  <2> QED
    BY <2>1, <1>2, <1>5, <1>6
<1>8. ASSUME NEW r \in b.loose PROVE r \in { Own(ns[g]) : g \in { h \in Writers(ns) : ns[h].shortened } }
  <2>1. PICK g \in Writers(os) : os[g].shortened /\ r = Own(os[g])
    BY <1>5, <1>8 DEF Agree
  <2>2. r # p /\ g # f
    BY <2>1, <1>5, <1>8
  <2> QED
    BY <2>1, <2>2, <1>2, <1>6
<1>9. ASSUME NEW g \in Writers(ns) PROVE Ready(ns[g], b, Own(ns[g])) /\ AtKey(ns[g], b)
  <2>1. ns[g] = os[g] /\ g \in Writers(os) /\ Own(os[g]) # p /\ os[g].write
    BY <1>6 DEF Writers
  <2>2. Ready(os[g], a, Own(os[g])) /\ AtKey(os[g], a)
    BY <2>1 DEF Agree
  <2>3. Upholds(a, b, Own(os[g]))
    BY <2>1, <2>2, <1>3, <1>5 DEF Upholds, Ready, Tied
  <2> QED
    BY <2>1, <2>2, <2>3, <1>3, OthersReady
<1>10. \A g, h \in Writers(ns) : Own(ns[g]) = Own(ns[h]) => g = h
  BY <1>6 DEF Agree
<1> QED
  BY <1>7, <1>8, <1>9, <1>10 DEF Agree

\* A file is opened to be written.
LEMMA AgreeJoins ==
  ASSUME NEW v, NEW os, NEW a, Agree(v, os, a), DOMAIN os = Files, NEW f \in Files, ~os[f].open, NEW o, o.open, o.write,
         Own(o) \notin a.files, NEW b, Joins(a, b, Own(o)), NEW w, Holds(w, b),
         Ready(o, b, Own(o)), AtKey(o, b), NEW ns, ns = [ os EXCEPT ![f] = o ]
  PROVE  Agree(w, ns, b)
<1>1. ns[f] = o /\ \A g \in Files : g # f => ns[g] = os[g]
  OBVIOUS
<1>2. Writers(ns) = Writers(os) \cup { f } /\ f \notin Writers(os)
  BY <1>1 DEF Writers
<1>3. \A g \in Writers(os) : ns[g] = os[g] /\ g # f /\ Own(os[g]) # Own(o)
  BY <1>1, <1>2 DEF Writers, Agree
<1>4. b.files = a.files \cup { Own(o) } /\ b.loose = a.loose /\ b.claims = a.claims
  BY DEF Joins
<1>5. b.files = { Own(ns[g]) : g \in Writers(ns) }
  <2>1. a.files = { Own(os[g]) : g \in Writers(os) }
    BY DEF Agree
  <2>2. \A g \in Writers(ns) : Own(ns[g]) \in b.files
    BY <2>1, <1>1, <1>2, <1>3, <1>4
  <2>3. ASSUME NEW r \in b.files PROVE \E g \in Writers(ns) : r = Own(ns[g])
    <3>1. CASE r = Own(o)
      BY <3>1, <1>1, <1>2
    <3>2. CASE r \in a.files
      <4>1. PICK g \in Writers(os) : r = Own(os[g])
        BY <3>2, <2>1
      <4>2. ns[g] = os[g] /\ g \in Writers(ns)
        BY <1>2, <1>3
      <4> QED
        BY <4>1, <4>2
    <3> QED
      BY <3>1, <3>2, <1>4
  <2> QED
    BY <2>2, <2>3
<1>6. b.loose \subseteq { Own(ns[g]) : g \in { h \in Writers(ns) : ns[h].shortened } }
  <2> SUFFICES ASSUME NEW r \in a.loose PROVE r \in { Own(ns[g]) : g \in { h \in Writers(ns) : ns[h].shortened } }
    BY <1>4
  <2>1. PICK g \in Writers(os) : os[g].shortened /\ r = Own(os[g])
    BY DEF Agree
  <2> QED
    BY <2>1, <1>2, <1>3
<1>8. ASSUME NEW g \in Writers(os) PROVE Ready(os[g], b, Own(os[g])) /\ AtKey(os[g], b)
  <2>1. Ready(os[g], a, Own(os[g])) /\ AtKey(os[g], a) /\ os[g].write
    BY DEF Agree, Writers
  <2>2. Upholds(a, b, Own(os[g]))
    BY <2>1, <1>4 DEF Upholds, Joins, Ready, Tied
  <2> QED
    BY <2>1, <2>2, AgreeHas, OthersReady
<1>9. \A g \in Writers(ns) : Ready(ns[g], b, Own(ns[g])) /\ AtKey(ns[g], b)
  BY <1>1, <1>2, <1>3, <1>8
<1>10. \A g, h \in Writers(ns) : Own(ns[g]) = Own(ns[h]) => g = h
  BY <1>1, <1>2, <1>3 DEF Agree
<1> QED
  BY <1>5, <1>6, <1>9, <1>10 DEF Agree

-----------------------------------------------------------------------------
(* The invariant. *)

\* The volume v and the objects os are at peace: nobody has a claim to another's clusters.
Peace(v, os) ==
  /\ \A f \in Files : os[f].open => Honest(os[f])
  /\ Counted(v.locks, os)
  /\ \E a : Agree(v, os, a)

CInv == Settled => ~vol.dead /\ ~vol.misled /\ Peace(vol, obj)

\* What a call has not done if the volume is still followed after it.
LEMMA HealthCalm ==
  ASSUME NEW op, NEW on, NEW w, HealthAfter(op, on, w) \in Followed
  PROVE  /\ ~w.misled /\ ~(w.dead /\ Exposed(w, on)) /\ ~(op = "open" /\ Halved(w))
         /\ ~(op = "close" /\ w.result # "OK" /\ Stale(w, on))
         /\ ~(op = "open" /\ w.result = "OK" /\ ~w.o.write /\ w.locks[w.o.key] = WriteOpen)
         /\ ~(on # NoFile /\ op \in { "sync", "close" } /\ obj[on].written
              /\ w.o.dirSector \in Sectors \ { w.o.ownSector })
  BY DEF HealthAfter, Followed, Halved

\* A volume that has just been mounted.
LEMMA MountPeace ==
  ASSUME NEW d, IsCard(d), \A s \in Sectors : Belongs(s, d[s]), Mountable(d),
         NEW os, \A f \in Files : os[f].open = FALSE
  PROVE  ~Mount(d).dead /\ ~Mount(d).misled /\ Peace(Mount(d), os)
<1> DEFINE v == Mount(d)
           a == AtMount(d)
<1>1. Holds(v, a) /\ a.files = {} /\ a.loose = {}
  BY MountHolds
<1>2. v.dead = FALSE /\ v.misled = FALSE /\ v.locks = << >>
  BY DEF Mount
<1> HIDE DEF v, a
<1>3. Counted(v.locks, os) /\ Writers(os) = {}
  BY <1>2, CountedNone
<1>4. Agree(v, os, a)
  BY <1>1, <1>3 DEF Agree
<1>5. Peace(v, os)
  BY <1>3, <1>4 DEF Peace
<1> QED
  BY <1>2, <1>5 DEF v

\* A volume between two calls.
LEMMA RestPeace ==
  ASSUME NEW w, VolumeOK(w), ~w.dead, ~w.misled, NEW os, Peace(w, os)
  PROVE  ~AtRest(w).dead /\ ~AtRest(w).misled /\ Peace(AtRest(w), os)
<1> DEFINE v == AtRest(w)
<1>1. Seen(w, v) /\ v.dead = w.dead /\ v.misled = w.misled /\ v.locks = w.locks
  BY AtRestHolds
<1> HIDE DEF v
<1>2. \A a : Agree(w, os, a) => Agree(v, os, a)
  BY <1>1, SeenHolds DEF Agree
<1> QED
  BY <1>1, <1>2 DEF Peace, v

\* The end of every call.
LEMMA EndsPeace ==
  ASSUME NEW op, NEW on, NEW path, NEW arg, NEW w, VolumeOK(w), Ends(op, on, path, arg, w),
         Settled' /\ w.dead => Mountable(w.disk),
         Settled' /\ ~w.dead => Peace(w, obj')
  PROVE  CInv'
<1> SUFFICES ASSUME Settled' PROVE ~vol'.dead /\ ~vol'.misled /\ Peace(vol', obj')
  BY DEF CInv, Settled, Peace, Counted, Agree, Writers, Readers, Honest
<1>1. ~w.misled
  BY HealthCalm DEF Ends, Settled
<1>2. CASE w.dead
  <2>1. vol' = Mount(w.disk) /\ obj' = [ f \in Files |-> Closed ]
    BY <1>2 DEF Ends
  <2>2. \A f \in Files : obj'[f].open = FALSE
    BY <2>1 DEF Closed
  <2>3. IsCard(w.disk) /\ \A s \in Sectors : Belongs(s, w.disk[s])
    BY DEF VolumeOK, IsVolume
  <2>4. Mountable(w.disk)
    BY <1>2
  <2> QED
    BY <2>1, <2>2, <2>3, <2>4, MountPeace
<1>3. CASE ~w.dead
  <2>1. vol' = AtRest(w) /\ Peace(w, obj')
    BY <1>3 DEF Ends
  <2> QED
    BY <2>1, <1>1, <1>3, RestPeace
<1> QED
  BY <1>2, <1>3

\* The start of a call: of a method of cFatFs,
LEMMA BeginsPeace ==
  ASSUME IInv, CInv, Settled, NEW u, Begins(vol, u)
  PROVE  /\ VolumeOK(u) /\ u.locks = vol.locks /\ ~u.dead /\ ~u.misled
         /\ Counted(vol.locks, obj) /\ (\A f \in Files : obj[f].open => Honest(obj[f]))
         /\ \E a : Agree(vol, obj, a) /\ Holds(u, a)
<1>1. VolumeOK(vol) /\ vol.fault = "none"
  BY DEF IInv, TypeOK
<1>2. ~vol.dead /\ ~vol.misled /\ Peace(vol, obj)
  BY DEF CInv
<1>3. VolumeOK(u) /\ u.dead = vol.dead /\ u.locks = vol.locks /\ u.misled = vol.misled /\ Seen(vol, u)
  BY <1>1, BeginsHolds
<1>4. PICK a : Agree(vol, obj, a)
  BY <1>2 DEF Peace
<1>5. Holds(u, a)
  BY <1>3, <1>4, SeenHolds DEF Agree
<1> QED
  BY <1>2, <1>3, <1>4, <1>5 DEF Peace

\* and of one of cFile.
LEMMA HeldPeace ==
  ASSUME IInv, CInv, Settled, NEW f \in Files, NEW u, Begins(Held(f), u)
  PROVE  /\ VolumeOK(u) /\ u.locks = vol.locks /\ ~u.dead /\ ~u.misled /\ u.o = obj[f] /\ ObjectOK(obj[f]) /\ LooseOK(obj[f])
         /\ Counted(vol.locks, obj) /\ (\A g \in Files : obj[g].open => Honest(obj[g])) /\ DOMAIN obj = Files
         /\ \E a : Agree(vol, obj, a) /\ Holds(u, a)
<1>1. VolumeOK(vol) /\ vol.fault = "none" /\ ObjectOK(obj[f]) /\ DOMAIN obj = Files
  BY DEF IInv, TypeOK, Settled, Followed
<1>2. ~vol.dead /\ ~vol.misled /\ Peace(vol, obj)
  BY DEF CInv
<1> DEFINE h == Held(f)
<1>3. /\ VolumeOK(h) /\ h.o = obj[f] /\ h.dead = vol.dead /\ h.locks = vol.locks /\ h.misled = vol.misled
      /\ Seen(vol, h) /\ h.fault = vol.fault
  BY <1>1, HeldHolds DEF Held
<1> HIDE DEF h
<1>4. VolumeOK(u) /\ u.dead = h.dead /\ u.locks = h.locks /\ u.misled = h.misled /\ u.o = h.o /\ Seen(h, u)
  <2>1. Begins(h, u)
    BY DEF h
  <2> QED
    BY <2>1, <1>1, <1>3, BeginsHolds
<1>5. PICK a : Agree(vol, obj, a)
  BY <1>2 DEF Peace
<1>6. Holds(u, a)
  BY <1>3, <1>4, <1>5, SeenHolds DEF Agree
<1> QED
  BY <1>1, <1>2, <1>3, <1>4, <1>5, <1>6, LooseAndResult DEF Peace

\* The object after a call.
SameOpen(o, q) == q.open = o.open /\ q.write = o.write /\ q.key = o.key /\ Own(q) = Own(o)

LEMMA AfterHas ==
  ASSUME NEW op, NEW w, LooseOK(w.o), w.o.open
  PROVE  LET q == After(op, w)
         IN  /\ SameOpen(w.o, q) /\ q.written = w.o.written /\ q.result = w.o.result
             /\ q.shortened = (w.o.shortened /\ ~(op = "sync" /\ w.result = "OK"))
             /\ \A a, p : Ready(w.o, a, p) => Ready(q, a, p)
<1> DEFINE b == w.o.shortened /\ ~(op = "sync" /\ w.result = "OK")
           q == [ w.o EXCEPT !.shortened = b ]
<1>1. After(op, w) = q
  BY DEF After
<1> HIDE DEF b
<1>2. /\ q.open = w.o.open /\ q.write = w.o.write /\ q.key = w.o.key /\ q.ownSector = w.o.ownSector /\ q.slot = w.o.slot
      /\ q.written = w.o.written /\ q.result = w.o.result /\ q.shortened = b /\ q.start = w.o.start
      /\ q.position = w.o.position /\ q.cluster = w.o.cluster
  BY ClosedFields DEF LooseOK, HasFields
<1> HIDE DEF q
<1>3. \A a, p : Ready(w.o, a, p) => Ready(q, a, p)
  BY <1>2 DEF Ready, Tied, OnChain
<1> QED
  BY <1>1, <1>2, <1>3 DEF SameOpen, Own, b

-----------------------------------------------------------------------------
(* The calls on open files. *)

\* The end of a call on a file that stays open: others have the clusters they had.
LEMMA MovesPeace ==
  ASSUME Flat, NEW f \in Files, obj[f].open, DOMAIN obj = Files, obj[f].write \in BOOLEAN,
         Counted(vol.locks, obj), \A g \in Files : obj[g].open => Honest(obj[g]), NEW a, Agree(vol, obj, a),
         NEW op, NEW path, NEW arg, NEW w, w.locks = vol.locks, LooseOK(w.o), SameOpen(obj[f], w.o),
         Honest(After(op, w)), NEW b, Holds(w, b), Ready(w.o, b, Own(obj[f])),
         obj[f].write => Eases(a, b, Own(obj[f])), ~obj[f].write => Spares(a, b),
         obj[f].write /\ Own(obj[f]) \in b.loose => w.o.shortened /\ (~w.dead => After(op, w).shortened),
         Ends(op, f, path, arg, w)
  PROVE  CInv'
<1> DEFINE p == Own(obj[f])
           q == After(op, w)
<1>1. VolumeOK(w) /\ w.dead \in BOOLEAN
  BY DEF Holds, Intact, VolumeOK, IsVolume
<1>2. f # NoFile /\ IsFiniteSet(Files)
  BY PathsAreNames DEF Flat
<1>3. SameOpen(w.o, q) /\ \A c, r : Ready(w.o, c, r) => Ready(q, c, r)
  <2>1. w.o.open
    BY DEF SameOpen
  <2> QED
    BY <2>1, AfterHas
<1>4. SameOpen(obj[f], q) /\ Ready(q, b, p)
  BY <1>3 DEF SameOpen
<1>5. ASSUME Settled', w.dead PROVE Mountable(w.disk)
  <2>1. ~Exposed(w, f)
    BY <1>5, HealthCalm DEF Ends, Settled
  <2>2. ~w.o.shortened /\ \A g \in Files \ { f } : ~obj[g].shortened
    BY <2>1, <1>2 DEF Exposed, Stale
  <2>3. ASSUME NEW r \in b.loose PROVE FALSE
    <3>1. CASE obj[f].write /\ r = p
      BY <3>1, <2>2, <2>3
    <3>2. CASE ~(obj[f].write /\ r = p)
      <4>1. r \in a.loose
        BY <3>2, <2>3 DEF Eases, Spares
      <4>2. PICK g \in Writers(obj) : obj[g].shortened /\ r = Own(obj[g])
        BY <4>1 DEF Agree
      <4>3. g \in Files /\ g # f
        BY <4>2, <3>2 DEF Writers
      <4> QED
        BY <4>2, <4>3, <2>2
    <3> QED
      BY <3>1, <3>2
  <2> QED
    BY <2>3 DEF Holds, Intact
<1>6. ASSUME ~w.dead PROVE Peace(w, obj')
  <2> DEFINE ns == obj'
  <2> SUFFICES Peace(w, ns)
    OBVIOUS
  <2>1. ns = [ obj EXCEPT ![f] = q ]
    BY <1>6, <1>2 DEF Ends
  <2> HIDE DEF ns, q
  <2>2. ns[f] = q /\ \A g \in Files : g # f => ns[g] = obj[g]
    BY <2>1
  <2>3. \A g \in Files : ns[g].open => Honest(ns[g])
    <3>1. Honest(q)
      BY DEF q
    <3> QED
      BY <2>2, <3>1
  <2>4. Counted(w.locks, ns)
    <3>1. \A g \in Files : ns[g].open => obj[g].open /\ ns[g].write = obj[g].write /\ ns[g].key = obj[g].key
      BY <2>2, <1>4 DEF SameOpen
    <3> QED
      BY <3>1, <1>2, CountedFewer
  <2>5. CASE obj[f].write
    <3>1. f \in Writers(obj) /\ q.open /\ q.write /\ q.key = obj[f].key /\ Own(q) = p
      BY <2>5, <1>4 DEF Writers, SameOpen
    <3>2. Own(q) \in b.loose => q.shortened
      BY <3>1, <2>5, <1>6 DEF q
    <3>3. Agree(w, ns, b)
      BY <3>1, <3>2, <2>1, <2>5, <1>4, AgreeMoves
    <3> QED
      BY <3>3, <2>3, <2>4 DEF Peace
  <2>6. CASE ~obj[f].write
    <3>1. Writers(ns) = Writers(obj) /\ \A g \in Writers(obj) : ns[g] = obj[g]
      BY <2>6, <2>2, <1>4 DEF Writers, SameOpen
    <3>2. Agree(w, ns, b)
      BY <3>1, <2>6, AgreeSpares
    <3> QED
      BY <3>2, <2>3, <2>4 DEF Peace
  <2> QED
    BY <2>5, <2>6
<1> QED
  BY <1>1, <1>5, <1>6, EndsPeace

\* The end of read, write and seek.
LEMMA CallsPeace ==
  ASSUME Flat, NEW f \in Files, obj[f].open, obj[f].result = "OK", DOMAIN obj = Files, LooseOK(obj[f]),
         Counted(vol.locks, obj), \A g \in Files : obj[g].open => Honest(obj[g]), NEW a, Agree(vol, obj, a),
         NEW op, op # "sync", NEW path, NEW arg, NEW u, VolumeOK(u), u.locks = vol.locks, u.o = obj[f],
         NEW w, Calls(u, a, Own(obj[f]), w), Notes(u.o, w.o), Ends(op, f, path, arg, w)
  PROVE  CInv'
<1> DEFINE p == Own(obj[f])
<1>1. SameBut(u, w, FileFields) /\ SameBut(u.o, w.o, MovingFields) /\ LooseOK(w.o)
  BY DEF Calls, SameFile
<1>2. PICK b : Spares(a, b) /\ Holds(w, b) /\ Ready(w.o, b, p)
  BY DEF Calls
<1>3. w.locks = vol.locks
  BY <1>1, Fields DEF SameBut, VolumeFields, TableFields, FileFields, ChainFields, WindowFields
<1>4. SameOpen(obj[f], w.o) /\ w.o.shortened = obj[f].shortened
  <2>1. DOMAIN Closed \subseteq DOMAIN u.o
    BY DEF LooseOK, HasFields
  <2>2. \A x \in DOMAIN Closed \ MovingFields : w.o[x] = u.o[x]
    BY <2>1, <1>1 DEF SameBut
  <2>3. { "open", "write", "key", "ownSector", "slot", "shortened" } \subseteq DOMAIN Closed \ MovingFields
    BY ClosedFields DEF MovingFields, CalmFields
  <2> QED
    BY <2>2, <2>3 DEF SameOpen, Own
<1>5. /\ SameOpen(w.o, After(op, w)) /\ After(op, w).written = w.o.written /\ After(op, w).result = w.o.result
      /\ After(op, w).shortened = (w.o.shortened /\ ~(op = "sync" /\ w.result = "OK"))
  <2>1. w.o.open
    BY <1>4 DEF SameOpen
  <2> QED
    BY <2>1, <1>1, AfterHas
<1>6. After(op, w).shortened <=> w.o.shortened
  BY <1>5
<1>7. Honest(After(op, w))
  <2>1. Honest(obj[f]) /\ (w.o.written = obj[f].written \/ (obj[f].write /\ w.o.written = TRUE))
    BY DEF Notes
  <2> QED
    BY <2>1, <1>4, <1>5, <1>6 DEF Honest, SameOpen
<1>8. obj[f].write /\ p \in b.loose => w.o.shortened /\ (~w.dead => After(op, w).shortened)
  <2> SUFFICES ASSUME obj[f].write, p \in b.loose PROVE w.o.shortened
    BY <1>6
  <2>1. PICK g \in Writers(obj) : obj[g].shortened /\ p = Own(obj[g])
    BY <1>2 DEF Agree, Spares
  <2>2. f \in Writers(obj)
    BY DEF Writers
  <2>3. g = f
    BY <2>1, <2>2 DEF Agree
  <2> QED
    BY <2>1, <2>3, <1>4
<1>9. Eases(a, b, p) /\ obj[f].write \in BOOLEAN
  BY <1>2, SparesEases DEF LooseOK
<1> QED
  BY <1>1, <1>2, <1>3, <1>4, <1>7, <1>8, <1>9, MovesPeace

\* What a call on an open file starts from.
LEMMA HeldReady ==
  ASSUME NEW f \in Files, obj[f].open, LooseOK(obj[f]), NEW a, Agree(vol, obj, a), NEW u, u.o = obj[f]
  PROVE  /\ Ready(u.o, a, Own(obj[f]))
         /\ obj[f].result = "OK" => Mine(u, a, Own(obj[f]))
<1>1. CASE obj[f].write
  <2>1. f \in Writers(obj)
    BY <1>1 DEF Writers
  <2> QED
    BY <2>1 DEF Agree, Ready, Mine
<1>2. CASE ~obj[f].write
  BY <1>2 DEF Ready, Mine, Tied, OnChain
<1> QED
  BY <1>1, <1>2

-----------------------------------------------------------------------------
(* Every call keeps the peace. *)

LEMMA ReadApart ==
  ASSUME Flat, IInv, CInv, NEW f \in Files, ReadFile(f)
  PROVE  CInv'
<1>1. Settled /\ obj[f].open /\ obj[f].result = "OK"
  BY DEF ReadFile, FileCall, May, Settled
<1>2. PICK n \in Lengths : \E w \in Outcomes(Held(f), LAMBDA v : Read(v, n)) : Ends("read", f, PathOf[f], n, w)
  BY DEF ReadFile, FileCall, Held
<1>3. PICK w \in Outcomes(Held(f), LAMBDA v : Read(v, n)) : Ends("read", f, PathOf[f], n, w)
  BY <1>2
<1> DEFINE x(k) == Far - Read([ Held(f) EXCEPT !.fuse = Far, !.fault = k ], n).fuse
<1>4. \/ w = Read(Held(f), n)
      \/ \E k \in Faults : \E m \in 1 .. x(k) : w = Read([ Held(f) EXCEPT !.fuse = m, !.fault = k ], n)
  BY <1>3, Zenon DEF Outcomes
<1>5. PICK u : Begins(Held(f), u) /\ w = Read(u, n)
  BY <1>4, UpFromOne, Zenon DEF Begins
<1>6. /\ VolumeOK(u) /\ u.locks = vol.locks /\ ~u.dead /\ ~u.misled /\ u.o = obj[f] /\ ObjectOK(obj[f]) /\ LooseOK(obj[f])
      /\ Counted(vol.locks, obj) /\ (\A g \in Files : obj[g].open => Honest(obj[g])) /\ DOMAIN obj = Files
      /\ \E a : Agree(vol, obj, a) /\ Holds(u, a)
  BY <1>1, <1>5, HeldPeace
<1>7. PICK a : Agree(vol, obj, a) /\ Holds(u, a)
  BY <1>6
<1>8. Ready(u.o, a, Own(obj[f])) /\ Mine(u, a, Own(obj[f]))
  BY <1>1, <1>6, <1>7, HeldReady
<1>9. n \in Nat
  BY PathsAreNames, FileAssumption, NewUnitsAreUnits
<1>10. Calls(u, a, Own(obj[f]), w)
  BY <1>1, <1>5, <1>6, <1>7, <1>8, <1>9, ReadCalls
<1>11. Notes(u.o, w.o)
  BY <1>1, <1>5, <1>6, <1>9, ReadNotes
<1> QED
  BY <1>1, <1>3, <1>6, <1>7, <1>10, <1>11, CallsPeace

LEMMA WriteApart ==
  ASSUME Flat, IInv, CInv, NEW f \in Files, WriteFile(f)
  PROVE  CInv'
<1>1. Settled /\ obj[f].open /\ obj[f].result = "OK" /\ obj[f].write
  BY DEF WriteFile, FileCall, May, Settled
<1>2. PICK n \in Lengths : \E w \in Outcomes(Held(f), LAMBDA v : Write(v, NewUnits(f, n))) : Ends("write", f, PathOf[f], n, w)
  BY DEF WriteFile, FileCall, Held
<1>3. PICK w \in Outcomes(Held(f), LAMBDA v : Write(v, NewUnits(f, n))) : Ends("write", f, PathOf[f], n, w)
  BY <1>2
<1> DEFINE x(k) == Far - Write([ Held(f) EXCEPT !.fuse = Far, !.fault = k ], NewUnits(f, n)).fuse
<1>4. \/ w = Write(Held(f), NewUnits(f, n))
      \/ \E k \in Faults : \E m \in 1 .. x(k) : w = Write([ Held(f) EXCEPT !.fuse = m, !.fault = k ], NewUnits(f, n))
  BY <1>3, Zenon DEF Outcomes
<1>5. PICK u : Begins(Held(f), u) /\ w = Write(u, NewUnits(f, n))
  BY <1>4, UpFromOne, Zenon DEF Begins
<1>6. /\ VolumeOK(u) /\ u.locks = vol.locks /\ ~u.dead /\ ~u.misled /\ u.o = obj[f] /\ ObjectOK(obj[f]) /\ LooseOK(obj[f])
      /\ Counted(vol.locks, obj) /\ (\A g \in Files : obj[g].open => Honest(obj[g])) /\ DOMAIN obj = Files
      /\ \E a : Agree(vol, obj, a) /\ Holds(u, a)
  BY <1>1, <1>5, HeldPeace
<1>7. PICK a : Agree(vol, obj, a) /\ Holds(u, a)
  BY <1>6
<1>8. Ready(u.o, a, Own(obj[f])) /\ Mine(u, a, Own(obj[f]))
  BY <1>1, <1>6, <1>7, HeldReady
<1>9. NewUnits(f, n) \in Seq(Unit)
  BY PathsAreNames, FileAssumption, NewUnitsAreUnits
<1>10. Calls(u, a, Own(obj[f]), w)
  BY <1>1, <1>5, <1>6, <1>7, <1>8, <1>9, WriteCalls
<1>11. Notes(u.o, w.o)
  BY <1>1, <1>5, <1>6, <1>9, WriteNotes
<1> QED
  BY <1>1, <1>3, <1>6, <1>7, <1>10, <1>11, CallsPeace

LEMMA SeekApart ==
  ASSUME Flat, IInv, CInv, NEW f \in Files, SeekFile(f)
  PROVE  CInv'
<1>1. Settled /\ obj[f].open /\ obj[f].result = "OK"
  BY DEF SeekFile, FileCall, May, Settled
<1>2. PICK n \in Positions : \E w \in Outcomes(Held(f), LAMBDA v : Seek(v, n)) : Ends("seek", f, PathOf[f], n, w)
  BY DEF SeekFile, FileCall, Held
<1>3. PICK w \in Outcomes(Held(f), LAMBDA v : Seek(v, n)) : Ends("seek", f, PathOf[f], n, w)
  BY <1>2
<1> DEFINE x(k) == Far - Seek([ Held(f) EXCEPT !.fuse = Far, !.fault = k ], n).fuse
<1>4. \/ w = Seek(Held(f), n)
      \/ \E k \in Faults : \E m \in 1 .. x(k) : w = Seek([ Held(f) EXCEPT !.fuse = m, !.fault = k ], n)
  BY <1>3, Zenon DEF Outcomes
<1>5. PICK u : Begins(Held(f), u) /\ w = Seek(u, n)
  BY <1>4, UpFromOne, Zenon DEF Begins
<1>6. /\ VolumeOK(u) /\ u.locks = vol.locks /\ ~u.dead /\ ~u.misled /\ u.o = obj[f] /\ ObjectOK(obj[f]) /\ LooseOK(obj[f])
      /\ Counted(vol.locks, obj) /\ (\A g \in Files : obj[g].open => Honest(obj[g])) /\ DOMAIN obj = Files
      /\ \E a : Agree(vol, obj, a) /\ Holds(u, a)
  BY <1>1, <1>5, HeldPeace
<1>7. PICK a : Agree(vol, obj, a) /\ Holds(u, a)
  BY <1>6
<1>8. Ready(u.o, a, Own(obj[f])) /\ Mine(u, a, Own(obj[f]))
  BY <1>1, <1>6, <1>7, HeldReady
<1>9. n \in Nat
  BY PathsAreNames, FileAssumption, NewUnitsAreUnits
<1>10. Calls(u, a, Own(obj[f]), w)
  BY <1>1, <1>5, <1>6, <1>7, <1>8, <1>9, SeekCalls
<1>11. Notes(u.o, w.o)
  BY <1>1, <1>5, <1>6, <1>9, SeekNotes
<1> QED
  BY <1>1, <1>3, <1>6, <1>7, <1>10, <1>11, CallsPeace

\* The marks of a file that was shortened.
LEMMA OwnLoose ==
  ASSUME NEW v, NEW os, NEW a, Agree(v, os, a), NEW f \in Writers(os), Own(os[f]) \in a.loose
  PROVE  os[f].shortened
<1>1. PICK g \in Writers(os) : os[g].shortened /\ Own(os[f]) = Own(os[g])
  BY DEF Agree
<1> QED
  BY <1>1 DEF Agree

LEMMA OwnPlace ==
  ASSUME NEW v, NEW os, NEW a, Agree(v, os, a), NEW f \in Writers(os)
  PROVE  Own(os[f]) # RootPlace
  BY AgreeHas, SectorPlaces DEF RootPlace

\* truncate on a file that is open for reading only.
LEMMA DeniedTruncate ==
  ASSUME NEW u, VolumeOK(u), LooseOK(u.o), ~u.o.write
  PROVE  LET w == Truncate(u)
         IN  /\ Seen(u, w) /\ SameBut(u, w, FileFields) /\ LooseOK(w.o)
             /\ SameBut(u.o, w.o, { "result" })
<1> DEFINE q == [ u.o EXCEPT !.result = "DENIED" ]
           w == Truncate(u)
<1>1. w = [ u EXCEPT !.o = q, !.result = "DENIED" ]
  BY DEF Truncate
<1>2. LooseOK(q) /\ SameBut(u.o, q, { "result" })
  BY ClosedFields DEF LooseOK, HasFields, SameBut
<1> HIDE DEF q, w
<1>3. w = [ f \in DOMAIN w |-> w[f] ] /\ SameBut(u, w, { "o", "result" }) /\ w.o = q
  BY <1>1, Fields DEF SameBut, VolumeFields, TableFields
<1>4. SameBut(u, w, OuterFields) /\ SameBut(u, w, FileFields)
  BY <1>3 DEF SameBut, OuterFields, FileFields, ChainFields, WindowFields
<1> QED
  BY <1>2, <1>3, <1>4, OuterSeen DEF w

LEMMA TruncateApart ==
  ASSUME Flat, IInv, CInv, NEW f \in Files, TruncateFile(f)
  PROVE  CInv'
<1>1. Settled /\ obj[f].open /\ obj[f].result = "OK"
  BY DEF TruncateFile, FileCall, May, Settled
<1>2. PICK w \in Outcomes(Held(f), Truncate) : Ends("truncate", f, PathOf[f], 0, w)
  BY DEF TruncateFile, FileCall, Held
<1> DEFINE x(k) == Far - Truncate([ Held(f) EXCEPT !.fuse = Far, !.fault = k ]).fuse
<1>3. \/ w = Truncate(Held(f))
      \/ \E k \in Faults : \E m \in 1 .. x(k) : w = Truncate([ Held(f) EXCEPT !.fuse = m, !.fault = k ])
  BY <1>2, Zenon DEF Outcomes
<1>4. PICK u : Begins(Held(f), u) /\ w = Truncate(u)
  BY <1>3, UpFromOne, Zenon DEF Begins
<1>5. /\ VolumeOK(u) /\ u.locks = vol.locks /\ ~u.dead /\ ~u.misled /\ u.o = obj[f] /\ ObjectOK(obj[f]) /\ LooseOK(obj[f])
      /\ Counted(vol.locks, obj) /\ (\A g \in Files : obj[g].open => Honest(obj[g])) /\ DOMAIN obj = Files
      /\ \E a : Agree(vol, obj, a) /\ Holds(u, a)
  BY <1>1, <1>4, HeldPeace
<1>6. PICK a : Agree(vol, obj, a) /\ Holds(u, a)
  BY <1>5
<1> DEFINE p == Own(obj[f])
           o == obj[f]
<1>7. Ready(u.o, a, p)
  BY <1>1, <1>5, <1>6, HeldReady
<1>8. /\ SameBut(u, w, FileFields) /\ SameBut(o, w.o, CutFields) /\ LooseOK(w.o)
      /\ \/ w.o.written = o.written /\ w.o.shortened = o.shortened
         \/ w.o.write /\ w.o.written = TRUE /\ w.o.shortened = TRUE
      /\ \E b : /\ Holds(w, b) /\ Ready(w.o, b, p) /\ (o.write => Eases(a, b, p)) /\ (~o.write => Spares(a, b))
                /\ o.write /\ p \in b.loose => w.o.shortened
  <2>1. CASE o.write
    <3>1. f \in Writers(obj)
      BY <2>1, <1>1 DEF Writers
    <3>2. Cuts(u, a, p, w)
      BY <3>1, <1>1, <1>4, <1>5, <1>6, <1>7, OwnPlace, TruncateCuts
    <3>3. p \in a.loose => o.shortened
      BY <3>1, <1>6, OwnLoose
    <3> HIDE DEF o, p
    <3>4. u.o = o
      BY <1>5 DEF o
    <3>5. PICK b : Eases(a, b, p) /\ Holds(w, b) /\ Ready(w.o, b, p) /\ (b.loose \subseteq a.loose \/ w.o.shortened = TRUE)
      BY <3>2 DEF Cuts
    <3>6. \/ w.o.written = o.written /\ w.o.shortened = o.shortened
          \/ w.o.write /\ w.o.written = TRUE /\ w.o.shortened = TRUE
      BY <3>2, <3>4 DEF Cuts
    <3>7. p \in b.loose => w.o.shortened
      BY <3>3, <3>5, <3>6
    <3> QED
      BY <2>1, <3>2, <3>4, <3>5, <3>6, <3>7 DEF Cuts
  <2>2. CASE ~o.write
    <3>1. Seen(u, w) /\ SameBut(u, w, FileFields) /\ LooseOK(w.o) /\ SameBut(o, w.o, { "result" })
      BY <2>2, <1>4, <1>5, DeniedTruncate
    <3>2. Holds(w, a)
      BY <3>1, <1>6, SeenHolds
    <3>3. "write" \in DOMAIN o /\ "written" \in DOMAIN o /\ "shortened" \in DOMAIN o
      BY <1>5, ClosedFields DEF LooseOK, HasFields
    <3> HIDE DEF o
    <3>4. w.o.write = o.write /\ w.o.written = o.written /\ w.o.shortened = o.shortened /\ SameBut(o, w.o, CutFields)
      BY <3>1, <3>3 DEF SameBut, CutFields
    <3>5. Ready(w.o, a, p)
      BY <2>2, <3>4 DEF Ready, Tied, OnChain
    <3> QED
      BY <2>2, <3>1, <3>2, <3>4, <3>5, SparesSelf
  <2> QED
    BY <2>1, <2>2
<1>9. PICK b : /\ Holds(w, b) /\ Ready(w.o, b, p) /\ (o.write => Eases(a, b, p)) /\ (~o.write => Spares(a, b))
               /\ o.write /\ p \in b.loose => w.o.shortened
  BY <1>8
<1>10. w.locks = vol.locks
  BY <1>5, <1>8, Fields DEF SameBut, VolumeFields, TableFields, FileFields, ChainFields, WindowFields
<1>11. SameOpen(o, w.o)
  <2>1. DOMAIN Closed \subseteq DOMAIN o
    BY <1>5 DEF LooseOK, HasFields
  <2> HIDE DEF o
  <2>2. \A y \in DOMAIN Closed \ CutFields : w.o[y] = o[y]
    BY <2>1, <1>8 DEF SameBut
  <2>3. { "open", "write", "key", "ownSector", "slot" } \subseteq DOMAIN Closed \ CutFields
    BY ClosedFields DEF CutFields
  <2> QED
    BY <2>2, <2>3 DEF SameOpen, Own
<1>12. /\ SameOpen(w.o, After("truncate", w)) /\ After("truncate", w).written = w.o.written
       /\ After("truncate", w).shortened = (w.o.shortened /\ ~("truncate" = "sync" /\ w.result = "OK"))
  <2>1. w.o.open
    BY <1>1, <1>11 DEF SameOpen
  <2> QED
    BY <2>1, <1>8, AfterHas
<1>13. After("truncate", w).shortened <=> w.o.shortened
  BY <1>12
<1>14. Honest(After("truncate", w))
  <2>1. Honest(o) /\ (o.shortened => o.written)
    BY <1>1, <1>5 DEF Honest
  <2> HIDE DEF o
  <2> QED
    BY <2>1, <1>8, <1>11, <1>12, <1>13 DEF Honest, SameOpen
<1>15. o.write \in BOOLEAN
  BY <1>5 DEF LooseOK
<1> QED
  BY <1>1, <1>2, <1>5, <1>6, <1>8, <1>9, <1>10, <1>11, <1>13, <1>14, <1>15, MovesPeace

LEMMA SyncApart ==
  ASSUME Flat, IInv, CInv, NEW f \in Files, SyncFile(f)
  PROVE  CInv'
<1> SUFFICES ASSUME Settled' PROVE CInv'
  BY DEF CInv
<1>1. Settled /\ obj[f].open /\ obj[f].result = "OK" /\ f # NoFile
  BY PathsAreNames DEF SyncFile, FileCall, May, Settled
<1>2. PICK w \in Outcomes(Held(f), Sync) : Ends("sync", f, PathOf[f], 0, w)
  BY DEF SyncFile, FileCall, Held
<1> DEFINE x(k) == Far - Sync([ Held(f) EXCEPT !.fuse = Far, !.fault = k ]).fuse
<1>3. \/ w = Sync(Held(f))
      \/ \E k \in Faults : \E m \in 1 .. x(k) : w = Sync([ Held(f) EXCEPT !.fuse = m, !.fault = k ])
  BY <1>2, Zenon DEF Outcomes
<1>4. PICK u : Begins(Held(f), u) /\ w = Sync(u)
  BY <1>3, UpFromOne, Zenon DEF Begins
<1>5. /\ VolumeOK(u) /\ u.locks = vol.locks /\ ~u.dead /\ ~u.misled /\ u.o = obj[f] /\ ObjectOK(obj[f]) /\ LooseOK(obj[f])
      /\ Counted(vol.locks, obj) /\ (\A g \in Files : obj[g].open => Honest(obj[g])) /\ DOMAIN obj = Files
      /\ \E a : Agree(vol, obj, a) /\ Holds(u, a)
  BY <1>1, <1>4, HeldPeace
<1>6. PICK a : Agree(vol, obj, a) /\ Holds(u, a)
  BY <1>5
<1> DEFINE p == Own(obj[f])
           o == obj[f]
<1>7. Ready(o, a, p)
  BY <1>1, <1>5, <1>6, HeldReady
<1>8. SameBut(o, w.o, SyncFields) /\ LooseOK(w.o)
  BY <1>4, <1>5, SyncStays
<1>9. \A y \in DOMAIN Closed \ SyncFields : w.o[y] = o[y]
  BY <1>5, <1>8 DEF LooseOK, HasFields, SameBut
<1>10. /\ SameOpen(o, w.o) /\ w.o.dirSector = o.dirSector /\ w.o.ownSector = o.ownSector /\ w.o.shortened = o.shortened
       /\ w.o.start = o.start /\ w.o.position = o.position /\ w.o.cluster = o.cluster
  <2>1. { "open", "write", "key", "ownSector", "slot", "dirSector", "shortened", "start", "position", "cluster" } \subseteq DOMAIN Closed \ SyncFields
    BY ClosedFields DEF SyncFields
  <2> HIDE DEF o
  <2> QED
    BY <2>1, <1>9 DEF SameOpen, Own
<1>11. o.written => o.write /\ Led(o)
  <2>1. o.written => ~(w.o.dirSector \in Sectors \ { w.o.ownSector })
    BY <1>1, <1>2, HealthCalm DEF Ends, Settled
  <2>2. Honest(o)
    BY <1>1, <1>5
  <2> QED
    BY <2>1, <2>2, <1>10 DEF Honest, Led
<1>12. Syncs(u, a, p, w)
  BY <1>4, <1>5, <1>6, <1>7, <1>11, SyncSyncs DEF Ready
<1>13. w.locks = vol.locks /\ Holds(w, a)
  BY <1>5, <1>12, Fields DEF Syncs, SameBut, VolumeFields, TableFields, FileFields, ChainFields, WindowFields
<1>14. /\ SameOpen(w.o, After("sync", w)) /\ After("sync", w).written = w.o.written /\ After("sync", w).result = w.o.result
       /\ After("sync", w).shortened = (w.o.shortened /\ ~("sync" = "sync" /\ w.result = "OK"))
  <2>1. w.o.open
    BY <1>1, <1>10 DEF SameOpen
  <2> QED
    BY <2>1, <1>8, AfterHas
<1>15. After("sync", w).shortened <=> w.o.shortened /\ w.result # "OK"
  BY <1>14
<1>16. Honest(o)
  BY <1>1, <1>5
<1>17. Honest(After("sync", w))
  <2> HIDE DEF o
  <2>1. ~o.written => w.o = o
    BY <1>5, <1>12 DEF Syncs, o
  <2>2. w.o.result = "OK" => (o.written /\ w.result = "OK") \/ ~o.written
    BY <1>5, <1>12 DEF Syncs, o
  <2>3. o.result = "OK"
    BY <1>1 DEF o
  <2> QED
    BY <2>1, <2>2, <2>3, <1>10, <1>14, <1>15, <1>16 DEF Honest, SameOpen
<1> DEFINE b == IF o.written /\ w.result = "OK" /\ ~w.dead THEN Firm(a, p) ELSE a
<1>18. Holds(w, b)
  BY <1>5, <1>12, <1>13 DEF Syncs
<1>19. b.claims = a.claims /\ b.files = a.files /\ b.links = a.links /\ b.loose \subseteq a.loose
  BY FirmHas
<1>20. Ready(w.o, b, p)
  <2> HIDE DEF o, b
  <2>1. w.o.write = o.write /\ o.result = "OK"
    BY <1>1, <1>10 DEF SameOpen, o
  <2> QED
    BY <2>1, <1>7, <1>10, <1>19 DEF Ready, Tied, OnChain
<1>21. Eases(a, b, p) /\ (~o.write => Spares(a, b))
  <2>1. ~o.write => b = a
    BY <1>16 DEF Honest
  <2> HIDE DEF b, o
  <2> QED
    BY <2>1, <1>19, SparesSelf DEF Eases
<1>22. o.write /\ p \in b.loose => w.o.shortened /\ (~w.dead => After("sync", w).shortened)
  <2> SUFFICES ASSUME o.write, p \in b.loose PROVE w.o.shortened /\ (~w.dead => After("sync", w).shortened)
    OBVIOUS
  <2>1. o.shortened
    <3>1. f \in Writers(obj)
      BY <1>1 DEF Writers
    <3> QED
      BY <3>1, <1>6, <1>19, OwnLoose
  <2>2. o.written
    BY <2>1, <1>1, <1>16 DEF Honest
  <2>3. p \notin Firm(a, p).loose
    BY FirmHas
  <2>4. w.dead \/ w.result # "OK"
    BY <2>2, <2>3
  <2> HIDE DEF o, b
  <2> QED
    BY <2>1, <2>4, <1>10, <1>15
<1>23. o.write \in BOOLEAN
  BY <1>5 DEF LooseOK
<1> HIDE DEF b
<1> QED
  BY <1>1, <1>2, <1>5, <1>6, <1>8, <1>10, <1>13, <1>17, <1>18, <1>20, <1>21, <1>22, <1>23, MovesPeace

\* The destructor keeps where the entry is.
LEMMA CloseKeeps ==
  ASSUME NEW u, VolumeOK(u), LooseOK(u.o)
  PROVE  Close(u).o.dirSector = u.o.dirSector /\ Close(u).o.ownSector = u.o.ownSector
<1> DEFINE opens == u.locks[u.o.key]
           left == IF opens \in { 1, WriteOpen } THEN [ k \in DOMAIN u.locks \ { u.o.key } |-> u.locks[k] ]
                   ELSE [ u.locks EXCEPT ![u.o.key] = opens - 1 ]
           s == Sync(u)
           t == [ s EXCEPT !.locks = left ]
           x == IF s.result = "OK" THEN t ELSE s
           w == [ x EXCEPT !.o.open = FALSE ]
<1>1. w = Close(u)
  BY DEF Close, Then
<1>2. VolumeOK(s) /\ LooseOK(s.o) /\ SameBut(u.o, s.o, SyncFields)
  BY SyncStays
<1> HIDE DEF s, left
<1>3. s.o.dirSector = u.o.dirSector /\ s.o.ownSector = u.o.ownSector
  BY <1>2, ClosedFields DEF SameBut, SyncFields, LooseOK, HasFields
<1>4. x.o = s.o /\ x = [ f \in DOMAIN x |-> x[f] ] /\ "o" \in DOMAIN x
  BY <1>2, Fields DEF VolumeFields, TableFields
<1> HIDE DEF x
<1> DEFINE q == [ x.o EXCEPT !.open = FALSE ]
<1>5. w.o = q
  BY <1>4
<1>6. q.dirSector = x.o.dirSector /\ q.ownSector = x.o.ownSector
  BY <1>2, <1>4, ClosedFields DEF LooseOK, HasFields
<1> HIDE DEF w, q
<1> QED
  BY <1>1, <1>3, <1>4, <1>5, <1>6

LEMMA CloseApart ==
  ASSUME Flat, IInv, CInv, NEW f \in Files, CloseFile(f)
  PROVE  CInv'
<1> SUFFICES ASSUME Settled' PROVE CInv'
  BY DEF CInv
<1>1. Settled /\ obj[f].open /\ f # NoFile /\ IsFiniteSet(Files)
  BY PathsAreNames DEF CloseFile, May, Settled, Flat
<1>2. PICK w \in Outcomes(Held(f), Close) : Ends("close", f, PathOf[f], 0, w)
  BY DEF CloseFile, Held
<1> DEFINE x(k) == Far - Close([ Held(f) EXCEPT !.fuse = Far, !.fault = k ]).fuse
<1>3. \/ w = Close(Held(f))
      \/ \E k \in Faults : \E m \in 1 .. x(k) : w = Close([ Held(f) EXCEPT !.fuse = m, !.fault = k ])
  BY <1>2, Zenon DEF Outcomes
<1>4. PICK u : Begins(Held(f), u) /\ w = Close(u)
  BY <1>3, UpFromOne, Zenon DEF Begins
<1>5. /\ VolumeOK(u) /\ u.locks = vol.locks /\ ~u.dead /\ ~u.misled /\ u.o = obj[f] /\ ObjectOK(obj[f]) /\ LooseOK(obj[f])
      /\ Counted(vol.locks, obj) /\ (\A g \in Files : obj[g].open => Honest(obj[g])) /\ DOMAIN obj = Files
      /\ \E a : Agree(vol, obj, a) /\ Holds(u, a)
  BY <1>1, <1>4, HeldPeace
<1>6. PICK a : Agree(vol, obj, a) /\ Holds(u, a)
  BY <1>5
<1> DEFINE p == Own(obj[f])
           o == obj[f]
<1>7. Ready(o, a, p)
  BY <1>1, <1>5, <1>6, HeldReady
<1>8. Honest(o)
  BY <1>1, <1>5
<1>9. w.o.dirSector = o.dirSector /\ w.o.ownSector = o.ownSector
  BY <1>4, <1>5, CloseKeeps
<1>10. o.written => o.write /\ Led(o)
  <2>1. o.written => ~(w.o.dirSector \in Sectors \ { w.o.ownSector })
    BY <1>1, <1>2, HealthCalm DEF Ends, Settled
  <2> QED
    BY <2>1, <1>8, <1>9 DEF Honest, Led
<1>11. Closes(u, a, p, w)
  BY <1>4, <1>5, <1>6, <1>7, <1>10, CloseCloses DEF Ready
<1>12. Holds(w, a) /\ VolumeOK(w) /\ w.dead \in BOOLEAN /\ w.o.open = FALSE /\ w.o.shortened = o.shortened
  BY <1>5, <1>11 DEF Closes, Holds, Intact, VolumeOK, IsVolume
<1>13. ~(w.result # "OK" /\ o.shortened)
  BY <1>1, <1>2, <1>12, HealthCalm DEF Ends, Settled, Stale
<1>14. ASSUME w.dead PROVE Mountable(w.disk)
  <2>1. ~Exposed(w, f)
    BY <1>2, <1>14, HealthCalm DEF Ends, Settled
  <2>2. \A g \in Files : ~obj[g].shortened
    BY <2>1, <1>1, <1>12 DEF Exposed, Stale
  <2>3. a.loose = {}
    BY <2>2, <1>6, AgreeHas
  <2> QED
    BY <2>3, <1>12 DEF Holds, Intact
<1> DEFINE ns == obj'
<1>15. ASSUME ~w.dead PROVE Peace(w, ns)
  <2>1. ns = [ obj EXCEPT ![f] = Closed ]
    BY <1>1, <1>2, <1>12, <1>15 DEF Ends, After
  <2> HIDE DEF ns
  <2>2. ns[f].open = FALSE /\ \A g \in Files : g # f => ns[g] = obj[g]
    BY <2>1, <1>5 DEF Closed
  <2>3. \A g \in Files : ns[g].open => Honest(ns[g])
    BY <2>2, <1>5
  <2>4. Counted(w.locks, ns)
    <3>1. CASE w.result # "OK"
      <4>1. w.locks = vol.locks
        BY <3>1, <1>5, <1>11 DEF Closes
      <4> QED
        BY <4>1, <2>2, <1>1, <1>5, CountedFewer
    <3>2. CASE w.result = "OK"
      <4>1. w.locks = IF vol.locks[o.key] \in { 1, WriteOpen } THEN [ k \in DOMAIN vol.locks \ { o.key } |-> vol.locks[k] ]
                      ELSE [ vol.locks EXCEPT ![o.key] = vol.locks[o.key] - 1 ]
        BY <3>2, <1>5, <1>11 DEF Closes
      <4>2. o.write \in BOOLEAN
        BY <1>5 DEF LooseOK
      <4> DEFINE now == w.locks
                 locks == vol.locks
      <4>3. now = IF locks[obj[f].key] \in { 1, WriteOpen } THEN [ k \in DOMAIN locks \ { obj[f].key } |-> locks[k] ]
                  ELSE [ locks EXCEPT ![obj[f].key] = locks[obj[f].key] - 1 ]
        BY <4>1
      <4>4. Counted(locks, obj) /\ DOMAIN obj = Files /\ obj[f].open /\ obj[f].write \in BOOLEAN
        BY <4>2, <1>1, <1>5
      <4> HIDE DEF now, locks, o
      <4>5. Counted(now, ns)
        BY <4>3, <4>4, <2>1, <1>1, CountedClose
      <4> QED
        BY <4>5 DEF now
    <3> QED
      BY <3>1, <3>2
  <2>5. CASE ~o.write
    <3>1. Writers(ns) = Writers(obj) /\ \A g \in Writers(obj) : ns[g] = obj[g]
      BY <2>5, <2>2 DEF Writers
    <3>2. Agree(w, ns, a)
      BY <3>1, <1>6, <1>12, SparesSelf, AgreeSpares
    <3> QED
      BY <3>2, <2>3, <2>4 DEF Peace
  <2>6. CASE o.write
    <3>1. f \in Writers(obj)
      BY <2>6, <1>1 DEF Writers
    <3>2. p # RootPlace
      BY <3>1, <1>6, OwnPlace
    <3>3. \E b : Leaves(Firm(a, p), b, p) /\ Holds(w, b)
      <4>1. CASE ~o.shortened
        <5>1. p \notin a.loose
          BY <4>1, <3>1, <1>6, OwnLoose
        <5>2. PICK b : Leaves(a, b, p) /\ Holds(w, b)
          BY <3>2, <1>12, <1>15, LeaveHolds
        <5> HIDE DEF p
        <5>3. a.loose \ { p } = a.loose
          BY <5>1
        <5>4. Leaves(Firm(a, p), b, p)
          BY <5>2, <5>3, FirmHas DEF Leaves
        <5> QED
          BY <5>2, <5>4
      <4>2. CASE o.shortened
        <5>1. w.result = "OK"
          BY <4>2, <1>13
        <5>2. o.written
          <6>1. ~o.written => w.result = o.result
            BY <1>5, <1>11 DEF Closes
          <6> QED
            BY <6>1, <5>1, <4>2, <1>8 DEF Honest
        <5>3. Holds(w, Firm(a, p))
          BY <5>1, <5>2, <1>5, <1>11, <1>15 DEF Closes
        <5> QED
          BY <5>3, <3>2, <1>15, LeaveHolds
      <4> QED
        BY <4>1, <4>2
    <3>4. PICK b : Leaves(Firm(a, p), b, p) /\ Holds(w, b)
      BY <3>3
    <3>5. Agree(w, ns, b)
      BY <3>1, <3>4, <2>1, <1>5, <1>6, AgreeLeaves
    <3> QED
      BY <3>5, <2>3, <2>4 DEF Peace
  <2> QED
    BY <2>5, <2>6
<1> QED
  BY <1>2, <1>12, <1>14, <1>15, EndsPeace

LEMMA OpenApart ==
  ASSUME Flat, IInv, CInv, NEW f \in Files, OpenFile(f)
  PROVE  CInv'
<1> SUFFICES ASSUME Settled' PROVE CInv'
  BY DEF CInv
<1>1. Settled /\ ~obj[f].open /\ f # NoFile /\ IsFiniteSet(Files) /\ Names(PathOf[f]) /\ Len(PathOf[f]) = 1
  BY PathsAreNames DEF OpenFile, May, Settled, Flat, Paths
<1>2. PICK write \in BOOLEAN, whole \in BOOLEAN, s \in NullSectors :
        \E w \in Outcomes(vol, LAMBDA v : Open(v, PathOf[f], write, s, whole)) : Ends("open", f, PathOf[f], 0, w)
  BY DEF OpenFile
<1>3. PICK w \in Outcomes(vol, LAMBDA v : Open(v, PathOf[f], write, s, whole)) : Ends("open", f, PathOf[f], 0, w)
  BY <1>2
<1> DEFINE x(k) == Far - Open([ vol EXCEPT !.fuse = Far, !.fault = k ], PathOf[f], write, s, whole).fuse
<1>4. \/ w = Open(vol, PathOf[f], write, s, whole)
      \/ \E k \in Faults : \E m \in 1 .. x(k) : w = Open([ vol EXCEPT !.fuse = m, !.fault = k ], PathOf[f], write, s, whole)
  BY <1>3, Zenon DEF Outcomes
<1>5. PICK u : Begins(vol, u) /\ w = Open(u, PathOf[f], write, s, whole)
  BY <1>4, UpFromOne, Zenon DEF Begins
<1>6. /\ VolumeOK(u) /\ u.locks = vol.locks /\ ~u.dead /\ ~u.misled
      /\ Counted(vol.locks, obj) /\ (\A g \in Files : obj[g].open => Honest(obj[g]))
      /\ \E a : Agree(vol, obj, a) /\ Holds(u, a)
  BY <1>1, <1>5, BeginsPeace
<1>h. w = OpenWhole(u, PathOf[f], write, s)
  <2>1. ~Halved(w)
    BY <1>3, HealthCalm DEF Ends, Settled
  <2> QED
    BY <2>1, <1>5, <1>6, WholeOrHalf, PathsAreNames
<1>7. PICK a : Agree(vol, obj, a) /\ Holds(u, a)
  BY <1>6
<1>8. DOMAIN obj = Files
  BY DEF IInv, TypeOK
<1>9. a.loose \subseteq a.files /\ Locked(u, a)
  BY <1>6, <1>7, AgreeHas, AgreeLocked
<1>10. /\ Holds(w, a)
       /\ \/ w.result = "OK" /\ Opens(u, a, write, w)
          \/ w.result # "OK" /\ w.o = Closed /\ w.locks = u.locks
  <2> DEFINE path == PathOf[f]
             y == OpenWhole(u, path, write, s)
  <2>1. Names(path) /\ Len(path) = 1 /\ ~u.misled /\ Holds(u, a) /\ w = y /\ write \in BOOLEAN
    BY <1>1, <1>2, <1>6, <1>7, <1>h
  <2> HIDE DEF path
  <2>2. /\ Holds(y, a)
        /\ \/ y.result = "OK" /\ Opens(u, a, write, y)
           \/ y.result # "OK" /\ y.o = Closed /\ y.locks = u.locks
    BY <2>1, <1>9, OpenOpens
  <2> HIDE DEF y
  <2> QED
    BY <2>1, <2>2
<1>11. VolumeOK(w) /\ w.dead \in BOOLEAN
  BY <1>10 DEF Holds, Intact, VolumeOK, IsVolume
<1>12. /\ ~w.misled /\ ~(w.dead /\ Exposed(w, f))
       /\ ~(w.result = "OK" /\ ~w.o.write /\ w.locks[w.o.key] = WriteOpen)
  BY <1>3, HealthCalm DEF Ends, Settled
<1>13. ASSUME w.dead PROVE Mountable(w.disk)
  <2>1. \A g \in Files \ { f } : ~obj[g].shortened
    BY <1>12, <1>13 DEF Exposed
  <2>2. a.loose = {}
    BY <2>1, <1>1, <1>7 DEF Agree, Writers
  <2> QED
    BY <2>2, <1>10 DEF Holds, Intact
<1> DEFINE ns == obj'
           q == After("open", w)
<1>14. ASSUME ~w.dead PROVE Peace(w, ns)
  <2>1. ns = [ obj EXCEPT ![f] = q ]
    BY <1>1, <1>3, <1>14 DEF Ends
  <2> HIDE DEF ns
  <2>2. ns[f] = q /\ \A g \in Files : g # f => ns[g] = obj[g]
    BY <2>1, <1>8
  <2>3. CASE w.result # "OK"
    <3>1. w.o = Closed /\ w.locks = vol.locks
      BY <2>3, <1>6, <1>10
    <3>2. q = Closed /\ q.open = FALSE
      BY <3>1 DEF After, Closed
    <3> HIDE DEF q
    <3>3. Counted(w.locks, ns)
      BY <3>1, <3>2, <2>2, <1>1, <1>6, CountedFewer
    <3>4. Writers(ns) = Writers(obj) /\ \A g \in Writers(obj) : ns[g] = obj[g]
      BY <3>2, <2>2, <1>1 DEF Writers
    <3>5. Agree(w, ns, a)
      BY <3>4, <1>7, <1>10, SparesSelf, AgreeSpares
    <3> QED
      BY <3>2, <3>3, <3>5, <2>2, <1>6 DEF Peace
  <2>4. CASE w.result = "OK"
    <3> DEFINE locks == vol.locks
    <3>1. u.locks = locks
      BY <1>6
    <3>2. Opens(u, a, write, w)
      BY <2>4, <1>10
    <3> HIDE DEF locks
    <3>3. PICK i, p, start :
            LET opens == IF << 0, i >> \in DOMAIN locks THEN locks[<< 0, i >>] ELSE 0
            IN  /\ IsOpened(w.o, write, << 0, i >>, p, start)
                /\ w.locks = Entered(locks, << 0, i >>, IF write THEN WriteOpen ELSE opens + 1)
                /\ opens # WriteOpen /\ (write => ~(opens > 0))
                /\ ~w.dead /\ ~w.misled /\ (write => << 0, i >> \notin DOMAIN locks) /\ write =>
                     /\ i \in Nat /\ p \notin a.files \cup { RootPlace }
                     /\ \E b, c : /\ Joins(a, b, p) /\ Holds(w, b) /\ Tied(w.o, b, p)
                                  /\ At(b.links, RootCluster, i \div EntriesPerCluster, c) /\ p = PlaceAt(c, i)
      BY <3>1, <3>2 DEF Opens
    <3> DEFINE key == << 0, i >>
               opens == IF key \in DOMAIN locks THEN locks[key] ELSE 0
    <3>4. /\ w.o = [ y \in DOMAIN w.o |-> w.o[y] ] /\ DOMAIN Closed \subseteq DOMAIN w.o
          /\ w.o.open = TRUE /\ w.o.write = write /\ w.o.key = key /\ Own(w.o) = p /\ w.o.position = 0
          /\ w.o.written = FALSE /\ w.o.shortened = FALSE
      BY <3>3 DEF IsOpened, HasFields
    <3>5. /\ SameOpen(w.o, q) /\ q.written = FALSE /\ q.result = w.o.result /\ q.shortened = FALSE
          /\ \A b, r : Ready(w.o, b, r) => Ready(q, b, r)
      <4> DEFINE z == w.o.shortened /\ ~("open" = "sync" /\ w.result = "OK")
                 y == [ w.o EXCEPT !.shortened = z ]
      <4>1. q = y /\ z = FALSE
        BY <3>4 DEF After
      <4> HIDE DEF z
      <4>2. /\ y.open = w.o.open /\ y.write = w.o.write /\ y.key = w.o.key /\ y.ownSector = w.o.ownSector /\ y.slot = w.o.slot
            /\ y.written = w.o.written /\ y.result = w.o.result /\ y.shortened = z /\ y.start = w.o.start
            /\ y.position = w.o.position /\ y.cluster = w.o.cluster
        BY <3>4, ClosedFields
      <4> HIDE DEF y, q
      <4>3. \A b, r : Ready(w.o, b, r) => Ready(y, b, r)
        BY <4>2 DEF Ready, Tied, OnChain
      <4> QED
        BY <4>1, <4>2, <4>3, <3>4 DEF SameOpen, Own
    <3> HIDE DEF q
    <3>6. q.open = TRUE /\ q.write = write /\ q.key = key /\ Own(q) = p
      BY <3>4, <3>5 DEF SameOpen
    <3>7. w.locks = Entered(locks, key, IF write THEN WriteOpen ELSE opens + 1) /\ opens # WriteOpen /\ (write => ~(opens > 0))
      BY <3>3
    <3> HIDE DEF opens
    <3>8. ~write => opens + 1 # WriteOpen
      <4>1. ~write => w.locks[key] = opens + 1
        BY <3>7 DEF Entered
      <4> QED
        BY <4>1, <3>4, <2>4, <1>12
    <3>9. Counted(w.locks, ns) /\ (write => key \notin DOMAIN locks)
      <4>1. Counted(locks, obj)
        BY <1>6 DEF locks
      <4>2. opens = IF q.key \in DOMAIN locks THEN locks[q.key] ELSE 0
        BY <3>6 DEF opens
      <4> HIDE DEF key
      <4>3. /\ q.open = TRUE /\ q.write \in BOOLEAN /\ opens # WriteOpen
            /\ (q.write => ~(opens > 0)) /\ (~q.write => opens + 1 # WriteOpen)
        BY <3>6, <3>7, <3>8
      <4>4. /\ Counted(Entered(locks, q.key, IF q.write THEN WriteOpen ELSE opens + 1), ns)
            /\ q.write => q.key \notin DOMAIN locks
        BY <4>1, <4>2, <4>3, <2>1, <1>1, <1>8, CountedOpen
      <4>5. w.locks = Entered(locks, q.key, IF q.write THEN WriteOpen ELSE opens + 1)
        BY <3>6, <3>7
      <4> QED
        BY <4>4, <4>5, <3>6
    <3>10. Honest(q)
      BY <3>5 DEF Honest
    <3>11. \A g \in Files : ns[g].open => Honest(ns[g])
      BY <3>10, <2>2, <1>6
    <3>12. CASE write
      <4>1. /\ i \in Nat /\ p \notin a.files \cup { RootPlace }
            /\ \E b, c : /\ Joins(a, b, p) /\ Holds(w, b) /\ Tied(w.o, b, p)
                         /\ At(b.links, RootCluster, i \div EntriesPerCluster, c) /\ p = PlaceAt(c, i)
        BY <3>3, <3>9, <3>12, <1>12, <1>14
      <4>2. PICK b, c : /\ Joins(a, b, p) /\ Holds(w, b) /\ Tied(w.o, b, p)
                        /\ At(b.links, RootCluster, i \div EntriesPerCluster, c) /\ p = PlaceAt(c, i)
        BY <4>1
      <4>3. Ready(q, b, p)
        BY <4>2, <3>4, <3>5 DEF Ready
      <4>4. AtKey(q, b)
        <5>1. c \in Clusters
          BY <4>2 DEF At
        <5> QED
          BY <5>1, <4>1, <4>2, <3>6 DEF AtKey
      <4>6. Joins(a, b, p) /\ Holds(w, b)
        BY <4>2
      <4>7. q.open /\ q.write
        BY <3>6, <3>12
      <4> DEFINE own == Own(q)
      <4>8. own = p /\ own \notin a.files /\ Joins(a, b, own) /\ Ready(q, b, own)
        BY <3>6, <4>1, <4>3, <4>6
      <4>5. Agree(w, ns, b)
        <5>1. Own(q) \notin a.files /\ Joins(a, b, Own(q)) /\ Ready(q, b, Own(q))
          BY <4>8
        <5>2. ~obj[f].open /\ Agree(vol, obj, a) /\ Holds(w, b)
          BY <1>1, <1>7, <4>6
        <5> QED
          BY <5>1, <5>2, <4>4, <4>7, <2>1, <1>8, AgreeJoins
      <4> QED
        BY <4>5, <3>9, <3>11 DEF Peace
    <3>13. CASE ~write
      <4>1. Writers(ns) = Writers(obj) /\ \A g \in Writers(obj) : ns[g] = obj[g]
        BY <3>6, <3>13, <2>2, <1>1 DEF Writers
      <4>2. Agree(w, ns, a)
        BY <4>1, <1>7, <1>10, SparesSelf, AgreeSpares
      <4> QED
        BY <4>2, <3>9, <3>11 DEF Peace
    <3> QED
      BY <3>12, <3>13
  <2> QED
    BY <2>3, <2>4
<1> QED
  BY <1>3, <1>11, <1>13, <1>14, EndsPeace

\* The end of a method of cFatFs.
LEMMA DonePeace ==
  ASSUME IInv, Counted(vol.locks, obj), \A g \in Files : obj[g].open => Honest(obj[g]), NEW a, Agree(vol, obj, a),
         NEW u, u.locks = vol.locks, NEW w, Done(u, a, w), NEW op, NEW path, NEW arg, Ends(op, NoFile, path, arg, w)
  PROVE  CInv'
<1> SUFFICES ASSUME Settled' PROVE CInv'
  BY DEF CInv
<1>1. ~w.misled /\ ~(w.dead /\ Exposed(w, NoFile))
  BY HealthCalm DEF Ends, Settled
<1>2. w.locks = vol.locks /\ \E b : Spares(a, b) /\ Holds(w, b)
  BY <1>1 DEF Done
<1>3. PICK b : Spares(a, b) /\ Holds(w, b)
  BY <1>2
<1>4. VolumeOK(w)
  BY <1>3 DEF Holds, Intact
<1>5. ASSUME w.dead PROVE Mountable(w.disk)
  <2>1. \A g \in Files : ~obj[g].shortened
    BY <1>1, <1>5, FileAssumption DEF Exposed
  <2>2. b.loose = {}
    BY <2>1, <1>3, AgreeHas DEF Spares
  <2> QED
    BY <2>2, <1>3 DEF Holds, Intact
<1>6. ASSUME ~w.dead PROVE Peace(w, obj')
  <2>1. obj' = obj
    BY <1>6 DEF Ends
  <2>2. Agree(w, obj, b)
    BY <1>3, AgreeSpares
  <2> QED
    BY <2>1, <2>2, <1>2 DEF Peace
<1> QED
  BY <1>4, <1>5, <1>6, EndsPeace

\* A method of cFatFs, wherever its accesses fail.
LEMMA PathApart ==
  ASSUME IInv, CInv, Settled, NEW u, Begins(vol, u), NEW w,
         \A a : Holds(u, a) /\ a.loose \subseteq a.files /\ Locked(u, a) => Done(u, a, w),
         NEW op, NEW path, NEW arg, Ends(op, NoFile, path, arg, w)
  PROVE  CInv'
<1>1. /\ VolumeOK(u) /\ u.locks = vol.locks
      /\ Counted(vol.locks, obj) /\ (\A g \in Files : obj[g].open => Honest(obj[g]))
      /\ \E a : Agree(vol, obj, a) /\ Holds(u, a)
  BY BeginsPeace
<1>2. PICK a : Agree(vol, obj, a) /\ Holds(u, a)
  BY <1>1
<1>3. a.loose \subseteq a.files /\ Locked(u, a)
  BY <1>1, <1>2, AgreeHas, AgreeLocked
<1>4. Done(u, a, w)
  BY <1>2, <1>3
<1> QED
  BY <1>1, <1>2, <1>4, DonePeace

\* unlink.
LEMMA UnlinkApart ==
  ASSUME Flat, IInv, CInv, UnlinkPath
  PROVE  CInv'
<1>1. PICK p \in Paths : PathCall("unlink", p, 0, LAMBDA v : Unlink(v, p))
  BY DEF UnlinkPath
<1>2. Settled
  BY <1>1 DEF PathCall, May, Settled
<1>3. PICK w \in Outcomes(vol, LAMBDA v : Unlink(v, p)) : Ends("unlink", NoFile, p, 0, w)
  BY <1>1 DEF PathCall
<1> DEFINE x(k) == Far - Unlink([ vol EXCEPT !.fuse = Far, !.fault = k ], p).fuse
<1>4. \/ w = Unlink(vol, p)
      \/ \E k \in Faults : \E m \in 1 .. x(k) : w = Unlink([ vol EXCEPT !.fuse = m, !.fault = k ], p)
  BY <1>3, Zenon DEF Outcomes
<1>5. PICK u : Begins(vol, u) /\ w = Unlink(u, p)
  BY <1>4, UpFromOne, Zenon DEF Begins
<1>6. Names(p)
  BY <1>1 DEF Flat
<1>7. \A a : Holds(u, a) /\ a.loose \subseteq a.files /\ Locked(u, a) => Done(u, a, w)
  BY <1>5, <1>6, UnlinkDone
<1> QED
  BY <1>2, <1>3, <1>5, <1>7, PathApart

\* changeAttributes.
LEMMA ChangeApart ==
  ASSUME Flat, IInv, CInv, ChangePath
  PROVE  CInv'
<1>1. PICK p \in Paths : PathCall("attributes", p, 0, LAMBDA v : ChangeAttributes(v, p, TRUE))
  BY DEF ChangePath
<1>2. Settled
  BY <1>1 DEF PathCall, May, Settled
<1>3. PICK w \in Outcomes(vol, LAMBDA v : ChangeAttributes(v, p, TRUE)) : Ends("attributes", NoFile, p, 0, w)
  BY <1>1 DEF PathCall
<1> DEFINE x(k) == Far - ChangeAttributes([ vol EXCEPT !.fuse = Far, !.fault = k ], p, TRUE).fuse
<1>4. \/ w = ChangeAttributes(vol, p, TRUE)
      \/ \E k \in Faults : \E m \in 1 .. x(k) : w = ChangeAttributes([ vol EXCEPT !.fuse = m, !.fault = k ], p, TRUE)
  BY <1>3, Zenon DEF Outcomes
<1>5. PICK u : Begins(vol, u) /\ w = ChangeAttributes(u, p, TRUE)
  BY <1>4, UpFromOne, Zenon DEF Begins
<1>6. Names(p)
  BY <1>1 DEF Flat
<1>7. \A a : Holds(u, a) /\ a.loose \subseteq a.files /\ Locked(u, a) => Done(u, a, w)
  BY <1>5, <1>6, ChangeAttributesDone
<1> QED
  BY <1>2, <1>3, <1>5, <1>7, PathApart

\* utime.
LEMMA TouchApart ==
  ASSUME Flat, IInv, CInv, TouchPath
  PROVE  CInv'
<1>1. PICK p \in Paths : PathCall("utime", p, 0, LAMBDA v : Utime(v, p))
  BY DEF TouchPath
<1>2. Settled
  BY <1>1 DEF PathCall, May, Settled
<1>3. PICK w \in Outcomes(vol, LAMBDA v : Utime(v, p)) : Ends("utime", NoFile, p, 0, w)
  BY <1>1 DEF PathCall
<1> DEFINE x(k) == Far - Utime([ vol EXCEPT !.fuse = Far, !.fault = k ], p).fuse
<1>4. \/ w = Utime(vol, p)
      \/ \E k \in Faults : \E m \in 1 .. x(k) : w = Utime([ vol EXCEPT !.fuse = m, !.fault = k ], p)
  BY <1>3, Zenon DEF Outcomes
<1>5. PICK u : Begins(vol, u) /\ w = Utime(u, p)
  BY <1>4, UpFromOne, Zenon DEF Begins
<1>6. Names(p)
  BY <1>1 DEF Flat
<1>7. \A a : Holds(u, a) /\ a.loose \subseteq a.files /\ Locked(u, a) => Done(u, a, w)
  BY <1>5, <1>6, UtimeDone
<1> QED
  BY <1>2, <1>3, <1>5, <1>7, PathApart

\* makeSubDirectory.
LEMMA MakeApart ==
  ASSUME Flat, IInv, CInv, MakePath
  PROVE  CInv'
<1>1. PICK p \in Paths : PathCall("mkdir", p, 0, LAMBDA v : MakeSubDirectory(v, p))
  BY DEF MakePath
<1>2. Settled
  BY <1>1 DEF PathCall, May, Settled
<1>3. PICK w \in Outcomes(vol, LAMBDA v : MakeSubDirectory(v, p)) : Ends("mkdir", NoFile, p, 0, w)
  BY <1>1 DEF PathCall
<1> DEFINE x(k) == Far - MakeSubDirectory([ vol EXCEPT !.fuse = Far, !.fault = k ], p).fuse
<1>4. \/ w = MakeSubDirectory(vol, p)
      \/ \E k \in Faults : \E m \in 1 .. x(k) : w = MakeSubDirectory([ vol EXCEPT !.fuse = m, !.fault = k ], p)
  BY <1>3, Zenon DEF Outcomes
<1>5. PICK u : Begins(vol, u) /\ w = MakeSubDirectory(u, p)
  BY <1>4, UpFromOne, Zenon DEF Begins
<1>6. Names(p)
  BY <1>1 DEF Flat
<1>7. \A a : Holds(u, a) /\ a.loose \subseteq a.files /\ Locked(u, a) => Done(u, a, w)
  BY <1>5, <1>6, MakeSubDirectoryDone
<1> QED
  BY <1>2, <1>3, <1>5, <1>7, PathApart

\* rename.
LEMMA RenameApart ==
  ASSUME Flat, IInv, CInv, RenamePath
  PROVE  CInv'
<1>1. PICK p \in Paths, q \in NewPaths : PathCall("rename", p, 0, LAMBDA v : Rename(v, p, q))
  BY DEF RenamePath
<1>2. Settled
  BY <1>1 DEF PathCall, May, Settled
<1>3. PICK w \in Outcomes(vol, LAMBDA v : Rename(v, p, q)) : Ends("rename", NoFile, p, 0, w)
  BY <1>1 DEF PathCall
<1> DEFINE x(k) == Far - Rename([ vol EXCEPT !.fuse = Far, !.fault = k ], p, q).fuse
<1>4. \/ w = Rename(vol, p, q)
      \/ \E k \in Faults : \E m \in 1 .. x(k) : w = Rename([ vol EXCEPT !.fuse = m, !.fault = k ], p, q)
  BY <1>3, Zenon DEF Outcomes
<1>5. PICK u : Begins(vol, u) /\ w = Rename(u, p, q)
  BY <1>4, UpFromOne, Zenon DEF Begins
<1>6. Names(p) /\ Names(q)
  BY <1>1 DEF Flat
<1>7. \A a : Holds(u, a) /\ a.loose \subseteq a.files /\ Locked(u, a) => Done(u, a, w)
  BY <1>5, <1>6, RenameDone
<1> QED
  BY <1>2, <1>3, <1>5, <1>7, PathApart

\* setLabel.
LEMMA LabelApart ==
  ASSUME Flat, IInv, CInv, LabelVolume
  PROVE  CInv'
<1>1. PICK set \in BOOLEAN : PathCall("label", << >>, 0, LAMBDA v : SetLabel(v, set))
  BY DEF LabelVolume
<1>2. Settled
  BY <1>1 DEF PathCall, May, Settled
<1>3. PICK w \in Outcomes(vol, LAMBDA v : SetLabel(v, set)) : Ends("label", NoFile, << >>, 0, w)
  BY <1>1 DEF PathCall
<1> DEFINE x(k) == Far - SetLabel([ vol EXCEPT !.fuse = Far, !.fault = k ], set).fuse
<1>4. \/ w = SetLabel(vol, set)
      \/ \E k \in Faults : \E m \in 1 .. x(k) : w = SetLabel([ vol EXCEPT !.fuse = m, !.fault = k ], set)
  BY <1>3, Zenon DEF Outcomes
<1>5. PICK u : Begins(vol, u) /\ w = SetLabel(u, set)
  BY <1>4, UpFromOne, Zenon DEF Begins
<1>7. \A a : Holds(u, a) /\ a.loose \subseteq a.files /\ Locked(u, a) => Done(u, a, w)
  BY <1>5, SetLabelDone
<1> QED
  BY <1>2, <1>3, <1>5, <1>7, PathApart

-----------------------------------------------------------------------------
(* What always holds. *)

LEMMA InitApart ==
  ASSUME Flat, Init
  PROVE  CInv
<1>1. IsCard(Disk)
  <2>1. \A s \in FatSectors : IsLinks(Disk[s])
    BY DiskAssumption, SectorPlaces, BelongingLinks
  <2> QED
    BY <2>1, DiskAssumption DEF IsCard
<1>2. \A f \in Files : obj[f].open = FALSE
  BY DEF Init, Closed
<1>3. ~Mount(Disk).dead /\ ~Mount(Disk).misled /\ Peace(Mount(Disk), obj)
  BY <1>1, <1>2, MountPeace, DiskAssumption DEF Flat
<1> QED
  BY <1>3 DEF Init, CInv

LEMMA NextApart ==
  ASSUME Flat, IInv, CInv, [Next]_vars
  PROVE  CInv'
<1>1. CASE FileStep
  <2>1. PICK f \in Files : \/ OpenFile(f) \/ ReadFile(f) \/ WriteFile(f) \/ SeekFile(f) \/ TruncateFile(f)
                           \/ SyncFile(f) \/ CloseFile(f)
    BY <1>1 DEF FileStep
  <2> QED
    BY <2>1, OpenApart, ReadApart, WriteApart, SeekApart, TruncateApart, SyncApart, CloseApart
<1>2. CASE PathStep
  BY <1>2, UnlinkApart, ChangeApart, TouchApart, MakeApart, RenameApart, LabelApart DEF PathStep
<1>3. CASE UNCHANGED vars
  <2>1. vol' = vol /\ obj' = obj /\ health' = health
    BY <1>3 DEF vars
  <2> QED
    BY <2>1 DEF CInv, Settled
<1> QED
  BY <1>1, <1>2, <1>3 DEF Next

\* The first clusters that are named are claimed.
LEMMA NamedClaimed ==
  ASSUME NEW v, ~v.dead, NEW os, NEW a, Agree(v, os, a)
  PROVE  Named(v, os) \subseteq a.claims
<1>1. Rooted(a) /\ EntriesFit(Logical(v), a)
  BY DEF Agree, Holds, Intact, Respects
<1>2. ASSUME NEW h \in Heads(Logical(v)), \A f \in Writers(os) : os[f].shortened => h[1] # Own(os[f])
      PROVE  h \in a.claims
  <2>1. h[1] \notin a.loose
    BY <1>2 DEF Agree
  <2>2. CASE h = RootClaim
    BY <2>2, <1>1 DEF Rooted
  <2>3. CASE h # RootClaim
    <3>1. PICK s \in DataSectors :
            h \in { << << s, i >>, Logical(v)[s].entries[i].start >> :
                      i \in { j \in DOMAIN Logical(v)[s].entries : NamesChain(Logical(v)[s].entries[j]) } }
      BY <1>2, <2>3 DEF Heads
    <3>2. PICK i \in DOMAIN Logical(v)[s].entries :
            NamesChain(Logical(v)[s].entries[i]) /\ h = << << s, i >>, Logical(v)[s].entries[i].start >>
      BY <3>1
    <3>3. Fits(Logical(v)[s].entries[i], << s, i >>, a)
      BY <3>2, <1>1 DEF EntriesFit
    <3> QED
      BY <2>1, <3>2, <3>3 DEF Fits
  <2> QED
    BY <2>2, <2>3
<1>3. ASSUME NEW f \in Writers(os), os[f].start # 0 PROVE << Own(os[f]), os[f].start >> \in a.claims
  BY <1>3 DEF Agree, Ready, Tied, Writers
<1> QED
  BY <1>2, <1>3 DEF Named

LEMMA CInvApart ==
  ASSUME IInv, CInv
  PROVE  FirstClustersApart
<1> SUFFICES ASSUME Settled PROVE /\ TableInv(vol)
                                  /\ HeadsApart(Logical(vol), Named(vol, obj))
                                  /\ (\A f \in Files : ~obj[f].shortened) => Mountable(vol.disk)
  BY DEF FirstClustersApart
<1>1. ~vol.dead /\ \E a : Agree(vol, obj, a)
  BY DEF CInv, Peace
<1>2. PICK a : Agree(vol, obj, a)
  BY <1>1
<1>3. Holds(vol, a) /\ ((\A f \in Files : ~obj[f].shortened) => a.loose = {})
  BY <1>2, AgreeHas
<1>4. HeadsApart(Logical(vol), a.claims) /\ TableSound(Logical(vol)) /\ TableSound(vol.disk)
  BY <1>1, <1>3 DEF Holds, Intact, Respects
<1>5. Named(vol, obj) \subseteq a.claims
  BY <1>1, <1>2, NamedClaimed
<1>6. TableInv(vol)
  BY <1>3, <1>4 DEF TableInv, Holds, Intact, VolumeOK
<1>7. HeadsApart(Logical(vol), Named(vol, obj))
  BY <1>4, <1>5, FewerApart
<1>8. (\A f \in Files : ~obj[f].shortened) => Mountable(vol.disk)
  BY <1>3 DEF Holds, Intact
<1> QED
  BY <1>6, <1>7, <1>8

\* In every state, for every flat choice of the files and paths and every card in order, with
\* every failure of an access and every cut that leaves the volume followed, as long as no open
\* has taken half of a first cluster (NothingIsHalved: never, with less than 2^16 clusters): each
\* first cluster that an entry or an object names starts a chain, no two name the same, the table
\* of the card and of the window is sound, and a card with no stale entry could be mounted
\* (fatFs.cpp:1708, 1772, 3245).
THEOREM FirstClustersStayApart ==
  ASSUME Flat
  PROVE  Spec => []FirstClustersApart
<1>1. Init => CInv
  BY InitApart
<1>2. IInv /\ CInv /\ [Next]_vars => CInv'
  BY NextApart
<1>3. IInv /\ CInv => FirstClustersApart
  BY CInvApart
<1> QED
  BY <1>1, <1>2, <1>3, AlwaysIInv, PTL DEF Spec

\* The walks of n links from cluster c on card d.
Walks(d, c, n) ==
  { p \in [ 0 .. n -> Clusters ] : p[0] = c /\ \A i \in 1 .. n : LinkOn(d, p[i - 1]) = p[i] }

\* Two walks from first clusters that are named meet only if both are from the same entry, at the
\* same place; they never come to a free cluster, and they end.
ChainsApart ==
  Settled =>
    \A h \in Named(vol, obj), n \in Nat : \A p \in Walks(Logical(vol), h[2], n) :
      /\ n < NumFatEntries - 2
      /\ LinkOn(Logical(vol), p[n]) # 0
      /\ \A g \in Named(vol, obj), m \in Nat : \A q \in Walks(Logical(vol), g[2], m) :
           q[m] = p[n] => g[1] = h[1] /\ m = n

LEMMA WalkAt ==
  ASSUME NEW d, NEW s \in Clusters, NEW n \in Nat, NEW p \in Walks(d, s, n)
  PROVE  \A i \in 0 .. n : At(LinksOf(d), s, i, p[i])
<1> DEFINE T == { i \in Nat : i <= n => At(LinksOf(d), s, i, p[i]) }
<1>1. /\ p \in [ 0 .. n -> Clusters ] /\ p[0] = s
      /\ \A i \in 1 .. n : LinkOn(d, p[i - 1]) = p[i]
  BY DEF Walks
<1>2. 0 \in T
  BY <1>1, AtStart
<1>3. ASSUME NEW i \in Nat, i \in T PROVE i + 1 \in T
  <2>1. SUFFICES ASSUME i + 1 <= n PROVE At(LinksOf(d), s, i + 1, p[i + 1])
    OBVIOUS
  <2>2. At(LinksOf(d), s, i, p[i])
    BY <1>3, <2>1
  <2>3. i \in 0 .. n /\ i + 1 \in 1 .. n /\ i + 1 \in 0 .. n /\ (i + 1) - 1 = i
    BY <2>1
  <2>4. p[i] \in Clusters /\ p[i + 1] \in Clusters /\ LinkOn(d, p[i]) = p[i + 1]
    <3>1. LinkOn(d, p[(i + 1) - 1]) = p[i + 1]
      BY <1>1, <2>3
    <3> QED
      BY <1>1, <2>3, <3>1
  <2>5. << p[i], p[i + 1] >> \in LinksOf(d)
    BY <2>4 DEF LinksOf
  <2> QED
    BY <2>2, <2>4, <2>5, AtNext
<1>4. Nat \subseteq T
  <2> HIDE DEF T
  <2> QED
    BY <1>2, <1>3, Moving!Upwards
<1> QED
  BY <1>4

\* The links of a sound card are chained, and those of a first cluster apart.
LEMMA SoundChains ==
  ASSUME NEW d, TableSound(d)
  PROVE  /\ Chained(LinksOf(d))
         /\ \A K : HeadsApart(d, K) => \A h \in K : Unlinked(LinksOf(d), h[2])
  BY DEF TableSound, LinksOf, Chained, HeadsApart, Unlinked

LEMMA ApartChains ==
  ASSUME FirstClustersApart, Settled => ~vol.dead
  PROVE  ChainsApart
<1> SUFFICES ASSUME Settled, NEW h \in Named(vol, obj), NEW n \in Nat, NEW p \in Walks(Logical(vol), h[2], n)
             PROVE  /\ n < NumFatEntries - 2
                    /\ LinkOn(Logical(vol), p[n]) # 0
                    /\ \A g \in Named(vol, obj), m \in Nat : \A q \in Walks(Logical(vol), g[2], m) :
                         q[m] = p[n] => g[1] = h[1] /\ m = n
  BY DEF ChainsApart
<1> DEFINE d == Logical(vol)
           K == Named(vol, obj)
<1>1. TableSound(d) /\ HeadsApart(d, K)
  BY DEF FirstClustersApart, TableInv
<1> HIDE DEF d, K
<1>2. Chained(LinksOf(d)) /\ \A g \in K : Unlinked(LinksOf(d), g[2]) /\ g[2] \in Clusters /\ LinkOn(d, g[2]) # 0
  <2>1. \A g \in K : Unlinked(LinksOf(d), g[2])
    BY <1>1, SoundChains
  <2>2. \A g \in K : g[2] \in Clusters /\ LinkOn(d, g[2]) # 0
    BY <1>1 DEF HeadsApart
  <2> QED
    BY <1>1, <2>1, <2>2, SoundChains
<1>3. h \in K /\ p \in Walks(d, h[2], n)
  BY DEF d, K
<1>4. At(LinksOf(d), h[2], n, p[n])
  BY <1>2, <1>3, WalkAt
<1>5. n < NumFatEntries - 2
  BY <1>2, <1>3, <1>4, AtBound
<1>6. LinkOn(d, p[n]) # 0
  <2>1. CASE n = 0
    BY <2>1, <1>2, <1>3 DEF Walks
  <2>2. CASE n # 0
    <3>1. n \in 1 .. n /\ n - 1 \in 0 .. n /\ n \in 0 .. n
      BY <2>2
    <3>2. LinkOn(d, p[n - 1]) = p[n] /\ p[n - 1] \in Clusters /\ p[n] \in Clusters
      BY <1>3, <3>1 DEF Walks
    <3> QED
      BY <1>1, <3>2 DEF TableSound
  <2> QED
    BY <2>1, <2>2
<1>7. ASSUME NEW g \in K, NEW m \in Nat, NEW q \in Walks(d, g[2], m), q[m] = p[n]
      PROVE  g[1] = h[1] /\ m = n
  <2>1. At(LinksOf(d), g[2], m, q[m])
    BY <1>2, <1>7, WalkAt
  <2>2. m = n /\ g[2] = h[2]
    BY <1>2, <1>3, <1>4, <1>7, <2>1, AtApart
  <2> QED
    BY <1>1, <1>3, <1>7, <2>2 DEF HeadsApart
<1> QED
  BY <1>5, <1>6, <1>7 DEF d, K

\* So, in every such state, no cluster is in the chains of two entries or twice in one, every
\* chain that is named ends within the table, and all of its clusters are in use: what getFat
\* and removeChain walk through is the caller's own (fatFs.cpp:1708, 1772).
THEOREM ChainsStayApart ==
  ASSUME Flat
  PROVE  Spec => []ChainsApart
<1>1. Init => CInv
  BY InitApart
<1>2. IInv /\ CInv /\ [Next]_vars => CInv'
  BY NextApart
<1>3. IInv /\ CInv => ChainsApart
  <2> SUFFICES ASSUME IInv, CInv PROVE ChainsApart
    OBVIOUS
  <2>1. FirstClustersApart
    BY CInvApart
  <2>2. Settled => ~vol.dead
    BY DEF CInv
  <2> QED
    BY <2>1, <2>2, ApartChains
<1> QED
  BY <1>1, <1>2, <1>3, AlwaysIInv, PTL DEF Spec

=============================================================================
