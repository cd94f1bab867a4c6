--------------------------- MODULE FatClaimsProofs ---------------------------
(***************************************************************************)
(* Whose clusters are whose.  A first cluster is claimed by the entry that *)
(* names it, or by the object that writes the file; it is in use, no link  *)
(* leads to it, and no other entry claims it.  That is what a call needs   *)
(* of a sound table to leave it sound: removeChain may only be given the   *)
(* start of a chain that nobody else names.                                *)
(*                                                                         *)
(* Every operator of FatTable and FatVolume is shown to respect the claims *)
(* of others (Holds), from the window upwards.                             *)
(***************************************************************************)
EXTENDS FatFileProofs

-----------------------------------------------------------------------------
(* Claims. *)

\* What a call has to respect: claims; the places of the entries of files that are open
\* for writing (files), of which some are stale since the file was shortened (loose); and
\* links, those of the root directory and of these files.
Accord(claims, loose, files, links) ==
  [ claims |-> claims, loose |-> loose, files |-> files, links |-> links ]

Rooted(a) ==
  /\ RootClaim \in a.claims
  /\ \A l \in a.links : /\ l[1] \in Clusters /\ l[2] \in Clusters
                        /\ \/ \E h \in a.claims : h[2] = l[1] /\ h[1] \in a.files \cup { RootPlace }
                           \/ \E m \in a.links : m[2] = l[1]

\* An entry at place p that fits in: what it names is claimed.
Fits(e, p, a) ==
  /\ NamesChain(e) => << p, e.start >> \in a.claims \/ p \in a.loose
  /\ p \in a.files => e.kind # "dir"

EntriesFit(d, a) == \A s \in DataSectors : \A i \in DOMAIN d[s].entries : Fits(d[s].entries[i], << s, i >>, a)

LinksKept(d, a) == \A l \in a.links : LinkOn(d, l[1]) = l[2]

Respects(d, a) == TableSound(d) /\ HeadsApart(d, a.claims) /\ EntriesFit(d, a) /\ LinksKept(d, a)

\* What the window shows fits in, even if the card has got something else there by now.
WindowFits(v, a) ==
  v.sector \in DataSectors =>
    \A i \in DOMAIN v.buffer.entries : Fits(v.buffer.entries[i], << v.sector, i >>, a)

\* A clean window shows the entries that are on the card, or that a file has overwritten.
Fresh(v) ==
  ~v.dead /\ ~v.dirty /\ v.sector \in DataSectors => v.disk[v.sector].entries \in { v.buffer.entries, << >> }

\* A volume that respects a.  As long as no entry is stale, the power may go.
Intact(v, a) ==
  /\ VolumeOK(v)
  /\ Rooted(a)
  /\ TableSound(v.disk)
  /\ a.loose = {} => Mountable(v.disk)
  /\ ~v.dead => Respects(Logical(v), a) /\ WindowFits(v, a)

Holds(v, a) == Intact(v, a) /\ Fresh(v)

-----------------------------------------------------------------------------
(* Cards. *)

\* The entries of a card are its heads.
LEMMA HeadsFit ==
  ASSUME NEW d, NEW a, Rooted(a), a.loose = {}, EntriesFit(d, a)
  PROVE  Heads(d) \subseteq a.claims
<1> SUFFICES ASSUME NEW s \in DataSectors, NEW i \in DOMAIN d[s].entries, NamesChain(d[s].entries[i])
             PROVE  << << s, i >>, d[s].entries[i].start >> \in a.claims
  BY DEF Heads, Rooted
<1> QED
  BY DEF EntriesFit, Fits

LEMMA FewerApart ==
  ASSUME NEW d, NEW K, HeadsApart(d, K), NEW M, M \subseteq K
  PROVE  HeadsApart(d, M)
  BY DEF HeadsApart

LEMMA RespectsMountable ==
  ASSUME NEW d, NEW a, Rooted(a), a.loose = {}, Respects(d, a)
  PROVE  Mountable(d)
  BY HeadsFit, FewerApart DEF Respects, Mountable

\* A card with the same links.
LEMMA LinksDecide ==
  ASSUME NEW d, NEW e, \A t \in FatSectors : d[t].links = e[t].links
  PROVE  /\ \A c \in Clusters : LinkOn(e, c) = LinkOn(d, c)
         /\ TableSound(d) => TableSound(e)
         /\ \A K : HeadsApart(d, K) => HeadsApart(e, K)
         /\ \A a : Rooted(a) /\ LinksKept(d, a) => LinksKept(e, a)
<1>1. \A c \in Clusters : LinkOn(e, c) = LinkOn(d, c)
  BY LinkPlace DEF LinkOn
<1>2. TableSound(d) => TableSound(e)
  BY <1>1 DEF TableSound
<1>3. \A K : HeadsApart(d, K) => HeadsApart(e, K)
  BY <1>1 DEF HeadsApart
<1>4. \A a : Rooted(a) /\ LinksKept(d, a) => LinksKept(e, a)
  BY <1>1 DEF LinksKept, Rooted
<1> QED
  BY <1>1, <1>2, <1>3, <1>4

\* A card on which some data sectors have other entries, all of which fit in.
LEMMA DataRespects ==
  ASSUME NEW d, NEW a, Rooted(a), Respects(d, a), NEW e, \A t \in FatSectors : d[t].links = e[t].links,
         \A s \in DataSectors : e[s].entries = d[s].entries
            \/ \A i \in DOMAIN e[s].entries : Fits(e[s].entries[i], << s, i >>, a)
  PROVE  Respects(e, a)
<1>1. EntriesFit(e, a)
  BY DEF EntriesFit, Respects
<1> QED
  BY <1>1, LinksDecide DEF Respects

\* A card on which some data sectors have lost their entries.
LEMMA LostEntriesMountable ==
  ASSUME NEW d, Mountable(d), NEW e, \A t \in FatSectors : d[t].links = e[t].links,
         \A s \in DataSectors : e[s].entries = d[s].entries
            \/ \A i \in DOMAIN e[s].entries : ~NamesChain(e[s].entries[i])
  PROVE  Mountable(e)
<1>1. Heads(e) \subseteq Heads(d)
  <2> SUFFICES ASSUME NEW s \in DataSectors, NEW i \in DOMAIN e[s].entries, NamesChain(e[s].entries[i])
               PROVE  << << s, i >>, e[s].entries[i].start >> \in Heads(d)
    BY DEF Heads
  <2>1. e[s].entries = d[s].entries
    OBVIOUS
  <2> QED
    BY <2>1 DEF Heads
<1> QED
  BY <1>1, LinksDecide, FewerApart DEF Mountable

-----------------------------------------------------------------------------
(* What the window does. *)

\* The window of w shows what that of v does, or what the volume holds.
WindowLike(v, w) ==
  \/ w.sector = v.sector /\ w.buffer = v.buffer
  \/ w.sector \notin DataSectors
  \/ w.buffer = Logical(w)[w.sector]

\* From v to w the window may move, but the volume holds what it did.
Seen(v, w) ==
  /\ VolumeOK(w)
  /\ w.disk \in { v.disk, Logical(v) }
  /\ v.dead => w.dead /\ w.disk = v.disk
  /\ ~w.dead => Logical(w) = Logical(v) /\ WindowLike(v, w)
  /\ Fresh(v) => Fresh(w)

LEMMA WindowLikeFits ==
  ASSUME NEW v, NEW a, WindowFits(v, a), NEW w, WindowLike(v, w), EntriesFit(Logical(w), a)
  PROVE  WindowFits(w, a)
  BY DEF WindowFits, WindowLike, EntriesFit

LEMMA SeenHolds ==
  ASSUME NEW v, NEW w, Seen(v, w)
  PROVE  \A a : (Intact(v, a) => Intact(w, a)) /\ (Holds(v, a) => Holds(w, a))
<1> SUFFICES ASSUME NEW a, Intact(v, a) PROVE Intact(w, a)
  BY DEF Holds, Seen
<1>1. v.dead \in BOOLEAN
  BY DEF Intact, VolumeOK, IsVolume
<1>2. ~v.dead => TableSound(Logical(v)) /\ (a.loose = {} => Mountable(Logical(v)))
  BY RespectsMountable DEF Intact, Respects
<1>3. ~w.dead => ~v.dead /\ Respects(Logical(w), a) /\ WindowFits(w, a)
  BY <1>1, WindowLikeFits DEF Intact, Seen, Respects
<1> QED
  BY <1>1, <1>2, <1>3 DEF Intact, Seen

LEMMA MovedIsSeen ==
  ASSUME NEW v, NEW w, WindowMoved(v, w), VolumeOK(w), WindowLike(v, w), Fresh(v) => Fresh(w)
  PROVE  Seen(v, w)
  BY DEF WindowMoved, Seen

LEMMA SeenAgain ==
  ASSUME NEW v, NEW u, Seen(v, u), NEW w, Seen(u, w)
  PROVE  Seen(v, w)
<1>1. u.dead \in BOOLEAN /\ w.dead \in BOOLEAN
  BY DEF Seen, VolumeOK, IsVolume
<1> QED
  BY <1>1 DEF Seen, WindowLike

\* Fields that are not the table's.
LEMMA OuterSeen ==
  ASSUME NEW v, VolumeOK(v), NEW w, w = [ f \in DOMAIN w |-> w[f] ], SameBut(v, w, OuterFields)
  PROVE  Seen(v, w)
<1>1. v.dead \in BOOLEAN
  BY DEF VolumeOK, IsVolume
<1> QED
  BY <1>1, OuterStays DEF Seen, WindowLike, Fresh

LEMMA SameSeen ==
  ASSUME NEW v, VolumeOK(v)
  PROVE  Seen(v, v) /\ (\A r : Seen(v, Fails(v, r))) /\ (\A x : Seen(v, Gives(v, x)))
<1>1. v.dead \in BOOLEAN
  BY DEF VolumeOK, IsVolume
<1>2. Seen(v, v)
  BY <1>1 DEF Seen, WindowLike
<1>3. ASSUME NEW r PROVE Seen(v, Fails(v, r))
  <2>1. SameBut(v, Fails(v, r), OuterFields) /\ VolumeOK(Fails(v, r))
    BY FailsStays DEF SameBut, OuterFields
  <2> QED
    BY <2>1, OuterSeen DEF VolumeOK, IsVolume
<1>4. ASSUME NEW x PROVE Seen(v, Gives(v, x))
  <2>1. SameBut(v, Gives(v, x), OuterFields) /\ VolumeOK(Gives(v, x))
    BY GivesStays DEF SameBut, OuterFields
  <2> QED
    BY <2>1, OuterSeen DEF VolumeOK, IsVolume
<1> QED
  BY <1>2, <1>3, <1>4

LEMMA SyncWindowSeen ==
  ASSUME NEW v, VolumeOK(v)
  PROVE  Seen(v, SyncWindow(v)) /\ VolumeOK(SyncWindow(v))
<1> DEFINE w == SyncWindow(v)
           u == DiskWrite(v, v.sector, v.buffer)
<1>1. VolumeOK(w) /\ WindowMoved(v, w) /\ SameBut(v, w, { "disk", "dirty", "fuse", "dead", "result" })
  BY SyncWindowStays
<1>2. Fresh(v) => Fresh(w)
  <2>1. CASE ~v.dirty
    <3>1. w = Fails(v, "OK")
      BY <2>1 DEF SyncWindow
    <3>2. SameBut(v, w, { "result" })
      BY <3>1, FailsStays
    <3> HIDE DEF w
    <3> QED
      BY <3>2, Fields DEF SameBut, TableFields, Fresh
  <2>2. CASE v.dirty
    <3>1. WriteDone(v, u, v.sector, v.buffer)
      BY Fields, DiskWriteDoes DEF VolumeOK, IsVolume
    <3>2. w = [ u EXCEPT !.dirty = u.result # "OK" ]
      BY <2>2 DEF SyncWindow, With
    <3> HIDE DEF w, u
    <3>3. w.disk = u.disk /\ w.dead = u.dead /\ w.dirty = (u.result # "OK") /\ w.sector = v.sector /\ w.buffer = v.buffer
      BY <3>1, <3>2, Fields DEF WriteDone, SameBut, TableFields
    <3>4. ASSUME ~w.dead, ~w.dirty, w.sector \in DataSectors PROVE w.disk[w.sector] = w.buffer
      <4>1. w.disk = [ v.disk EXCEPT ![v.sector] = v.buffer ] /\ v.sector \in Sectors
        BY <3>1, <3>3, <3>4, SectorPlaces DEF WriteDone
      <4>2. v.disk = [ t \in Sectors |-> v.disk[t] ]
        BY DEF VolumeOK, IsVolume, IsCard
      <4> QED
        BY <3>3, <4>1, <4>2
    <3> QED
      BY <3>4 DEF Fresh
  <2> QED
    BY <2>1, <2>2 DEF VolumeOK, IsVolume
<1> HIDE DEF w
<1>3. WindowLike(v, w)
  BY <1>1, Fields DEF WindowLike, SameBut, TableFields
<1> QED
  BY <1>1, <1>2, <1>3, MovedIsSeen DEF w

LEMMA LoadSeen ==
  ASSUME NEW v, VolumeOK(v), ~v.dirty, NEW s
  PROVE  Seen(v, Load(v, s))
<1> DEFINE u == DiskRead(v, s)
           w == Load(v, s)
<1>1. VolumeOK(w) /\ WindowMoved(v, w)
  BY LoadStays
<1>2. WindowLike(v, w) /\ Fresh(w)
  <2>1. w = IF u.result = "OK" THEN [ u EXCEPT !.sector = s, !.buffer = v.disk[s] ]
            ELSE [ u EXCEPT !.sector = NoSector ]
    BY DEF Load, With
  <2>2. /\ u = [ f \in DOMAIN u |-> u[f] ] /\ DOMAIN u = DOMAIN v /\ TableFields \subseteq DOMAIN v
        /\ u.disk = v.disk /\ u.dirty = v.dirty /\ (u.result = "OK" => s \in Sectors)
    <3> DEFINE r == IF (BurnsOut(v) /\ v.fault = "error") \/ s \notin Sectors THEN "DISK_ERR" ELSE "OK"
               b == IF v.fault = "error" THEN Burn(v) ELSE v
    <3>1. u = Fails(b, r)
      BY DEF DiskRead
    <3>2. b = [ f \in DOMAIN b |-> b[f] ] /\ DOMAIN b = DOMAIN v /\ b.disk = v.disk /\ b.dirty = v.dirty
      BY Fields DEF Burn, TableFields
    <3> HIDE DEF u, b
    <3> QED
      BY <3>1, <3>2, Fields DEF Fails, TableFields
  <2> HIDE DEF u, w
  <2>3. CASE u.result = "OK"
    <3>1. w.buffer = v.disk[s] /\ w.sector = s /\ w.disk = v.disk /\ w.dirty = v.dirty
      BY <2>1, <2>2, <2>3 DEF TableFields
    <3> QED
      BY <3>1 DEF WindowLike, Logical, Fresh
  <2>4. CASE u.result # "OK"
    <3>1. w.sector = NoSector
      BY <2>1, <2>2, <2>4 DEF TableFields
    <3> QED
      BY <3>1, SectorPlaces DEF WindowLike, Fresh
  <2> QED
    BY <2>3, <2>4
<1> QED
  BY <1>1, <1>2, MovedIsSeen

LEMMA MoveWindowSeen ==
  ASSUME NEW v, VolumeOK(v), NEW s
  PROVE  Seen(v, MoveWindow(v, s)) /\ VolumeOK(MoveWindow(v, s))
<1> DEFINE u == SyncWindow(v)
           w == MoveWindow(v, s)
<1>1. Seen(v, u) /\ VolumeOK(u) /\ (u.result = "OK" => ~u.dirty)
  BY SyncWindowSeen, SyncWindowStays
<1>2. CASE s = v.sector
  BY <1>2, SameSeen, FailsStays DEF MoveWindow
<1>3. CASE s # v.sector
  <2>1. w = IF u.result = "OK" THEN Load(u, s) ELSE u
    BY <1>3 DEF MoveWindow, Then
  <2> HIDE DEF w, u
  <2>2. u.result = "OK" => Seen(u, Load(u, s)) /\ VolumeOK(Load(u, s))
    BY <1>1, LoadSeen, LoadStays
  <2> QED
    BY <1>1, <2>1, <2>2, SeenAgain DEF w
<1> QED
  BY <1>2, <1>3

LEMMA GetFatSeen ==
  ASSUME NEW v, VolumeOK(v), NEW c
  PROVE  Seen(v, GetFat(v, c)) /\ VolumeOK(GetFat(v, c))
<1> DEFINE m == MoveWindow(v, FatSector(c))
<1>1. Seen(v, m) /\ VolumeOK(m) /\ Seen(v, Gives(v, 1)) /\ VolumeOK(Gives(v, 1))
  BY MoveWindowSeen, SameSeen, GivesStays
<1>2. PICK x : GetFat(v, c) = IF c \notin Clusters THEN Gives(v, 1) ELSE Gives(m, x)
  BY DEF GetFat, With
<1> HIDE DEF m
<1>3. Seen(m, Gives(m, x)) /\ VolumeOK(Gives(m, x))
  BY <1>1, SameSeen, GivesStays
<1> QED
  BY <1>1, <1>2, <1>3, SeenAgain

LEMMA FindFreeSeen ==
  ASSUME NEW v, VolumeOK(v), NEW from
  PROVE  Seen(v, FindFree(v, from)) /\ VolumeOK(FindFree(v, from))
<1> DEFINE v0 == Gives(v, LastLink)
           u(k) == Search!Passes(v0, from)[k]
           T == { k \in Nat : Seen(v, u(k)) /\ VolumeOK(u(k)) }
           z == u(NumFatEntries - 2)
<1>1. u(0) = v0 /\ \A k \in Nat : u(k + 1) = SearchPass(u(k), from, k + 1)
  BY Search!PassByPass
<1>2. FindFree(v, from) = IF z.value = LastLink THEN Gives(z, 0) ELSE z
  BY DEF FindFree, With
<1>3. 0 \in T
  BY <1>1, SameSeen, GivesStays
<1>4. ASSUME NEW k \in Nat, k \in T PROVE k + 1 \in T
  <2> DEFINE x == u(k)
             y == u(k + 1)
             g == GetFat(x, Candidate(from, k + 1))
  <2>1. Seen(v, x) /\ VolumeOK(x) /\ y = SearchPass(x, from, k + 1)
    BY <1>1, <1>4
  <2> HIDE DEF u, x, y
  <2>2. \E n : y = x \/ y = g \/ y = Gives(g, n)
    BY <2>1 DEF SearchPass, With
  <2>3. Seen(x, g) /\ VolumeOK(g)
    BY <2>1, GetFatSeen
  <2> HIDE DEF g
  <2>4. \A n : Seen(g, Gives(g, n)) /\ VolumeOK(Gives(g, n))
    BY <2>3, SameSeen, GivesStays
  <2>5. Seen(v, y) /\ VolumeOK(y)
    BY <2>1, <2>2, <2>3, <2>4, SeenAgain
  <2> QED
    BY <2>5 DEF y
<1>5. Nat \subseteq T
  <2> HIDE DEF T
  <2> QED
    BY <1>3, <1>4, Search!Upwards
<1>6. Seen(v, z) /\ VolumeOK(z)
  BY <1>5, TableAssumption
<1> HIDE DEF z
<1>7. Seen(z, Gives(z, 0)) /\ VolumeOK(Gives(z, 0))
  BY <1>6, SameSeen, GivesStays
<1> QED
  BY <1>2, <1>6, <1>7, SeenAgain

-----------------------------------------------------------------------------
(* Links. *)

\* More claims, and more links.
Grown(a, K, L) == Accord(a.claims \cup K, a.loose, a.files, a.links \cup L)

LEMMA GrownHas ==
  ASSUME NEW a, NEW K, NEW L
  PROVE  LET b == Grown(a, K, L)
         IN  /\ b.claims = a.claims \cup K /\ b.loose = a.loose /\ b.files = a.files
             /\ b.links = a.links \cup L
             /\ \A e, p : Fits(e, p, a) => Fits(e, p, b)
  BY DEF Grown, Accord, Fits

\* A volume holds what is added if that is true of it.
LEMMA GrownHolds ==
  ASSUME NEW v, NEW a, Holds(v, a), NEW K, NEW L, Rooted(Grown(a, K, L)),
         ~v.dead => HeadsApart(Logical(v), a.claims \cup K) /\ \A l \in L : LinkOn(Logical(v), l[1]) = l[2]
  PROVE  Holds(v, Grown(a, K, L))
<1> DEFINE b == Grown(a, K, L)
<1>1. /\ b.claims = a.claims \cup K /\ b.loose = a.loose /\ b.links = a.links \cup L
      /\ \A e, p : Fits(e, p, a) => Fits(e, p, b)
  BY GrownHas
<1> HIDE DEF b
<1>2. ~v.dead => Respects(Logical(v), b) /\ WindowFits(v, b)
  BY <1>1 DEF Holds, Intact, Respects, EntriesFit, WindowFits, LinksKept
<1> QED
  BY <1>1, <1>2 DEF Holds, Intact, b

\* The link after a cluster that is claimed, or that a link leads to, may be kept.
LEMMA LinkMayBeKept ==
  ASSUME NEW v, NEW a, Holds(v, a), NEW c \in Clusters, NEW n \in Clusters,
         \/ \E h \in a.claims : h[2] = c /\ h[1] \in a.files \cup { RootPlace }
         \/ \E m \in a.links : m[2] = c,
         ~v.dead => LinkOn(Logical(v), c) = n
  PROVE  Holds(v, Grown(a, {}, { << c, n >> }))
<1>1. Rooted(Grown(a, {}, { << c, n >> }))
  BY GrownHas DEF Rooted, Holds, Intact
<1>2. ~v.dead => HeadsApart(Logical(v), a.claims \cup {})
  BY DEF Holds, Intact, Respects
<1>3. \A l \in { << c, n >> } : l[1] = c /\ l[2] = n
  OBVIOUS
<1> QED
  BY <1>1, <1>2, <1>3, GrownHolds

\* Setting a link leaves the data sectors alone.
LEMMA LinkIsElsewhere ==
  ASSUME NEW d, NEW c \in Clusters, NEW x, NEW s \in DataSectors, IsCard(d)
  PROVE  WithLink(d, c, x)[s] = d[s]
<1>1. FatSector(c) # s /\ s \in Sectors
  BY LinkPlace, SectorPlaces
<1> QED
  BY <1>1 DEF WithLink, IsCard

\* What changes with one link.
LEMMA LinkRespects ==
  ASSUME NEW d, IsCard(d), NEW a, Rooted(a), Respects(d, a), NEW c \in Clusters, NEW x \in 0 .. Ones,
         TableSound(WithLink(d, c, x)),
         x # 0 \/ \A h \in a.claims : h[2] # c,
         x \in Clusters => \A h \in a.claims : h[2] # x,
         \A l \in a.links : l[1] # c
  PROVE  Respects(WithLink(d, c, x), a)
<1> DEFINE e == WithLink(d, c, x)
<1>1. \A k \in Clusters : LinkOn(e, k) = IF k = c THEN x ELSE LinkOn(d, k)
  BY TableWith
<1>2. \A s \in DataSectors : e[s] = d[s]
  BY LinkIsElsewhere
<1> HIDE DEF e
<1>3. HeadsApart(e, a.claims)
  <2> SUFFICES ASSUME NEW h \in a.claims
               PROVE  /\ h[2] \in Clusters /\ LinkOn(e, h[2]) # 0
                      /\ \A k \in Clusters : LinkOn(e, k) # h[2]
                      /\ \A g \in a.claims : g[2] = h[2] => g[1] = h[1]
    BY DEF HeadsApart
  <2>1. /\ h[2] \in Clusters /\ LinkOn(d, h[2]) # 0
        /\ \A k \in Clusters : LinkOn(d, k) # h[2]
        /\ \A g \in a.claims : g[2] = h[2] => g[1] = h[1]
    BY DEF HeadsApart, Respects
  <2> QED
    BY <1>1, <2>1
<1>4. EntriesFit(e, a)
  BY <1>2 DEF EntriesFit, Respects
<1>5. LinksKept(e, a)
  BY <1>1 DEF LinksKept, Respects, Rooted
<1> QED
  BY <1>3, <1>4, <1>5 DEF Respects, e

\* A free cluster is marked.
LEMMA MarkRespects ==
  ASSUME NEW d, IsCard(d), NEW a, Rooted(a), Respects(d, a), NEW n \in Clusters, LinkOn(d, n) = 0
  PROVE  Respects(WithLink(d, n, LastLink), a)
<1>1. TableSound(WithLink(d, n, LastLink))
  BY SoundMark DEF Respects
<1>2. \A l \in a.links : l[1] # n
  BY Numbers DEF Rooted, LinksKept, Respects
<1> QED
  BY <1>1, <1>2, LinkRespects, Numbers

\* A cluster that nobody claims is put at the end of a chain.
LEMMA AppendRespects ==
  ASSUME NEW d, IsCard(d), NEW a, Rooted(a), Respects(d, a), NEW c \in Clusters, NEW n \in Clusters,
         LinkOn(d, c) = LastLink, LinkOn(d, n) = LastLink, \A k \in Clusters : LinkOn(d, k) # n,
         \A h \in a.claims : h[2] # n
  PROVE  Respects(WithLink(d, c, n), a)
<1>1. TableSound(WithLink(d, c, n))
  BY SoundAppend DEF Respects
<1>2. \A l \in a.links : l[1] # c
  BY Numbers DEF Rooted, LinksKept, Respects
<1>3. n # 0 /\ n \in 0 .. Ones
  BY Numbers
<1> QED
  BY <1>1, <1>2, <1>3, LinkRespects

\* The start of a chain that nobody claims is freed; the next cluster is such a start then.
LEMMA FreeRespects ==
  ASSUME NEW d, IsCard(d), NEW a, Rooted(a), Respects(d, a), NEW c \in Clusters,
         \A k \in Clusters : LinkOn(d, k) # c, \A h \in a.claims : h[2] # c
  PROVE  /\ Respects(WithLink(d, c, 0), a)
         /\ LinkOn(d, c) \in Clusters =>
              /\ \A k \in Clusters : LinkOn(WithLink(d, c, 0), k) # LinkOn(d, c)
              /\ \A h \in a.claims : h[2] # LinkOn(d, c)
<1>1. /\ TableSound(WithLink(d, c, 0))
      /\ LinkOn(d, c) \in Clusters => \A k \in Clusters : LinkOn(WithLink(d, c, 0), k) # LinkOn(d, c)
  BY SoundFree DEF Respects
<1>2. \A l \in a.links : l[1] # c
  <2> SUFFICES ASSUME NEW l \in a.links, l[1] = c PROVE FALSE
    OBVIOUS
  <2>1. l[1] = RootCluster \/ \E m \in a.links : m[1] \in Clusters /\ LinkOn(d, m[1]) = l[1]
    BY DEF Rooted, Respects, LinksKept
  <2>2. RootCluster # c
    BY DEF Rooted, RootClaim
  <2> QED
    BY <2>1, <2>2
<1>3. 0 \in 0 .. Ones /\ 0 \notin Clusters
  BY Numbers
<1>4. \A h \in a.claims : h[2] # LinkOn(d, c)
  BY DEF Respects, HeadsApart
<1> QED
  BY <1>1, <1>2, <1>3, <1>4, LinkRespects

\* The start of a chain that nobody claims yet may be claimed.
Unclaimed(d, a, n) ==
  LinkOn(d, n) # 0 /\ (\A k \in Clusters : LinkOn(d, k) # n) /\ (\A h \in a.claims : h[2] # n)

LEMMA ClaimHolds ==
  ASSUME NEW v, NEW a, Holds(v, a), NEW n \in Clusters, ~v.dead => Unclaimed(Logical(v), a, n), NEW p
  PROVE  Holds(v, Grown(a, { << p, n >> }, {}))
<1>1. Rooted(Grown(a, { << p, n >> }, {}))
  BY GrownHas DEF Rooted, Holds, Intact
<1>2. ~v.dead => HeadsApart(Logical(v), a.claims \cup { << p, n >> })
  <2> SUFFICES ASSUME ~v.dead, NEW h \in a.claims \cup { << p, n >> }
               PROVE  /\ h[2] \in Clusters /\ LinkOn(Logical(v), h[2]) # 0
                      /\ \A c \in Clusters : LinkOn(Logical(v), c) # h[2]
                      /\ \A g \in a.claims \cup { << p, n >> } : g[2] = h[2] => g[1] = h[1]
    BY DEF HeadsApart
  <2>1. HeadsApart(Logical(v), a.claims) /\ Unclaimed(Logical(v), a, n)
    BY DEF Holds, Intact, Respects
  <2>2. << p, n >>[1] = p /\ << p, n >>[2] = n
    OBVIOUS
  <2>3. CASE h \in a.claims
    BY <2>1, <2>2, <2>3 DEF HeadsApart, Unclaimed
  <2>4. CASE h = << p, n >>
    BY <2>1, <2>2, <2>4 DEF HeadsApart, Unclaimed
  <2> QED
    BY <2>3, <2>4
<1> QED
  BY <1>1, <1>2, GrownHolds

\* The window holds a link that was set.
LEMMA PutHolds ==
  ASSUME NEW v, NEW a, Holds(v, a), NEW w, NEW c, NEW x, LinkPut(v, w, c, x), VolumeOK(w), ~w.dead => WindowLike(v, w),
         Fresh(w), ~v.dead => Respects(WithLink(Logical(v), c, x), a)
  PROVE  Holds(w, a)
<1>1. v.dead \in BOOLEAN /\ w.dead \in BOOLEAN
  BY DEF Holds, Intact, VolumeOK, IsVolume
<1>2. ~v.dead => TableSound(Logical(v)) /\ (a.loose = {} => Mountable(Logical(v)))
  BY RespectsMountable DEF Holds, Intact, Respects
<1>3. ~w.dead => ~v.dead /\ Respects(Logical(w), a) /\ WindowFits(w, a)
  BY <1>1, WindowLikeFits DEF Holds, Intact, LinkPut, Respects
<1> QED
  BY <1>1, <1>2, <1>3 DEF Holds, Intact, LinkPut

\* putFat (1624) leaves the window on the table.
LEMMA PutFatLike ==
  ASSUME NEW v, VolumeOK(v), NEW c \in Clusters, NEW x
  PROVE  /\ ~PutFat(v, c, x).dead => WindowLike(v, PutFat(v, c, x))
         /\ Fresh(v) => Fresh(PutFat(v, c, x))
<1> DEFINE m == MoveWindow(v, FatSector(c))
           w == PutFat(v, c, x)
<1>1. Seen(v, m) /\ VolumeOK(m) /\ (m.result = "OK" => m.sector = FatSector(c))
  BY MoveWindowSeen, MoveWindowStays
<1>2. w = IF m.result = "OK" THEN [ m EXCEPT !.buffer.links[LinkIndex(c)] = x, !.dirty = TRUE ] ELSE m
  BY DEF PutFat, Then
<1> HIDE DEF m, w
<1>3. CASE m.result = "OK"
  <2>1. w.sector = FatSector(c)
    BY <1>1, <1>2, <1>3, Fields DEF TableFields
  <2> QED
    BY <2>1, LinkPlace, SectorPlaces DEF WindowLike, Fresh, w
<1>4. CASE m.result # "OK"
  BY <1>1, <1>2, <1>4 DEF Seen, w
<1> QED
  BY <1>3, <1>4

LEMMA CardsOK ==
  ASSUME NEW v, VolumeOK(v)
  PROVE  IsCard(Logical(v)) /\ IsCard(v.disk) /\ v.dead \in BOOLEAN
  BY LogicalIsCard DEF VolumeOK, IsVolume

\* The count of free clusters is nobody's claim.
LEMMA CountSeen ==
  ASSUME NEW v, VolumeOK(v), NEW delta \in { 1, Ones }
  PROVE  Seen(v, CountFree(v, delta)) /\ VolumeOK(CountFree(v, delta))
<1> DEFINE w == CountFree(v, delta)
<1>1. VolumeOK(w) /\ SameBut(v, w, { "free", "fsInfoDirty" }) /\ Logical(w) = Logical(v)
  BY CountStays
<1> HIDE DEF w
<1>2. w.disk = v.disk /\ w.dead = v.dead
  BY <1>1, Fields DEF SameBut, TableFields
<1>3. w.sector = v.sector /\ w.buffer = v.buffer
  BY <1>1, Fields DEF SameBut, TableFields
<1>4. w.dirty = v.dirty
  BY <1>1, Fields DEF SameBut, TableFields
<1> QED
  BY <1>1, <1>2, <1>3, <1>4, CardsOK DEF Seen, WindowLike, Fresh, w

\* createChain (1751) marks the cluster it found, and links it.  A first cluster may be claimed.
LEMMA TakeHolds ==
  ASSUME NEW v, NEW a, Holds(v, a), NEW c \in Clusters \cup { 0 }, NEW n \in Clusters,
         ~v.dead => LinkOn(Logical(v), n) = 0 /\ (c # 0 => LinkOn(Logical(v), c) = LastLink)
  PROVE  LET w == Take(v, c, n)
         IN  /\ Holds(w, a) /\ w.value \in { n, Ones }
             /\ c = 0 /\ w.value = n /\ ~w.dead => Unclaimed(Logical(w), a, n)
             /\ c # 0 /\ w.value = n /\ ~w.dead => LinkOn(Logical(w), c) = n
<1> DEFINE d == Logical(v)
           m == PutFat(v, n, LastLink)
           u == IF m.result = "OK" THEN IF c = 0 THEN m ELSE PutFat(m, c, n) ELSE m
           w == Take(v, c, n)
<1>1. LastLink \in LinkValues /\ n \in LinkValues /\ LastLink \in 0 .. Ones /\ n \in 0 .. Ones
  BY Numbers DEF LinkValues
<1>2. VolumeOK(v) /\ IsCard(d) /\ v.dead \in BOOLEAN /\ Rooted(a)
  BY CardsOK DEF Holds, Intact
<1>3. VolumeOK(m) /\ LinkPut(v, m, n, LastLink) /\ (~m.dead => WindowLike(v, m)) /\ Fresh(m)
  BY <1>1, <1>2, PutFatStays, PutFatLike DEF LinkStays, Holds
<1> HIDE DEF m
<1>4. ~v.dead => /\ Respects(d, a) /\ Respects(WithLink(d, n, LastLink), a)
                 /\ Unclaimed(WithLink(d, n, LastLink), a, n)
                 /\ c # 0 => LinkOn(WithLink(d, n, LastLink), c) = LastLink
  <2> SUFFICES ASSUME ~v.dead
               PROVE  /\ Respects(d, a) /\ Respects(WithLink(d, n, LastLink), a)
                      /\ Unclaimed(WithLink(d, n, LastLink), a, n)
                      /\ c # 0 => LinkOn(WithLink(d, n, LastLink), c) = LastLink
    OBVIOUS
  <2>1. Respects(d, a) /\ LinkOn(d, n) = 0
    BY DEF Holds, Intact
  <2>2. Respects(WithLink(d, n, LastLink), a)
    BY <1>2, <2>1, MarkRespects
  <2>3. \A k \in Clusters : LinkOn(WithLink(d, n, LastLink), k) = IF k = n THEN LastLink ELSE LinkOn(d, k)
    BY <1>1, <1>2, TableWith
  <2>4. (\A k \in Clusters : LinkOn(d, k) # n) /\ (\A h \in a.claims : h[2] # n)
    BY <2>1 DEF Respects, TableSound, HeadsApart
  <2> QED
    BY <2>1, <2>2, <2>3, <2>4, Numbers DEF Unclaimed
<1> HIDE DEF d
<1>5. Holds(m, a) /\ m.result \in { "OK", "DISK_ERR" }
  BY <1>3, <1>4, PutHolds DEF d, LinkPut
<1>6. /\ Holds(u, a) /\ VolumeOK(u) /\ u.result \in { "OK", "DISK_ERR" }
      /\ c = 0 /\ u.result = "OK" /\ ~u.dead => Unclaimed(Logical(u), a, n)
      /\ c # 0 /\ u.result = "OK" /\ ~u.dead => LinkOn(Logical(u), c) = n
  <2>1. CASE m.result # "OK" \/ c = 0
    <3>1. u = m
      BY <2>1
    <3>2. m.result = "OK" /\ ~m.dead => Logical(m) = WithLink(d, n, LastLink) /\ ~v.dead
      BY <1>2, <1>3 DEF LinkPut, d
    <3> QED
      BY <1>3, <1>4, <1>5, <2>1, <3>1, <3>2
  <2>2. CASE m.result = "OK" /\ c # 0
    <3> DEFINE p == PutFat(m, c, n)
    <3>1. u = p /\ c \in Clusters
      BY <2>2
    <3> HIDE DEF u
    <3>2. VolumeOK(p) /\ LinkPut(m, p, c, n) /\ (~p.dead => WindowLike(m, p)) /\ Fresh(p)
      BY <1>1, <1>3, <3>1, PutFatStays, PutFatLike DEF LinkStays
    <3> HIDE DEF p
    <3>3. ~m.dead => Respects(WithLink(Logical(m), c, n), a)
      <4> SUFFICES ASSUME ~m.dead PROVE Respects(WithLink(Logical(m), c, n), a)
        OBVIOUS
      <4>1. ~v.dead /\ Logical(m) = WithLink(d, n, LastLink)
        BY <1>2, <1>3, <2>2 DEF LinkPut, d
      <4>2. LinkOn(Logical(m), n) = LastLink
        BY <1>1, <1>2, <4>1, TableWith
      <4>3. IsCard(Logical(m))
        BY <1>3, CardsOK
      <4> QED
        BY <1>2, <1>4, <2>2, <3>1, <4>1, <4>2, <4>3, AppendRespects DEF Unclaimed
    <3>4. Holds(p, a) /\ p.result \in { "OK", "DISK_ERR" }
      BY <1>5, <3>2, <3>3, PutHolds DEF LinkPut
    <3>5. p.result = "OK" /\ ~p.dead => LinkOn(Logical(p), c) = n
      BY <1>1, <1>3, <3>1, <3>2, CardsOK, TableWith DEF LinkPut
    <3> QED
      BY <2>2, <3>1, <3>2, <3>4, <3>5
  <2> QED
    BY <2>1, <2>2
<1>7. w = IF u.result = "OK" THEN Gives(CountFree([ u EXCEPT !.last = n ], Ones), n) ELSE Gives(u, Ones)
  BY <1>6 DEF Take, With, Then, m, u
<1> HIDE DEF u, w
<1>8. CASE u.result # "OK"
  <2>1. w = Gives(u, Ones)
    BY <1>7, <1>8
  <2>2. Holds(w, a)
    BY <1>6, <2>1, SameSeen, SeenHolds
  <2>3. w.value = Ones
    BY <1>6, <2>1, GivesStays
  <2> QED
    BY <2>2, <2>3, Numbers DEF w
<1>9. CASE u.result = "OK"
  <2> DEFINE b == [ u EXCEPT !.last = n ]
             x == CountFree(b, Ones)
  <2>1. w = Gives(x, n)
    BY <1>7, <1>9
  <2>2. b = [ f \in DOMAIN b |-> b[f] ] /\ SameBut(u, b, OuterFields)
    BY <1>6, Fields DEF SameBut, OuterFields
  <2> HIDE DEF b
  <2>3. Seen(u, b) /\ VolumeOK(b)
    BY <1>6, <2>2, OuterSeen, OuterStays
  <2>4. Seen(b, x) /\ VolumeOK(x)
    BY <2>3, CountSeen
  <2> HIDE DEF x
  <2>5. Seen(x, w) /\ w.value = n
    BY <2>1, <2>4, SameSeen, GivesStays
  <2>6. Seen(u, w)
    BY <2>3, <2>4, <2>5, SeenAgain
  <2>7. ~w.dead => ~u.dead /\ Logical(w) = Logical(u)
    BY <2>6, <1>6, CardsOK DEF Seen
  <2> QED
    BY <1>6, <1>9, <2>5, <2>6, <2>7, SeenHolds DEF w
<1> QED
  BY <1>8, <1>9

\* createChain (1708) respects every claim, and a cluster that starts a chain may be claimed.
LEMMA CreateChainHolds ==
  ASSUME NEW v, NEW a, Holds(v, a), NEW c
  PROVE  LET w == CreateChain(v, c)
         IN  /\ Holds(w, a)
             /\ c = 0 /\ w.value \in Clusters => \A p : Holds(w, Grown(a, { << p, w.value >> }, {}))
             /\ c # 0 /\ w.value \in Clusters /\ ~w.dead => c \in Clusters /\ LinkOn(Logical(w), c) = w.value
<1> DEFINE from == IF c # 0 THEN c ELSE IF v.last \in 1 .. NumFatEntries - 1 THEN v.last ELSE 1
           g == IF c = 0 THEN Gives(v, LastLink) ELSE GetFat(v, c)
           f == FindFree(g, from)
           t == Take(f, c, f.value)
           w == CreateChain(v, c)
<1>1. w = IF g.value # LastLink THEN Gives(g, IF g.value < 2 THEN 1 ELSE g.value)
          ELSE IF f.value \in Clusters THEN t ELSE f
  BY DEF CreateChain, With
<1>2. /\ Seen(v, g) /\ VolumeOK(g)
      /\ c = 0 => g.value = LastLink
      /\ g.value = LastLink => c \in Clusters \cup { 0 }
      /\ ~g.dead /\ g.value = LastLink /\ c # 0 => LinkOn(Logical(g), c) = LastLink
      /\ ~g.dead /\ g.value \in Clusters => c \in Clusters /\ LinkOn(Logical(g), c) = g.value
  <2>1. CASE c = 0
    <3>1. g = Gives(v, LastLink)
      BY <2>1
    <3> HIDE DEF g
    <3> QED
      BY <2>1, <3>1, GivesStays, SameSeen, Numbers DEF Holds, Intact
  <2>2. CASE c # 0
    <3>1. g = GetFat(v, c)
      BY <2>2
    <3> HIDE DEF g
    <3>2. /\ c \notin Clusters => g.value = 1
          /\ c \in Clusters /\ ~g.dead => Logical(g) = Logical(v) /\ (g.value # Ones => g.value = LinkOn(Logical(v), c))
      BY <3>1, GetFatStays DEF Holds, Intact
    <3> QED
      BY <2>2, <3>1, <3>2, Numbers, GetFatSeen DEF Holds, Intact
  <2> QED
    BY <2>1, <2>2
<1>3. CASE g.value # LastLink
  <2>1. w = Gives(g, IF g.value < 2 THEN 1 ELSE g.value) /\ c # 0
    BY <1>1, <1>2, <1>3
  <2> HIDE DEF w, g
  <2>2. Seen(g, w) /\ w.value = IF g.value < 2 THEN 1 ELSE g.value
    BY <1>2, <2>1, SameSeen, GivesStays
  <2>3. w.value \in Clusters => w.value = g.value
    BY <2>2, Numbers
  <2>4. ~w.dead => ~g.dead /\ Logical(w) = Logical(g)
    BY <1>2, <2>2, CardsOK DEF Seen
  <2> QED
    BY <1>2, <2>1, <2>2, <2>3, <2>4, SeenAgain, SeenHolds DEF w
<1>4. CASE g.value = LastLink
  <2>1. from \in 1 .. NumFatEntries - 1
    <3>1. c \in Clusters \cup { 0 }
      BY <1>2, <1>4
    <3> QED
      BY <3>1, TableAssumption DEF Clusters
  <2>2. w = IF f.value \in Clusters THEN t ELSE f
    BY <1>1, <1>4
  <2> HIDE DEF g, from, w
  <2>3. VolumeOK(f)
    BY <1>2, <2>1, SearchStays
  <2>4. /\ Seen(g, f) /\ f.value \in Clusters \cup { 0, 1, Ones }
        /\ ~f.dead /\ f.value \in Clusters => LinkOn(Logical(g), f.value) = 0
    BY <1>2, <2>1, FindFreeFinds, FindFreeSeen DEF VolumeOK
  <2> HIDE DEF f
  <2>5. Seen(g, f) /\ (~f.dead => ~g.dead /\ Logical(f) = Logical(g))
    <3>1. f.dead \in BOOLEAN /\ g.dead \in BOOLEAN
      BY <1>2, <2>3, CardsOK
    <3> QED
      BY <2>3, <2>4, <3>1 DEF Seen
  <2>6. Holds(f, a)
    BY <1>2, <2>5, SeenAgain, SeenHolds
  <2>7. CASE f.value \in Clusters
    <3>1. c \in Clusters \cup { 0 } /\ (~f.dead => LinkOn(Logical(f), f.value) = 0 /\ (c # 0 => LinkOn(Logical(f), c) = LastLink))
      BY <1>2, <1>4, <2>4, <2>5, <2>7
    <3>2. /\ Holds(t, a)
          /\ c = 0 /\ t.value = f.value /\ ~t.dead => Unclaimed(Logical(t), a, f.value)
          /\ c # 0 /\ t.value = f.value /\ ~t.dead => LinkOn(Logical(t), c) = f.value
          /\ t.value \in { f.value, Ones }
      BY <2>6, <2>7, <3>1, TakeHolds
    <3> HIDE DEF t
    <3>3. w = t
      BY <2>2, <2>7
    <3>4. c = 0 /\ w.value \in Clusters => \A p : Holds(w, Grown(a, { << p, w.value >> }, {}))
      BY <3>2, <3>3, ClaimHolds, Numbers
    <3>5. c # 0 /\ w.value \in Clusters /\ ~w.dead => c \in Clusters /\ LinkOn(Logical(w), c) = w.value
      BY <3>1, <3>2, <3>3, Numbers
    <3> QED
      BY <3>2, <3>3, <3>4, <3>5 DEF w
  <2>8. CASE f.value \notin Clusters
    <3>1. w = f
      BY <2>2, <2>8
    <3> QED
      BY <2>6, <2>8, <3>1 DEF w
  <2> QED
    BY <2>7, <2>8
<1> QED
  BY <1>3, <1>4

\* The cluster at hand in the loop of removeChain starts a chain that nobody claims.
Loosened(v, a) ==
  Holds(v, a) /\
  (~v.dead /\ v.result = "OK" /\ v.value \in Clusters =>
     (\A k \in Clusters : LinkOn(Logical(v), k) # v.value) /\ (\A h \in a.claims : h[2] # v.value))

\* A pass of removeChain (1784).
LEMMA FreePassHolds ==
  ASSUME NEW v, NEW a, Loosened(v, a), NEW k
  PROVE  Loosened(FreePass(v, 0, k), a)
<1> DEFINE n == v.value
           g == GetFat(v, n)
           m == PutFat(g, n, 0)
           b == CountFree(m, 1)
           w == FreePass(v, 0, k)
<1>0. VolumeOK(v) /\ Holds(v, a)
  BY DEF Holds, Intact, Loosened
<1>1. CASE v.result # "OK" \/ n \notin Clusters
  <2>1. w = v
    BY <1>1 DEF FreePass
  <2> HIDE DEF w
  <2> QED
    BY <2>1 DEF w
<1>2. CASE v.result = "OK" /\ n \in Clusters
  <2>1. w = CASE g.value = 0    -> Fails(g, "OK")
              [] g.value = 1    -> Fails(g, "INT_ERR")
              [] g.value = Ones -> Fails(g, "DISK_ERR")
              [] OTHER          -> IF m.result = "OK" THEN b ELSE m
    BY <1>2 DEF FreePass, With, Then
  <2>2. /\ Seen(v, g) /\ VolumeOK(g)
        /\ ~g.dead => ~v.dead /\ Logical(g) = Logical(v) /\ (g.value # Ones => g.value = LinkOn(Logical(v), n))
    <3> HIDE DEF n
    <3> QED
      BY <1>0, <1>2, GetFatSeen, GetFatStays
  <2> HIDE DEF w, g
  <2>3. Holds(g, a)
    BY <1>0, <2>2, SeenHolds
  <2>4. CASE g.value \in { 0, 1, Ones }
    <3>1. PICK r : w = Fails(g, r)
      BY <2>1, <2>4, Numbers
    <3>2. Seen(g, w) /\ w.value = g.value
      <4>1. SameBut(g, w, { "result" })
        BY <2>2, <3>1, FailsStays
      <4> QED
        BY <2>2, <3>1, <4>1, SameSeen, Fields DEF SameBut, TableFields
    <3> QED
      BY <2>3, <2>4, <3>2, SeenHolds, Numbers DEF Loosened, w
  <2>5. CASE g.value \notin { 0, 1, Ones }
    <3>1. w = IF m.result = "OK" THEN b ELSE m
      BY <2>1, <2>5
    <3>2. VolumeOK(m) /\ LinkPut(g, m, n, 0) /\ (~m.dead => WindowLike(g, m)) /\ Fresh(m)
      <4> HIDE DEF n, m
      <4> QED
        BY <1>2, <2>2, <2>3, PutFatStays, PutFatLike DEF LinkValues, m, LinkStays, Holds
    <3> HIDE DEF n, m, b
    <3>3. ~g.dead => /\ Respects(WithLink(Logical(g), n, 0), a)
                     /\ g.value \in Clusters =>
                          /\ \A c \in Clusters : LinkOn(WithLink(Logical(g), n, 0), c) # g.value
                          /\ \A h \in a.claims : h[2] # g.value
      <4> SUFFICES ASSUME ~g.dead
                   PROVE  /\ Respects(WithLink(Logical(g), n, 0), a)
                          /\ g.value \in Clusters =>
                               /\ \A c \in Clusters : LinkOn(WithLink(Logical(g), n, 0), c) # g.value
                               /\ \A h \in a.claims : h[2] # g.value
        OBVIOUS
      <4>1. (\A c \in Clusters : LinkOn(Logical(g), c) # n) /\ (\A h \in a.claims : h[2] # n)
        BY <1>2, <2>2 DEF Loosened, n
      <4>2. g.value = LinkOn(Logical(g), n)
        BY <2>2, <2>5
      <4>3. IsCard(Logical(g)) /\ Respects(Logical(g), a) /\ Rooted(a)
        BY <2>2, <2>3, CardsOK DEF Holds, Intact
      <4> QED
        BY <1>2, <4>1, <4>2, <4>3, FreeRespects
    <3>4. Holds(m, a)
      BY <2>3, <3>2, <3>3, PutHolds
    <3>5. CASE m.result # "OK"
      BY <3>1, <3>4, <3>5 DEF Loosened, w
    <3>6. CASE m.result = "OK"
      <4>1. Seen(m, b) /\ VolumeOK(b)
        BY <3>2, CountSeen DEF b
      <4>2. b.value = g.value /\ b.dead = m.dead /\ Logical(b) = Logical(m)
        <5>1. SameBut(m, b, { "free", "fsInfoDirty" }) /\ Logical(b) = Logical(m)
          BY <3>2, CountStays DEF b
        <5>2. TableFields \subseteq DOMAIN m /\ m.value = g.value
          BY <2>2, <3>2, Fields DEF LinkPut, SameBut, WindowFields, TableFields
        <5> QED
          BY <5>1, <5>2 DEF SameBut, TableFields
      <4>3. ~b.dead => ~g.dead /\ Logical(b) = WithLink(Logical(g), n, 0)
        BY <2>2, <3>2, <3>6, <4>2, CardsOK DEF LinkPut
      <4> QED
        BY <3>1, <3>3, <3>4, <3>6, <4>1, <4>2, <4>3, SeenHolds DEF Loosened, w
    <3> QED
      BY <3>5, <3>6
  <2> QED
    BY <2>4, <2>5
<1> QED
  BY <1>1, <1>2

\* removeChain (1772) of a chain that nobody claims respects every claim.
LEMMA RemoveChainHolds ==
  ASSUME NEW v, NEW a, Holds(v, a), NEW c,
         ~v.dead /\ c \in Clusters =>
           (\A k \in Clusters : LinkOn(Logical(v), k) # c) /\ (\A h \in a.claims : h[2] # c)
  PROVE  Holds(RemoveChain(v, c), a)
<1> DEFINE w == RemoveChain(v, c)
<1>1. CASE c \notin Clusters
  BY <1>1, SameSeen, SeenHolds DEF RemoveChain, Holds, Intact
<1>2. CASE c \in Clusters
  <2> DEFINE v0 == Fails(v, "OK")
             v1 == Gives(v0, c)
             u(k) == Freeing!Passes(v1, 0)[k]
             T == { k \in Nat : Loosened(u(k), a) }
  <2>1. w = u(NumFatEntries)
    BY <1>2 DEF RemoveChain, FreeFrom
  <2>2. u(0) = v1 /\ \A k \in Nat : u(k + 1) = FreePass(u(k), 0, k + 1)
    BY Freeing!PassByPass
  <2>3. 0 \in T
    <3>1. Seen(v, v0) /\ VolumeOK(v0)
      BY SameSeen, FailsStays DEF Holds, Intact
    <3> HIDE DEF v0
    <3>2. Seen(v0, v1) /\ v1.value = c
      BY <3>1, SameSeen, GivesStays
    <3> HIDE DEF v1
    <3>3. Seen(v, v1) /\ v.dead \in BOOLEAN /\ v1.dead \in BOOLEAN
      BY <3>1, <3>2, SeenAgain, CardsOK DEF Holds, Intact, Seen
    <3>4. Loosened(v1, a)
      BY <1>2, <3>2, <3>3, SeenHolds DEF Loosened, Seen
    <3> QED
      BY <2>2, <3>4
  <2>4. ASSUME NEW k \in Nat, k \in T PROVE k + 1 \in T
    <3> DEFINE x == u(k)
    <3>1. Loosened(x, a) /\ u(k + 1) = FreePass(x, 0, k + 1)
      BY <2>2, <2>4
    <3> HIDE DEF u, x
    <3> QED
      BY <3>1, FreePassHolds
  <2>5. Nat \subseteq T
    <3> HIDE DEF T
    <3> QED
      BY <2>3, <2>4, Freeing!Upwards
  <2> QED
    BY <2>1, <2>5, TableAssumption DEF Loosened
<1> QED
  BY <1>1, <1>2

-----------------------------------------------------------------------------
(* Writes that name nothing. *)

\* A sector whose entries name no cluster.
Harmless(b) == \A i \in DOMAIN b.entries : ~NamesChain(b.entries[i]) /\ b.entries[i].kind # "dir"

LEMMA LossHeld ==
  ASSUME NEW v, NEW a, Intact(v, a), NEW w, VolumeOK(w),
         \A t \in FatSectors : w.disk[t].links = v.disk[t].links,
         \A s \in DataSectors : w.disk[s].entries = v.disk[s].entries \/ Harmless(w.disk[s]),
         ~w.dead => /\ ~v.dead /\ WindowFits(w, a)
                    /\ \A t \in FatSectors : Logical(w)[t].links = Logical(v)[t].links
                    /\ \A s \in DataSectors :
                         \/ Logical(w)[s].entries = Logical(v)[s].entries
                         \/ \A i \in DOMAIN Logical(w)[s].entries : Fits(Logical(w)[s].entries[i], << s, i >>, a)
  PROVE  Intact(w, a)
<1>1. TableSound(w.disk)
  BY LinksDecide DEF Intact
<1>2. a.loose = {} => Mountable(w.disk)
  BY LostEntriesMountable DEF Intact, Harmless
<1>3. ~w.dead => Respects(Logical(w), a)
  BY DataRespects DEF Intact
<1> QED
  BY <1>1, <1>2, <1>3 DEF Intact

LEMMA HarmlessFits ==
  ASSUME NEW b, Harmless(b), NEW a, NEW s
  PROVE  \A i \in DOMAIN b.entries : Fits(b.entries[i], << s, i >>, a)
  BY DEF Harmless, Fits

\* A sector of a file is written.
LEMMA DataHolds ==
  ASSUME NEW v, NEW a, Holds(v, a), NEW s \in DataSectors \cup { NoSector }, NEW b, Belongs(s, b),
         b.entries = << >>
  PROVE  Holds(DiskWrite(v, s, b), a)
<1> DEFINE w == DiskWrite(v, s, b)
<1>0. VolumeOK(v)
  BY DEF Holds, Intact
<1>1. VolumeOK(v) /\ VolumeOK(w) /\ WriteDone(v, w, s, b)
  <2>1. VolumeOK(w)
    BY <1>0, DataWriteStays
  <2>2. WriteDone(v, w, s, b)
    BY <1>0, DiskWriteDoes DEF VolumeOK, IsVolume
  <2> QED
    BY <1>0, <2>1, <2>2
<1> HIDE DEF w
<1>2. w.sector = v.sector /\ w.buffer = v.buffer /\ w.dirty = v.dirty /\ w.dead \in BOOLEAN /\ (v.dead => w.dead)
  BY <1>1, Fields DEF WriteDone, SameBut, TableFields
<1>3. \A t \in Sectors : w.disk[t] \in { v.disk[t], b } /\ (t # s => w.disk[t] = v.disk[t])
  <2>1. v.disk = [ t \in Sectors |-> v.disk[t] ] /\ w.disk \in { v.disk, [ v.disk EXCEPT ![s] = b ] }
    BY <1>1 DEF WriteDone, VolumeOK, IsVolume, IsCard
  <2> QED
    BY <2>1
<1>4. s \notin FatSectors /\ FatSectors \subseteq Sectors /\ DataSectors \subseteq Sectors /\ Harmless(b)
  BY SectorPlaces DEF Harmless
<1>5. \A t \in FatSectors : w.disk[t] = v.disk[t] /\ Logical(w)[t] = Logical(v)[t]
  BY <1>1, <1>2, <1>3, <1>4, LogicalAt
<1>6. \A t \in DataSectors : w.disk[t].entries = v.disk[t].entries \/ Harmless(w.disk[t])
  BY <1>3, <1>4
<1>7. \A t \in DataSectors :
        \/ Logical(w)[t].entries = Logical(v)[t].entries
        \/ \A i \in DOMAIN Logical(w)[t].entries : Fits(Logical(w)[t].entries[i], << t, i >>, a)
  BY <1>1, <1>2, <1>3, <1>4, LogicalAt, HarmlessFits
<1>8. ~w.dead => ~v.dead /\ WindowFits(w, a)
  BY <1>2 DEF Holds, Intact, WindowFits
<1>9. Fresh(w)
  BY <1>2, <1>3, <1>4 DEF Holds, Fresh
<1> QED
  BY <1>1, <1>5, <1>6, <1>7, <1>8, <1>9, LossHeld DEF w, Holds

\* The same sectors of the table and of files and directories.
SameData(d, e) == \A t \in FatSectors \cup DataSectors : e[t] = d[t]

\* syncFs (1558): after it the card has everything.
LEMMA SyncFsHolds ==
  ASSUME NEW v, NEW a, Holds(v, a)
  PROVE  LET w == SyncFs(v)
         IN  /\ Holds(w, a) /\ VolumeOK(w)
             /\ w.result = "OK" => ~w.dirty
             /\ ~w.dead => ~v.dead /\ SameData(Logical(v), Logical(w))
             /\ (w.sector = v.sector /\ w.buffer = v.buffer) \/ w.sector \notin DataSectors
<1> DEFINE info == Units(<< v.free, v.last >>)
           u == SyncWindow(v)
           x == DiskWrite(u, FsInfoSector, info)
           y == [ x EXCEPT !.sector = FsInfoSector, !.buffer = info, !.fsInfoDirty = FALSE, !.result = "OK" ]
           w == SyncFs(v)
<1>1. w = IF u.result = "OK" /\ u.fsInfoDirty THEN y ELSE u
  BY DEF SyncFs, Then
<1>2. VolumeOK(v) /\ VolumeOK(u) /\ Seen(v, u) /\ (u.result = "OK" => ~u.dirty) /\ VolumeOK(w)
  BY SyncWindowStays, SyncWindowSeen, SyncFsStays DEF Holds, Intact
<1>3. Holds(u, a) /\ (~u.dead => ~v.dead /\ Logical(u) = Logical(v))
  <2>1. u.dead \in BOOLEAN /\ v.dead \in BOOLEAN
    BY <1>2, CardsOK
  <2> QED
    BY <1>2, <2>1, SeenHolds DEF Seen
<1>6. u.sector = v.sector /\ u.buffer = v.buffer
  BY <1>2, SyncWindowStays, Fields DEF SameBut, TableFields
<1> HIDE DEF info, u, w
<1>4. CASE ~(u.result = "OK" /\ u.fsInfoDirty)
  BY <1>1, <1>2, <1>3, <1>4, <1>6 DEF SameData, w
<1>5. CASE u.result = "OK" /\ u.fsInfoDirty
  <2>1. w = y
    BY <1>1, <1>5
  <2>2. WriteDone(u, x, FsInfoSector, info)
    BY <1>2, Fields, DiskWriteDoes DEF VolumeOK, IsVolume
  <2> HIDE DEF x
  <2>3. y.sector = FsInfoSector /\ y.disk = x.disk /\ y.dead = x.dead /\ y.dirty = u.dirty
    BY <1>2, <2>2, Fields DEF WriteDone, SameBut, TableFields
  <2> HIDE DEF y
  <2>4. \A t \in FatSectors \cup DataSectors : y.disk[t] = u.disk[t]
    <3>1. u.disk = [ t \in Sectors |-> u.disk[t] ] /\ y.disk \in { u.disk, [ u.disk EXCEPT ![FsInfoSector] = info ] }
      BY <1>2, <2>2, <2>3 DEF WriteDone, VolumeOK, IsVolume, IsCard
    <3> QED
      BY <3>1, SectorPlaces
  <2>5. Logical(y) = y.disk /\ Logical(u) = u.disk
    BY <1>2, <1>5, <2>3 DEF Logical
  <2>6. ~y.dead => ~u.dead /\ WindowFits(y, a)
    BY <2>2, <2>3, SectorPlaces DEF WriteDone, WindowFits
  <2>9. y.sector \notin DataSectors /\ Fresh(y)
    BY <2>3, SectorPlaces DEF Fresh
  <2>7. Holds(y, a)
    <3> SUFFICES /\ \A t \in FatSectors : y.disk[t] = u.disk[t]
                 /\ \A s \in DataSectors : y.disk[s].entries = u.disk[s].entries
      BY <1>2, <1>3, <2>1, <2>5, <2>6, <2>9, LossHeld DEF Holds
    <3> QED
      BY <2>4
  <2>8. ~y.dead => SameData(Logical(v), Logical(y)) /\ ~v.dead
    BY <1>3, <2>4, <2>5, <2>6 DEF SameData
  <2> QED
    BY <1>2, <1>5, <2>1, <2>3, <2>7, <2>8, <2>9 DEF w
<1> QED
  BY <1>4, <1>5

\* The entries that a dirty window shows are changed.
LEMMA EntriesHold ==
  ASSUME NEW v, NEW a, Holds(v, a), NEW w, VolumeOK(w), w.disk = v.disk, w.dead = v.dead,
         w.sector = v.sector, w.dirty = TRUE, w.buffer.links = v.buffer.links,
         ~v.dead /\ v.sector \in DataSectors =>
           \A i \in DOMAIN w.buffer.entries :
             \/ Fits(w.buffer.entries[i], << v.sector, i >>, a)
             \/ i \in DOMAIN v.buffer.entries /\ w.buffer.entries[i] = v.buffer.entries[i]
  PROVE  Holds(w, a)
<1>1. VolumeOK(v)
  BY DEF Holds, Intact
<1>2. FatSectors \subseteq Sectors /\ DataSectors \subseteq Sectors
  BY SectorPlaces
<1>3. ASSUME ~v.dead, NEW t \in FatSectors PROVE Logical(w)[t].links = Logical(v)[t].links
  <2>1. Logical(w)[t] = IF w.sector = t THEN w.buffer ELSE w.disk[t]
    BY <1>2, LogicalAt
  <2>2. Logical(v)[t] = IF v.dirty /\ v.sector = t THEN v.buffer ELSE v.disk[t]
    BY <1>1, <1>2, LogicalAt
  <2>3. ~v.dirty /\ v.sector = t => v.buffer = v.disk[t]
    BY <1>1, <1>3 DEF VolumeOK, IsVolume
  <2>4. v.dirty \in BOOLEAN
    BY <1>1 DEF VolumeOK, IsVolume
  <2> QED
    BY <2>1, <2>2, <2>3, <2>4
<1>4. ~w.dead => WindowFits(w, a)
  BY DEF Holds, Intact, WindowFits
<1>5. ASSUME ~v.dead, NEW s \in DataSectors
      PROVE  \/ Logical(w)[s].entries = Logical(v)[s].entries
             \/ \A i \in DOMAIN Logical(w)[s].entries : Fits(Logical(w)[s].entries[i], << s, i >>, a)
  <2>1. Logical(w)[s] = IF w.sector = s THEN w.buffer ELSE w.disk[s]
    BY <1>2, LogicalAt
  <2>2. CASE w.sector = s
    BY <1>4, <1>5, <2>1, <2>2 DEF WindowFits
  <2>3. CASE w.sector # s
    BY <1>1, <1>2, <2>1, <2>3, LogicalAt
  <2> QED
    BY <2>2, <2>3
<1>6. Fresh(w)
  BY DEF Fresh
<1> QED
  BY <1>3, <1>4, <1>5, <1>6, LossHeld DEF Holds

\* An entry is written through the slot of the directory.
LEMMA MarkHolds ==
  ASSUME NEW v, NEW a, Holds(v, a), DirOK(v.dir), NEW e, EntryOK(e),
         ~v.dead /\ v.sector \in DataSectors /\ v.dir.slot \in DOMAIN v.buffer.entries =>
           Fits(e, << v.sector, v.dir.slot >>, a)
  PROVE  Holds(Mark(v, e), a)
<1> DEFINE i == v.dir.slot
           w == Mark(v, e)
<1>1. VolumeOK(v)
  BY DEF Holds, Intact
<1>2. VolumeOK(w)
  BY <1>1, MarkStays
<1>3. w = IF i \in DOMAIN v.buffer.entries THEN [ v EXCEPT !.buffer.entries[i] = e, !.dirty = TRUE ]
          ELSE [ v EXCEPT !.dirty = TRUE ]
  BY DEF Mark
<1> HIDE DEF w
<1>4. w.disk = v.disk /\ w.dead = v.dead /\ w.sector = v.sector /\ w.dirty = TRUE
  BY <1>1, <1>3, Fields DEF TableFields
<1>5. /\ w.buffer.links = v.buffer.links
      /\ DOMAIN w.buffer.entries = DOMAIN v.buffer.entries
      /\ \A k \in DOMAIN v.buffer.entries : w.buffer.entries[k] = v.buffer.entries[k] \/ (k = i /\ w.buffer.entries[k] = e)
  <2>1. Belongs(v.sector, v.buffer) /\ "buffer" \in DOMAIN v /\ "dirty" \in DOMAIN v
    BY <1>1, Fields DEF VolumeOK, TableFields
  <2>2. CASE i \notin DOMAIN v.buffer.entries
    <3>1. w.buffer = v.buffer
      BY <1>3, <2>1, <2>2
    <3> QED
      BY <3>1
  <2>3. CASE i \in DOMAIN v.buffer.entries
    <3> DEFINE es == [ v.buffer.entries EXCEPT ![i] = e ]
               b == [ v.buffer EXCEPT !.entries = es ]
    <3>1. w.buffer = b
      BY <1>3, <2>1, <2>3 DEF Belongs, HasFields
    <3>2. b.links = v.buffer.links /\ b.entries = es
      BY <2>1 DEF Belongs, HasFields
    <3>3. DOMAIN es = DOMAIN v.buffer.entries /\ \A k \in DOMAIN es : es[k] = IF k = i THEN e ELSE v.buffer.entries[k]
      BY <2>1 DEF Belongs
    <3> HIDE DEF b, es
    <3> QED
      BY <3>1, <3>2, <3>3
  <2> QED
    BY <2>2, <2>3
<1> QED
  BY <1>2, <1>4, <1>5, EntriesHold DEF w

\* The window is put on a sector of a directory, and shows no names.
LEMMA DataWindowHeld ==
  ASSUME NEW v, NEW a, Intact(v, a), ~v.dirty, NEW w, w = [ f \in DOMAIN w |-> w[f] ],
         SameBut(v, w, SectorFields \cup OuterFields), w.dirty \in BOOLEAN, w.sector \in DataSectors,
         w.buffer = Entries(BlankEntries)
  PROVE  Intact(w, a)
<1>1. VolumeOK(v) /\ Belongs(w.sector, w.buffer)
  BY BlankBelongs DEF Intact
<1>2. VolumeOK(w)
  BY <1>1, DataWindowStays
<1>3. w.disk = v.disk /\ w.dead = v.dead
  BY <1>1, Fields DEF SameBut, TableFields, SectorFields, OuterFields
<1>4. Harmless(w.buffer)
  BY DEF Harmless, Entries, BlankEntries, Blank, Entry, NamesChain
<1>5. FatSectors \subseteq Sectors /\ DataSectors \subseteq Sectors /\ FatSectors \cap DataSectors = {}
  BY SectorPlaces
<1>6. WindowFits(w, a)
  BY <1>4, HarmlessFits DEF WindowFits
<1>7. \A t \in FatSectors : Logical(w)[t] = Logical(v)[t]
  BY <1>1, <1>2, <1>3, <1>5, LogicalAt
<1>8. \A s \in DataSectors :
        \/ Logical(w)[s].entries = Logical(v)[s].entries
        \/ \A i \in DOMAIN Logical(w)[s].entries : Fits(Logical(w)[s].entries[i], << s, i >>, a)
  BY <1>1, <1>2, <1>3, <1>4, <1>5, LogicalAt, HarmlessFits
<1> QED
  BY <1>2, <1>3, <1>6, <1>7, <1>8, LossHeld

\* After a sync that succeeded the card has what the window shows.
LEMMA SyncedHas ==
  ASSUME NEW v, VolumeOK(v), v.dirty
  PROVE  LET w == SyncWindow(v)
         IN  /\ w.result # "OK" => w.dirty
             /\ w.result = "OK" /\ ~w.dead => ~v.dead /\ v.sector \in Sectors /\ w.disk = [ v.disk EXCEPT ![v.sector] = v.buffer ]
<1> DEFINE w == SyncWindow(v)
           u == DiskWrite(v, v.sector, v.buffer)
<1>1. WriteDone(v, u, v.sector, v.buffer)
  BY Fields, DiskWriteDoes DEF VolumeOK, IsVolume
<1>2. w = [ u EXCEPT !.dirty = u.result # "OK" ]
  BY DEF SyncWindow, With
<1> HIDE DEF w, u
<1>3. w.disk = u.disk /\ w.dead = u.dead /\ w.dirty = (u.result # "OK") /\ w.result = u.result
  BY <1>1, <1>2, Fields DEF WriteDone, SameBut, TableFields
<1>4. w.result # "OK" => w.dirty
  BY <1>3, Zenon
<1>5. u.dead \in BOOLEAN /\ v.dead \in BOOLEAN
  BY <1>1 DEF WriteDone, VolumeOK, IsVolume
<1>6. w.result = "OK" /\ ~w.dead => ~v.dead /\ v.sector \in Sectors /\ w.disk = [ v.disk EXCEPT ![v.sector] = v.buffer ]
  BY <1>1, <1>3, <1>5 DEF WriteDone
<1> QED
  BY <1>4, <1>6 DEF w

\* Back at the first sector of a new cluster, after some passes.
LEMMA CleanHolds ==
  ASSUME NEW v, NEW a, Intact(v, a), ~v.dirty, NEW c \in Clusters, v.sector = ClusterToSector(c),
         v.buffer = Entries(BlankEntries)
  PROVE  LET u == Clean(v)
         IN  Holds(Then(u, LAMBDA x : [ x EXCEPT !.sector = ClusterToSector(c) ]), a)
<1> DEFINE first == ClusterToSector(c)
           b == Entries(BlankEntries)
           z(x) == [ x EXCEPT !.sector = first ]
           v0 == Fails(v, "OK")
           u(k) == Cleaning!Passes(v0, 0)[k]
           Inv(k, x) == /\ x = [ f \in DOMAIN x |-> x[f] ] /\ SameBut(v, x, WindowFields)
                        /\ x.buffer = b
                        /\ x.result = "OK" => x.sector = first + k /\ ~x.dirty /\ Intact(z(x), a)
                        /\ x.result = "OK" /\ ~x.dead /\ k > 0 => x.disk[first].entries = BlankEntries
                        /\ x.result # "OK" => Intact(x, a) /\ x.dirty
           S == SectorsPerCluster
           T == { k \in Nat : k <= S => Inv(k, u(k)) }
<1>0. VolumeOK(v)
  BY DEF Intact
<1>1. S \in Nat \ {0}
  BY TableAssumption
<1>2. first \in DataSectors /\ first \in Nat
  <2>1. 0 \in 0 .. S - 1
    BY <1>1
  <2> QED
    BY <2>1, ClusterPlaces
<1>4. u(0) = v0 /\ \A k \in Nat : u(k + 1) = CleanPass(u(k), 0, k + 1)
  BY Cleaning!PassByPass
<1>5. 0 \in T
  <2>1. /\ Seen(v, v0) /\ VolumeOK(v0) /\ SameBut(v, v0, { "result" }) /\ v0.result = "OK"
    BY <1>0, FailsStays, SameSeen
  <2> HIDE DEF v0
  <2>2. v0.sector = first /\ v0.buffer = b /\ ~v0.dirty /\ v0 = [ f \in DOMAIN v0 |-> v0[f] ]
    BY <1>0, <2>1, Fields DEF SameBut, TableFields
  <2>3. z(v0) = v0 /\ Intact(v0, a)
    BY <2>1, <2>2, SeenHolds
  <2>4. first + 0 = first
    BY <1>2
  <2>5. SameBut(v, v0, WindowFields)
    BY <2>1 DEF SameBut, WindowFields
  <2>6. Inv(0, v0)
    <3> HIDE DEF first, b
    <3> QED
      BY <2>1, <2>2, <2>3, <2>4, <2>5
  <2> QED
    BY <1>4, <2>6
<1>6. ASSUME NEW k \in Nat, k \in T PROVE k + 1 \in T
  <2> SUFFICES ASSUME k + 1 <= S PROVE Inv(k + 1, u(k + 1))
    OBVIOUS
  <2> DEFINE x == u(k)
             y == CleanPass(x, 0, k + 1)
             x1 == [ x EXCEPT !.dirty = TRUE ]
             x2 == SyncWindow(x1)
  <2>1. Inv(k, x)
    BY <1>1, <1>6
  <2>2. u(k + 1) = y
    BY <1>4
  <2>3. y = IF x.result = "OK" THEN IF x2.result = "OK" THEN [ x2 EXCEPT !.sector = @ + 1 ] ELSE x2 ELSE x
    BY DEF CleanPass, Then
  <2> HIDE DEF u, x
  <2>4. CASE x.result # "OK"
    BY <2>1, <2>2, <2>3, <2>4
  <2>5. CASE x.result = "OK"
    <3>1. first + k \in DataSectors
      BY <1>1, ClusterPlaces
    <3>2. x.sector = first + k /\ ~x.dirty /\ x.buffer = b /\ Intact(z(x), a) /\ TableFields \subseteq DOMAIN x
      BY <1>0, <2>1, <2>5, Fields DEF SameBut
    <3>3. /\ x1 = [ f \in DOMAIN x1 |-> x1[f] ] /\ x1.dirty = TRUE /\ x1.sector = first + k /\ x1.buffer = b
          /\ SameBut(z(x), x1, SectorFields \cup OuterFields) /\ SameBut(x, x1, { "dirty" })
      BY <2>1, <3>2 DEF SameBut, SectorFields, TableFields
    <3>4. z(x).dirty = x.dirty
      BY <2>1, <3>2 DEF TableFields
    <3>5. Intact(x1, a) /\ VolumeOK(x1)
      <4> DEFINE zx == z(x)
      <4>1. /\ Intact(zx, a) /\ ~zx.dirty /\ SameBut(zx, x1, SectorFields \cup OuterFields)
            /\ x1.dirty \in BOOLEAN /\ x1.sector \in DataSectors /\ x1.buffer = b
            /\ x1 = [ f \in DOMAIN x1 |-> x1[f] ]
        BY <3>1, <3>2, <3>3, <3>4
      <4> HIDE DEF zx, x1, first
      <4>2. Intact(x1, a)
        BY <4>1, DataWindowHeld
      <4> QED
        BY <4>2 DEF Intact
    <3> HIDE DEF x1
    <3>7. /\ Seen(x1, x2) /\ VolumeOK(x2) /\ SameBut(x1, x2, { "disk", "dirty", "fuse", "dead", "result" })
          /\ x2.result = "OK" => ~x2.dirty
      BY <3>5, SyncWindowStays, SyncWindowSeen
    <3> HIDE DEF x2
    <3>8. /\ x2.sector = first + k /\ x2.buffer = b /\ TableFields \subseteq DOMAIN x2
          /\ x2 = [ f \in DOMAIN x2 |-> x2[f] ] /\ x2.dirty \in BOOLEAN
          /\ SameBut(v, x2, WindowFields)
      BY <2>1, <3>2, <3>3, <3>5, <3>7, Fields DEF SameBut, TableFields, WindowFields, VolumeOK, IsVolume
    <3>9. Intact(x2, a)
      BY <3>5, <3>7, SeenHolds
    <3>10. /\ x2.result # "OK" => x2.dirty
           /\ x2.result = "OK" /\ ~x2.dead => x2.disk[first].entries = BlankEntries
      <4>1. /\ x2.result # "OK" => x2.dirty
            /\ x2.result = "OK" /\ ~x2.dead => ~x1.dead /\ x2.disk = [ x1.disk EXCEPT ![first + k] = b ]
        BY <3>3, <3>5, SyncedHas DEF x2
      <4>2. x1.dead = x.dead /\ x1.disk = x.disk /\ x1.disk = [ s \in Sectors |-> x1.disk[s] ] /\ first \in Sectors
        BY <1>2, <3>2, <3>3, <3>5, SectorPlaces DEF SameBut, VolumeOK, IsVolume, IsCard, TableFields
      <4>3. b.entries = BlankEntries
        BY DEF Entries
      <4>4. k = 0 \/ x.dead \/ x.disk[first].entries = BlankEntries
        BY <2>1, <2>5
      <4> HIDE DEF b, first
      <4> QED
        BY <1>2, <4>1, <4>2, <4>3, <4>4
    <3>11. CASE x2.result # "OK"
      BY <2>2, <2>3, <2>5, <3>8, <3>9, <3>10, <3>11
    <3>12. CASE x2.result = "OK"
      <4> DEFINE e == [ x2 EXCEPT !.sector = x2.sector + 1 ]
                 q == z(x2)
      <4>1. y = e
        BY <2>3, <2>5, <3>12
      <4>2. /\ e = [ f \in DOMAIN e |-> e[f] ] /\ SameBut(x2, e, { "sector" }) /\ e.sector = first + k + 1
            /\ e.buffer = b /\ ~e.dirty /\ e.result = "OK" /\ z(e) = z(x2)
            /\ e.disk = x2.disk /\ e.dead = x2.dead
        BY <3>7, <3>8, <3>12 DEF SameBut, TableFields
      <4>3. SameBut(v, e, WindowFields)
        BY <3>8, <4>2 DEF SameBut, WindowFields
      <4>4. first + k + 1 = first + (k + 1)
        BY <1>2
      <4>5. /\ q = [ f \in DOMAIN q |-> q[f] ] /\ SameBut(x2, q, SectorFields \cup OuterFields)
            /\ q.dirty \in BOOLEAN /\ q.sector = first /\ q.buffer = b
        BY <3>8 DEF SameBut, SectorFields, TableFields
      <4>6. Intact(q, a)
        <5> HIDE DEF q, first
        <5> QED
          BY <1>2, <3>7, <3>9, <3>12, <4>5, DataWindowHeld
      <4> HIDE DEF e, y, first, b
      <4> QED
        BY <2>2, <3>10, <4>1, <4>2, <4>3, <4>4, <4>6, <3>12
    <3> QED
      BY <3>11, <3>12
  <2> QED
    BY <2>4, <2>5
<1>7. Nat \subseteq T
  <2> HIDE DEF T
  <2> QED
    BY <1>5, <1>6, Cleaning!Upwards
<1>8. Inv(S, u(S))
  <2> HIDE DEF Inv, u
  <2> QED
    BY <1>1, <1>7
<1> DEFINE e == u(S)
<1>9. Clean(v) = e
  BY DEF Clean
<1>10. Inv(S, e)
  BY <1>8
<1>11. e.result = "OK" => Fresh(z(e))
  <2> SUFFICES ASSUME e.result = "OK" PROVE Fresh(z(e))
    OBVIOUS
  <2>1. TableFields \subseteq DOMAIN e /\ S > 0 /\ b.entries = BlankEntries
    BY <1>0, <1>1, <1>10, Fields DEF SameBut, Entries
  <2> DEFINE q == z(e)
  <2>2. q.sector = first /\ q.disk = e.disk /\ q.dead = e.dead /\ q.buffer = b
    BY <1>10, <2>1 DEF TableFields
  <2>3. e.dead \/ e.disk[first].entries = BlankEntries
    BY <1>10, <2>1
  <2> HIDE DEF q, first, b, e
  <2>4. Fresh(q)
    BY <2>1, <2>2, <2>3 DEF Fresh
  <2> QED
    BY <2>4 DEF q
<1> HIDE DEF e
<1> QED
  BY <1>9, <1>10, <1>11 DEF Then, Holds, Fresh

-----------------------------------------------------------------------------
(* Directories stretch. *)

\* next (1) at the end of the table (2357): the new cluster holds no names.
LEMMA StretchHolds ==
  ASSUME NEW v, NEW a, Holds(v, a)
  PROVE  LET w == Stretch(v)
         IN  Holds(w, a) /\ VolumeOK(w) /\ SameBut(v, w, ChainFields \cup { "unclean" })
<1> DEFINE c == CreateChain(v, v.dir.cluster)
           first == ClusterToSector(c.value)
           s == SyncWindow(c)
           b0 == [ s EXCEPT !.buffer = Entries(BlankEntries), !.sector = first ]
           b1 == Then(Clean(b0), LAMBDA x : [ x EXCEPT !.sector = first ])
           b2 == IF s.result = "OK" THEN b1 ELSE s
           w2 == [ b2 EXCEPT !.value = c.value, !.unclean = @ \/ (v.fuse # 0 /\ b2.fuse = 0) ]
           w == Stretch(v)
<1>1. w = CASE c.value = 0    -> Fails(c, "DENIED")
            [] c.value = 1    -> Fails(c, "INT_ERR")
            [] c.value = Ones -> Fails(c, "DISK_ERR")
            [] OTHER          -> w2
  BY DEF Stretch, With, Then
<1>2. VolumeOK(v) /\ SameBut(v, w, ChainFields \cup { "unclean" }) /\ VolumeOK(w)
  BY StretchStays DEF Holds, Intact, StaysOrFails
<1>3. Holds(c, a) /\ VolumeOK(c)
  BY CreateChainHolds DEF Holds, Intact
<1>4. c.value \notin { 0, 1, Ones } => c.value \in Clusters
  BY <1>2, CreateChainStays DEF ChainStays
<1> HIDE DEF w, c
<1>5. CASE c.value \in { 0, 1, Ones }
  <2>1. PICK r : w = Fails(c, r)
    <3>1. w = Fails(c, "DENIED") \/ w = Fails(c, "INT_ERR") \/ w = Fails(c, "DISK_ERR")
      BY <1>1, <1>5, CountIsSmall
    <3> QED
      BY <3>1
  <2>2. Holds(w, a)
    BY <1>3, <2>1, SameSeen, SeenHolds
  <2> QED
    BY <1>2, <2>2 DEF w
<1>6. CASE c.value \notin { 0, 1, Ones }
  <2>1. w = w2 /\ c.value \in Clusters
    BY <1>1, <1>4, <1>6
  <2>2. Seen(c, s) /\ VolumeOK(s) /\ (s.result = "OK" => ~s.dirty)
    BY <1>3, SyncWindowStays, SyncWindowSeen
  <2>3. Holds(s, a)
    BY <1>3, <2>2, SeenHolds
  <2>4. first \in DataSectors
    <3>1. 0 \in 0 .. SectorsPerCluster - 1
      BY TableAssumption
    <3> QED
      BY <2>1, <3>1, ClusterPlaces
  <2> HIDE DEF s
  <2>5. Holds(b2, a)
    <3>1. CASE s.result # "OK"
      BY <2>3, <3>1
    <3>2. CASE s.result = "OK"
      <4>1. b2 = b1 /\ ~s.dirty
        BY <2>2, <3>2
      <4> HIDE DEF b2
      <4>2. /\ b0 = [ f \in DOMAIN b0 |-> b0[f] ] /\ SameBut(s, b0, { "sector", "buffer" })
            /\ b0.sector = first /\ b0.buffer = Entries(BlankEntries) /\ b0.dirty = s.dirty
        <5> HIDE DEF first
        <5> QED
          BY <2>2, Fields DEF SameBut, VolumeFields, TableFields
      <4> HIDE DEF b0, b1
      <4>3. SameBut(s, b0, SectorFields \cup OuterFields) /\ b0.dirty \in BOOLEAN
        BY <2>2, <4>2 DEF SameBut, SectorFields, VolumeOK, IsVolume
      <4>4. Intact(b0, a)
        BY <2>3, <2>4, <4>1, <4>2, <4>3, DataWindowHeld DEF Holds
      <4>5. Holds(b1, a)
        BY <2>1, <4>1, <4>2, <4>4, CleanHolds DEF b1
      <4> QED
        BY <4>1, <4>5
    <3> QED
      BY <3>1, <3>2
  <2> HIDE DEF b2
  <2>6. VolumeOK(b2)
    BY <2>5 DEF Holds, Intact
  <2>7. w2 = [ f \in DOMAIN w2 |-> w2[f] ] /\ SameBut(b2, w2, OuterFields)
    BY <2>6, Fields DEF SameBut, OuterFields
  <2> HIDE DEF w2
  <2>8. Holds(w2, a)
    BY <2>5, <2>6, <2>7, OuterSeen, SeenHolds
  <2> QED
    BY <1>2, <2>1, <2>8 DEF w
<1> QED
  BY <1>5, <1>6

-----------------------------------------------------------------------------
(* Looking around in directories. *)

\* From v to w only the window and the cDirectory have moved.
Looks(v, w) == Seen(v, w) /\ DirOK(w.dir) /\ SameBut(v, w, LookFields \cup { "dir" })

LEMMA LooksAgain ==
  ASSUME NEW v, NEW u, Looks(v, u), NEW w, Looks(u, w)
  PROVE  Looks(v, w) /\ VolumeOK(u) /\ DirOK(u.dir)
<1>1. Seen(v, w)
  BY SeenAgain DEF Looks
<1>2. SameBut(v, w, LookFields \cup { "dir" })
  BY DEF Looks, SameBut
<1> QED
  BY <1>1, <1>2 DEF Looks, Seen

LEMMA LooksOK ==
  ASSUME NEW v, NEW w, Looks(v, w)
  PROVE  VolumeOK(w) /\ DirOK(w.dir)
  BY DEF Looks, Seen

LEMMA LooksHolds ==
  ASSUME NEW v, NEW a, Holds(v, a), NEW w, Looks(v, w)
  PROVE  Holds(w, a)
  BY SeenHolds DEF Looks

\* The cDirectory, the result and the number at hand are changed.
LEMMA DirLooks ==
  ASSUME NEW v, VolumeOK(v), NEW w, w = [ f \in DOMAIN w |-> w[f] ], SameBut(v, w, { "dir", "result", "value" }),
         DirOK(w.dir)
  PROVE  Looks(v, w)
<1>1. SameBut(v, w, OuterFields) /\ SameBut(v, w, LookFields \cup { "dir" })
  BY DEF SameBut, OuterFields, LookFields, WindowFields
<1> QED
  BY <1>1, OuterSeen DEF Looks

LEMMA SameLooks ==
  ASSUME NEW v, VolumeOK(v), DirOK(v.dir)
  PROVE  Looks(v, v)
<1>1. SameBut(v, v, { "dir", "result", "value" }) /\ v = [ f \in DOMAIN v |-> v[f] ]
  BY Fields DEF SameBut
<1> QED
  BY <1>1, DirLooks

LEMMA FailureLooks ==
  ASSUME NEW v, VolumeOK(v), DirOK(v.dir), NEW r
  PROVE  /\ Looks(v, Fails(v, r)) /\ Fails(v, r).dir = v.dir /\ Fails(v, r).result = r
         /\ Logical(Fails(v, r)) = Logical(v) /\ Fails(v, r).dead = v.dead /\ Fails(v, r).value = v.value
         /\ Fails(v, r).misled = v.misled /\ Fails(v, r).sector = v.sector /\ Fails(v, r).buffer = v.buffer
<1>1. PICK w : w = Fails(v, r)
  OBVIOUS
<1>2. SameBut(v, w, { "result" }) /\ w.result = r /\ VolumeOK(w)
  BY <1>1, FailsStays
<1>3. /\ w.dir = v.dir /\ w.dead = v.dead /\ w.disk = v.disk /\ w.sector = v.sector
      /\ w.buffer = v.buffer /\ w.dirty = v.dirty /\ w.value = v.value /\ w.misled = v.misled
  BY <1>2, Fields DEF SameBut, VolumeFields, TableFields
<1>4. Logical(w) = Logical(v)
  BY <1>3 DEF Logical
<1>5. w = [ f \in DOMAIN w |-> w[f] ] /\ SameBut(v, w, { "dir", "result", "value" })
  BY <1>2, Fields DEF SameBut
<1>6. Looks(v, w)
  BY <1>3, <1>5, DirLooks
<1> QED
  BY <1>1, <1>2, <1>3, <1>4, <1>6

\* The window moves.
LEMMA WindowLooks ==
  ASSUME NEW v, VolumeOK(v), DirOK(v.dir), NEW w, Seen(v, w), SameBut(v, w, LookFields)
  PROVE  Looks(v, w) /\ w.dir = v.dir /\ w.misled = v.misled
<1>1. w.dir = v.dir /\ w.misled = v.misled
  BY Fields DEF SameBut, VolumeFields, TableFields, LookFields, WindowFields
<1> QED
  BY <1>1 DEF Looks, SameBut

LEMMA MoveLooks ==
  ASSUME NEW v, VolumeOK(v), DirOK(v.dir), NEW s
  PROVE  LET m == MoveWindow(v, s) IN Looks(v, m) /\ m.dir = v.dir /\ m.misled = v.misled /\ (m.result = "OK" => m.sector = s)
<1> DEFINE m == MoveWindow(v, s)
<1>1. Seen(v, m) /\ SameBut(v, m, WindowFields) /\ (m.result = "OK" => m.sector = s)
  BY MoveWindowSeen, MoveWindowStays
<1> HIDE DEF m
<1>2. SameBut(v, m, LookFields)
  BY <1>1 DEF SameBut, LookFields
<1> QED
  BY <1>1, <1>2, WindowLooks DEF m

LEMMA FatLooks ==
  ASSUME NEW v, VolumeOK(v), DirOK(v.dir), NEW c
  PROVE  LET g == GetFat(v, c) IN Looks(v, g) /\ g.dir = v.dir /\ g.misled = v.misled
<1> DEFINE g == GetFat(v, c)
<1>1. Seen(v, g) /\ SameBut(v, g, LookFields)
  BY GetFatSeen, GetFatStays DEF LookFields
<1> HIDE DEF g
<1> QED
  BY <1>1, WindowLooks DEF g

\* The window is where it was, where it was to go, or nowhere.
LEMMA WindowPlace ==
  ASSUME NEW v, VolumeOK(v), NEW s
  PROVE  MoveWindow(v, s).sector \in { v.sector, s, NoSector }
<1> DEFINE u == SyncWindow(v)
           r == DiskRead(u, s)
           l == Load(u, s)
           w == MoveWindow(v, s)
<1>1. w \in { Fails(v, "OK"), u, l }
  BY DEF MoveWindow, Then
<1>2. VolumeOK(u) /\ SameBut(v, u, { "disk", "fuse", "dead", "result", "dirty" })
  BY SyncWindowStays DEF SameBut, WindowFields
<1>3. u.sector = v.sector
  BY <1>2, Fields DEF SameBut, VolumeFields, TableFields
<1> HIDE DEF u
<1>4. l.sector \in { s, NoSector }
  <2>1. l \in { [ r EXCEPT !.sector = s, !.buffer = u.disk[s] ], [ r EXCEPT !.sector = NoSector ] }
    BY DEF Load, With
  <2>2. "sector" \in DOMAIN r
    BY <1>2, Fields DEF DiskRead, Fails, Burn, VolumeFields, TableFields
  <2> HIDE DEF r, l
  <2> QED
    BY <2>1, <2>2
<1> HIDE DEF l, w
<1>5. Fails(v, "OK").sector = v.sector
  BY Fields DEF Fails, VolumeFields, TableFields
<1> QED
  BY <1>1, <1>3, <1>4, <1>5 DEF w

LEMMA FatWindowPlace ==
  ASSUME NEW v, VolumeOK(v), NEW c
  PROVE  GetFat(v, c).sector \in { v.sector, NoSector } \cup FatSectors
<1> DEFINE m == MoveWindow(v, FatSector(c))
<1>1. VolumeOK(m) /\ VolumeOK(v)
  BY MoveWindowStays
<1>2. c \in Clusters => m.sector \in { v.sector, NoSector } \cup FatSectors
  BY WindowPlace, LinkPlace
<1>3. PICK x : GetFat(v, c) = IF c \notin Clusters THEN Gives(v, 1) ELSE Gives(m, x)
  BY DEF GetFat, With
<1> HIDE DEF m
<1>4. Gives(v, 1).sector = v.sector /\ Gives(m, x).sector = m.sector
  BY <1>1, Fields DEF Gives, VolumeFields, TableFields
<1> QED
  BY <1>2, <1>3, <1>4

-----------------------------------------------------------------------------
(* Places in chains.  Cluster c is number n of the chain that starts in s if every *)
(* set of numbered clusters that the links lead on in has it.                      *)

LinksOf(d) == { << c, LinkOn(d, c) >> : c \in { b \in Clusters : LinkOn(d, b) \in Clusters } }

Steady(T, L, s) ==
  << 0, s >> \in T /\ \A n \in Nat, l \in L : << n, l[1] >> \in T => << n + 1, l[2] >> \in T

At(L, s, n, c) ==
  /\ s \in Clusters /\ n \in Nat /\ c \in Clusters
  /\ \A T \in SUBSET (Nat \X Clusters) : Steady(T, L, s) => << n, c >> \in T

LEMMA AtStart ==
  ASSUME NEW L, NEW s \in Clusters
  PROVE  At(L, s, 0, s)
  BY DEF At, Steady

LEMMA AtNext ==
  ASSUME NEW L, NEW s, NEW n, NEW c, At(L, s, n, c), NEW e \in Clusters, << c, e >> \in L
  PROVE  At(L, s, n + 1, e)
<1> SUFFICES ASSUME NEW T \in SUBSET (Nat \X Clusters), Steady(T, L, s) PROVE << n + 1, e >> \in T
  BY DEF At
<1>1. n \in Nat /\ << n, c >> \in T
  BY DEF At
<1> DEFINE l == << c, e >>
<1>2. l \in L /\ l[1] = c /\ l[2] = e
  OBVIOUS
<1> HIDE DEF l
<1>3. << n, l[1] >> \in T => << n + 1, l[2] >> \in T
  BY <1>1, <1>2 DEF Steady
<1> QED
  BY <1>1, <1>2, <1>3

\* With more links there are more places.
LEMMA AtMore ==
  ASSUME NEW L, NEW M, \A l \in L : \E m \in M : m[1] = l[1] /\ m[2] = l[2],
         NEW s, NEW n, NEW c, At(L, s, n, c)
  PROVE  At(M, s, n, c)
<1> SUFFICES ASSUME NEW T \in SUBSET (Nat \X Clusters), Steady(T, M, s) PROVE << n, c >> \in T
  BY DEF At
<1>1. Steady(T, L, s)
  BY DEF Steady
<1> QED
  BY <1>1 DEF At

\* getFat goes one link on.
LEMMA FatAt ==
  ASSUME NEW v, VolumeOK(v), NEW c
  PROVE  LET w == GetFat(v, c)
         IN  ~w.dead /\ w.value \in Clusters => ~v.dead /\ << c, w.value >> \in LinksOf(Logical(v))
<1> DEFINE w == GetFat(v, c)
<1>1. /\ c \notin Clusters => w.value = 1
      /\ c \in Clusters /\ ~w.dead => ~v.dead /\ (w.value # Ones => w.value = LinkOn(Logical(v), c))
  BY GetFatStays
<1> HIDE DEF w
<1>2. Ones \notin Clusters /\ 1 \notin Clusters
  BY TableAssumption DEF Clusters
<1> QED
  BY <1>1, <1>2 DEF w, LinksOf

LEMMA TableLooks ==
  ASSUME NEW v, VolumeOK(v), NEW c \in Clusters, NEW n \in Nat
  PROVE  LET w == TableCluster(v, c, n)
         IN  /\ Seen(v, w) /\ VolumeOK(w) /\ SameBut(v, w, LookFields)
             /\ w.result = "OK" /\ ~w.dead => At(LinksOf(Logical(v)), c, n, w.value)
             /\ n = 0 => w.result = "OK" /\ w.value = c /\ w.sector = v.sector
<1> DEFINE v0 == Fails(v, "OK")
           v1 == Gives(v0, c)
           L == LinksOf(Logical(v))
           u(k) == Following!Passes(v1, 0)[k]
           T == { k \in Nat : /\ Seen(v, u(k)) /\ SameBut(v, u(k), LookFields)
                              /\ u(k).result = "OK" /\ ~u(k).dead => At(L, c, k, u(k).value) }
<1>1. TableCluster(v, c, n) = u(n)
  BY DEF TableCluster
<1>2. u(0) = v1 /\ \A k \in Nat : u(k + 1) = TablePass(u(k), 0, k + 1)
  BY Following!PassByPass
<1>3. /\ Seen(v, v1) /\ VolumeOK(v1) /\ SameBut(v, v1, LookFields)
      /\ v1.result = "OK" /\ v1.value = c /\ v1.sector = v.sector
  <2>1. v0 = [ f \in DOMAIN v0 |-> v0[f] ] /\ SameBut(v, v0, { "result" }) /\ v0.result = "OK" /\ VolumeOK(v0)
    BY FailsStays DEF Stays, VolumeOK, IsVolume
  <2> HIDE DEF v0
  <2>2. SameBut(v0, v1, { "value" }) /\ v1.value = c /\ VolumeOK(v1)
    BY <2>1, GivesStays
  <2> HIDE DEF v1
  <2>3. SameBut(v, v1, LookFields) /\ SameBut(v, v1, OuterFields)
    BY <2>1, <2>2 DEF SameBut, LookFields, WindowFields, OuterFields
  <2>4. v1.result = "OK" /\ v1.sector = v.sector /\ v1 = [ f \in DOMAIN v1 |-> v1[f] ]
    BY <2>1, <2>2, Fields DEF SameBut, VolumeFields, TableFields
  <2> QED
    BY <2>2, <2>3, <2>4, OuterSeen
<1> HIDE DEF u, v1
<1>4. 0 \in T
  BY <1>2, <1>3, AtStart
<1>5. ASSUME NEW k \in Nat, k \in T PROVE k + 1 \in T
  <2> DEFINE x == u(k)
             g == GetFat(x, x.value)
             y == TablePass(x, 0, k + 1)
  <2>1. /\ Seen(v, x) /\ SameBut(v, x, LookFields) /\ VolumeOK(x)
        /\ x.result = "OK" /\ ~x.dead => At(L, c, k, x.value)
    BY <1>5 DEF Seen
  <2>2. u(k + 1) = y
    BY <1>2
  <2>3. /\ x.result = "OK" /\ g.value \in Clusters => y = g
        /\ x.result # "OK" => y = x
        /\ x.result = "OK" /\ g.value \notin Clusters => \E r \in { "DISK_ERR", "INT_ERR" } : y = Fails(g, r)
    <3>1. Ones \notin Clusters
      BY TableAssumption DEF Clusters
    <3> QED
      BY <3>1 DEF TablePass, Then, With
  <2> HIDE DEF x, y
  <2>4. Seen(x, g) /\ VolumeOK(g) /\ SameBut(x, g, LookFields)
    BY <2>1, GetFatSeen, GetFatStays DEF LookFields
  <2>5. ~g.dead /\ g.value \in Clusters => ~x.dead /\ << x.value, g.value >> \in LinksOf(Logical(x))
    BY <2>1, FatAt
  <2> HIDE DEF g
  <2>6. ASSUME NEW r, r # "OK"
        PROVE  Seen(v, Fails(g, r)) /\ SameBut(v, Fails(g, r), LookFields) /\ Fails(g, r).result # "OK"
    <3>1. SameBut(g, Fails(g, r), { "result" }) /\ Fails(g, r).result = r /\ VolumeOK(Fails(g, r))
      BY <2>4, FailsStays
    <3>2. SameBut(g, Fails(g, r), OuterFields) /\ SameBut(v, Fails(g, r), LookFields)
      BY <2>1, <2>4, <3>1 DEF SameBut, OuterFields, LookFields, WindowFields
    <3>3. Seen(g, Fails(g, r))
      BY <2>4, <3>1, <3>2, OuterSeen DEF VolumeOK, IsVolume
    <3> QED
      BY <2>1, <2>4, <2>6, <3>1, <3>2, <3>3, SeenAgain
  <2>7. Seen(v, g) /\ SameBut(v, g, LookFields)
    BY <2>1, <2>4, SeenAgain DEF SameBut
  <2>8. CASE x.result # "OK"
    BY <2>1, <2>2, <2>3, <2>8
  <2>9. CASE x.result = "OK" /\ g.value \notin Clusters
    <3>1. PICK r \in { "DISK_ERR", "INT_ERR" } : y = Fails(g, r)
      BY <2>3, <2>9
    <3> QED
      BY <2>2, <2>6, <3>1
  <2>10. CASE x.result = "OK" /\ g.value \in Clusters
    <3>1. ASSUME ~g.dead PROVE At(L, c, k + 1, g.value)
      <4>1. ~x.dead /\ << x.value, g.value >> \in LinksOf(Logical(x))
        BY <2>5, <2>10, <3>1
      <4>2. Logical(x) = Logical(v)
        BY <2>1, <4>1 DEF Seen
      <4>3. At(L, c, k, x.value)
        BY <2>1, <2>10, <4>1
      <4> HIDE DEF L
      <4> QED
        BY <2>10, <4>1, <4>2, <4>3, AtNext DEF L
    <3> QED
      BY <2>2, <2>3, <2>7, <2>10, <3>1
  <2> QED
    BY <2>8, <2>9, <2>10
<1>6. Nat \subseteq T
  <2> HIDE DEF T
  <2> QED
    BY <1>4, <1>5, Following!Upwards
<1>7. n \in T
  BY <1>6
<1>8. n = 0 => u(n) = v1
  BY <1>2
<1> QED
  BY <1>1, <1>3, <1>7, <1>8 DEF Seen

-----------------------------------------------------------------------------
(* Where a cDirectory is. *)

First(d) == IF d.start = 0 THEN RootCluster ELSE d.start

\* It is at entry d.index of the directory that starts in First (d).
Placed(v) ==
  LET d == v.dir
  IN  /\ At(LinksOf(Logical(v)), First(d), d.index \div EntriesPerCluster, d.cluster)
      /\ d.index \in Nat
      /\ d.sector = ClusterToSector(d.cluster) + SectorInCluster(d.index)
      /\ d.slot = SlotOf(d.index)

LEMMA RootIsCluster == RootCluster \in Clusters
  BY TableAssumption DEF RootCluster, Clusters

LEMMA SectorNumbers ==
  /\ \A i \in Nat : SectorInCluster(i) \in 0 .. SectorsPerCluster - 1
  /\ SectorInCluster(0) = 0 /\ 0 \div EntriesPerCluster = 0
<1> DEFINE E == EntriesPerSector
           S == SectorsPerCluster
<1>1. E \in Nat \ {0} /\ S \in Nat \ {0}
  BY EntriesAssumption, TableAssumption
<1>2. E * S \in Nat \ {0}
  BY <1>1
<1>3. ASSUME NEW a \in Nat, NEW b \in Nat \ {0}
      PROVE  a \div b \in Nat /\ a = b * (a \div b) + (a % b) /\ a % b \in Nat
  <2>1. a \div b \in Nat
    OBVIOUS
  <2>2. a % b \in 0 .. b - 1
    OBVIOUS
  <2>3. a = b * (a \div b) + (a % b)
    OBVIOUS
  <2> QED
    BY <2>1, <2>2, <2>3
<1>4. ASSUME NEW i \in Nat PROVE SectorInCluster(i) \in 0 .. S - 1
  <2> DEFINE r == i % (E * S)
             q == r \div E
  <2>1. r \in 0 .. (E * S) - 1
    BY <1>2
  <2> HIDE DEF r
  <2>2. q \in Nat /\ r = E * q + (r % E) /\ r % E \in Nat
    BY <1>1, <1>3, <2>1
  <2> HIDE DEF q
  <2>3. E * q < E * S
    <3> DEFINE P == E * S
               Q == E * q
               m == r % E
    <3>1. P \in Nat /\ r \in 0 .. P - 1
      BY <1>2, <2>1
    <3>2. Q \in Nat
      BY <1>1, <2>2
    <3>3. r = Q + m /\ m \in Nat
      BY <2>2
    <3> HIDE DEF P, Q, m
    <3>4. Q < P
      BY <3>1, <3>2, <3>3
    <3> QED
      BY <3>4 DEF P, Q
  <2>4. q < S
    <3>1. ASSUME S <= q PROVE E * S <= E * q
      BY <1>1, <2>2, <3>1
    <3> QED
      BY <1>1, <2>2, <2>3, <3>1
  <2> QED
    BY <1>1, <2>2, <2>4 DEF SectorInCluster, EntriesPerCluster, q, r
<1>5. SectorInCluster(0) = 0 /\ 0 \div EntriesPerCluster = 0
  BY <1>1, <1>2 DEF SectorInCluster, EntriesPerCluster
<1> QED
  BY <1>4, <1>5

\* An entry is in a data sector.
LEMMA PlacedInData ==
  ASSUME NEW v, Placed(v)
  PROVE  v.dir.sector \in DataSectors /\ v.dir.sector # NoSector /\ v.dir.cluster \in Clusters
<1>1. v.dir.cluster \in Clusters /\ SectorInCluster(v.dir.index) \in 0 .. SectorsPerCluster - 1
  BY SectorNumbers DEF Placed, At
<1>2. v.dir.sector \in DataSectors
  BY <1>1, ClusterPlaces DEF Placed
<1> QED
  BY <1>1, <1>2, SectorPlaces DEF DataSectors, FatSectors, FatBase, NoSector

\* The cDirectory is put somewhere.
LEMMA DirAway ==
  ASSUME NEW v, VolumeOK(v), NEW d, DirOK(d)
  PROVE  LET w == [ v EXCEPT !.dir = d ]
         IN  /\ Looks(v, w) /\ w.dir = d /\ w.result = v.result /\ w.value = v.value
             /\ Logical(w) = Logical(v) /\ w.dead = v.dead /\ w.misled = v.misled
             /\ w.sector = v.sector /\ w.buffer = v.buffer
<1> DEFINE w == [ v EXCEPT !.dir = d ]
<1>1. /\ w = [ f \in DOMAIN w |-> w[f] ] /\ SameBut(v, w, { "dir", "result", "value" }) /\ w.dir = d
      /\ w.result = v.result /\ w.value = v.value /\ w.dead = v.dead /\ w.disk = v.disk /\ w.sector = v.sector
      /\ w.buffer = v.buffer /\ w.dirty = v.dirty /\ w.misled = v.misled
  BY Fields DEF SameBut, VolumeFields, TableFields
<1> HIDE DEF w
<1>2. Logical(w) = Logical(v)
  BY <1>1 DEF Logical
<1>3. Looks(v, w)
  BY <1>1, DirLooks
<1> QED
  BY <1>1, <1>2, <1>3 DEF w

\* setIndex (2283).
LEMMA SetIndexLooks ==
  ASSUME NEW v, VolumeOK(v), DirOK(v.dir), NEW index \in Nat
  PROVE  LET w == SetIndex(v, index)
         IN  /\ Looks(v, w) /\ w.dir.start = v.dir.start /\ w.dir.long = v.dir.long
             /\ w.dir.index = index
             /\ w.result = "OK" /\ ~w.dead => Placed(w)
             /\ index = 0 /\ First(v.dir) \in Clusters => w.result = "OK"
<1> DEFINE v0 == [ v EXCEPT !.dir.index = index ]
           first == First(v.dir)
           n == index \div EntriesPerCluster
           u == TableCluster(v0, first, n)
           e1 == Fails([ u EXCEPT !.dir.cluster = u.value ], "INT_ERR")
           s == ClusterToSector(u.value) + SectorInCluster(index)
           e2 == [ u EXCEPT !.dir.cluster = u.value, !.dir.sector = s, !.dir.slot = SlotOf(index) ]
           w == SetIndex(v, index)
<1>1. w = IF first \notin Clusters THEN Fails(v0, "INT_ERR")
          ELSE IF u.result # "OK" THEN u
          ELSE IF ClusterToSector(u.value) = 0 THEN e1 ELSE e2
  BY RootIsCluster DEF SetIndex, Then, First
<1>2. n \in Nat /\ (index = 0 => n = 0)
  BY EntryNumbers, SectorNumbers
<1> DEFINE d0 == [ v.dir EXCEPT !.index = index ]
<1>3. /\ Looks(v, v0) /\ v0.dir = d0 /\ VolumeOK(v0) /\ DirOK(v0.dir)
      /\ v0.dir.start = v.dir.start /\ v0.dir.long = v.dir.long /\ v0.dir.index = index
  <2>1. DirOK(d0) /\ d0.start = v.dir.start /\ d0.long = v.dir.long /\ d0.index = index
    BY DirFields DEF DirOK, HasFields
  <2>2. v0 = [ v EXCEPT !.dir = d0 ]
    BY Fields DEF VolumeFields
  <2> HIDE DEF d0, v0
  <2> QED
    BY <2>1, <2>2, DirAway, LooksOK
<1> HIDE DEF w, v0, d0, first, n
<1>4. CASE first \notin Clusters
  <2>1. Looks(v0, Fails(v0, "INT_ERR")) /\ Fails(v0, "INT_ERR").dir = v0.dir /\ Fails(v0, "INT_ERR").result # "OK"
    BY <1>3, FailureLooks
  <2> QED
    BY <1>1, <1>3, <1>4, <2>1, LooksAgain DEF w, first
<1>5. CASE first \in Clusters
  <2>1. /\ Looks(v0, u) /\ VolumeOK(u) /\ u.dir = v0.dir
        /\ u.result = "OK" /\ ~u.dead => At(LinksOf(Logical(v0)), first, n, u.value)
        /\ n = 0 => u.result = "OK" /\ u.value = first
    BY <1>2, <1>3, <1>5, TableLooks, WindowLooks
  <2> HIDE DEF u
  <2>2. DirOK(u.dir) /\ Looks(v, u)
    BY <1>3, <2>1, LooksAgain
  <2>3. CASE u.result # "OK"
    BY <1>1, <1>2, <1>3, <1>5, <2>1, <2>2, <2>3 DEF w
  <2>4. CASE u.result = "OK" /\ ClusterToSector(u.value) = 0
    <3> DEFINE d == [ u.dir EXCEPT !.cluster = u.value ]
               x == [ u EXCEPT !.dir = d ]
    <3>1. e1 = Fails(x, "INT_ERR")
      BY <2>1, Fields DEF VolumeFields
    <3>2. DirOK(d) /\ d.start = u.dir.start /\ d.long = u.dir.long /\ d.index = u.dir.index
      BY <2>2, DirFields DEF DirOK, HasFields
    <3> HIDE DEF d
    <3>3. Looks(u, x) /\ x.dir = d
      BY <2>1, <3>2, DirAway
    <3> HIDE DEF x, e1
    <3>4. Looks(x, e1) /\ e1.dir = d /\ e1.result # "OK"
      BY <3>1, <3>3, FailureLooks, LooksOK
    <3>5. Looks(v, e1)
      BY <2>2, <3>3, <3>4, LooksAgain
    <3>6. n # 0
      <4>1. 0 \in 0 .. SectorsPerCluster - 1
        BY TableAssumption
      <4> QED
        BY <1>5, <2>1, <2>4, <4>1, ClusterPlaces
    <3> QED
      BY <1>1, <1>2, <1>3, <1>5, <2>1, <2>4, <3>2, <3>4, <3>5, <3>6 DEF w
  <2>5. CASE u.result = "OK" /\ ClusterToSector(u.value) # 0
    <3> HIDE DEF s
    <3> DEFINE t == SlotOf(index)
               d == [ u.dir EXCEPT !.cluster = u.value, !.sector = s, !.slot = t ]
    <3> HIDE DEF t
    <3>1. e2 = [ u EXCEPT !.dir = d ]
      BY <2>1, Fields DEF VolumeFields, t
    <3>2. /\ DirOK(d) /\ d.start = u.dir.start /\ d.long = u.dir.long /\ d.index = u.dir.index
          /\ d.cluster = u.value /\ d.sector = s /\ d.slot = t
      BY <2>2, DirFields DEF DirOK, HasFields
    <3> HIDE DEF d, e2
    <3>3. Looks(u, e2) /\ e2.dir = d /\ e2.result = "OK" /\ e2.dead = u.dead
      BY <2>1, <2>5, <3>1, <3>2, DirAway
    <3>4. Looks(v, e2)
      BY <2>2, <3>3, LooksAgain
    <3>5. ~e2.dead => Placed(e2)
      <4> SUFFICES ASSUME ~e2.dead PROVE Placed(e2)
        OBVIOUS
      <4>1. Logical(e2) = Logical(v0)
        BY <2>1, <3>3 DEF Looks, Seen
      <4>2. First(e2.dir) = first
        BY <1>3, <2>1, <3>2, <3>3 DEF First, first
      <4>3. e2.dir.index = index
        BY <1>3, <2>1, <3>2, <3>3
      <4>4. At(LinksOf(Logical(v0)), first, n, u.value)
        BY <2>1, <2>5, <3>3
      <4> QED
        BY <3>2, <3>3, <4>1, <4>2, <4>3, <4>4 DEF Placed, s, t, n
    <3> QED
      BY <1>1, <1>3, <1>5, <2>1, <2>5, <3>2, <3>3, <3>4, <3>5 DEF w
  <2> QED
    BY <2>3, <2>4, <2>5
<1> QED
  BY <1>4, <1>5

-----------------------------------------------------------------------------
(* Numbers of entries. *)

LEMMA Divides ==
  ASSUME NEW a \in Nat, NEW b \in Nat \ {0}
  PROVE  a \div b \in Nat /\ a = b * (a \div b) + (a % b) /\ a % b \in 0 .. b - 1
<1>1. a \div b \in Nat
  OBVIOUS
<1>2. a % b \in 0 .. b - 1
  OBVIOUS
<1>3. a = b * (a \div b) + (a % b)
  OBVIOUS
<1> QED
  BY <1>1, <1>2, <1>3

LEMMA Multiples ==
  ASSUME NEW b \in Nat \ {0}, NEW p \in Nat, NEW q \in Nat, p < q
  PROVE  b * p + b <= b * q
<1> DEFINE d == q - p - 1
<1>1. d \in Nat /\ q = p + 1 + d
  OBVIOUS
<1> HIDE DEF d
<1>2. b * (p + 1 + d) = b * p + b + b * d
  BY <1>1
<1>3. b * d \in Nat /\ b * p \in Nat
  BY <1>1
<1> QED
  BY <1>1, <1>2, <1>3

LEMMA DividesOnce ==
  ASSUME NEW b \in Nat \ {0}, NEW q \in Nat, NEW r \in 0 .. b - 1, NEW x \in Nat, x = b * q + r
  PROVE  x \div b = q /\ x % b = r
<1> DEFINE p == x \div b
           m == x % b
<1>1. p \in Nat /\ x = b * p + m /\ m \in 0 .. b - 1
  BY Divides
<1> HIDE DEF p, m
<1>2. b * p \in Nat /\ b * q \in Nat
  BY <1>1
<1>3. p = q
  <2>1. ~(p < q)
    <3> SUFFICES ASSUME p < q PROVE FALSE
      OBVIOUS
    <3>1. b * p + b <= b * q
      BY <1>1, Multiples
    <3> DEFINE P == b * p
               Q == b * q
    <3> HIDE DEF P, Q
    <3>2. P \in Nat /\ Q \in Nat /\ P + b <= Q /\ P + m = Q + r
      BY <1>1, <1>2, <3>1 DEF P, Q
    <3> QED
      BY <1>1, <3>2
  <2>2. ~(q < p)
    <3> SUFFICES ASSUME q < p PROVE FALSE
      OBVIOUS
    <3>1. b * q + b <= b * p
      BY <1>1, Multiples
    <3> DEFINE P == b * p
               Q == b * q
    <3> HIDE DEF P, Q
    <3>2. P \in Nat /\ Q \in Nat /\ Q + b <= P /\ P + m = Q + r
      BY <1>1, <1>2, <3>1 DEF P, Q
    <3> QED
      BY <1>1, <3>2
  <2> QED
    BY <1>1, <2>1, <2>2
<1>4. m = r
  <2> DEFINE P == b * p
  <2> HIDE DEF P
  <2>1. P \in Nat /\ P + m = P + r
    BY <1>1, <1>2, <1>3 DEF P
  <2> QED
    BY <1>1, <2>1
<1> QED
  BY <1>3, <1>4 DEF p, m

LEMMA Remainder ==
  ASSUME NEW b \in Nat \ {0}, NEW p \in Nat, NEW r \in 0 .. b - 1
  PROVE  (b * p + r) % b = r
<1> DEFINE x == b * p + r
<1>1. b * p \in Nat
  OBVIOUS
<1>2. x \in Nat /\ x = b * p + r
  BY <1>1
<1> HIDE DEF x
<1>3. x % b = r
  BY <1>2, DividesOnce
<1> QED
  BY <1>2, <1>3

\* Entry index is number m of sector q of cluster a of its directory.
LEMMA EntryParts ==
  ASSUME NEW index \in Nat
  PROVE  \E a \in Nat, q \in 0 .. SectorsPerCluster - 1, m \in 0 .. EntriesPerSector - 1 :
           /\ index = EntriesPerCluster * a + (EntriesPerSector * q + m)
           /\ index \div EntriesPerCluster = a /\ SectorInCluster(index) = q /\ SlotOf(index) = m + 1
<1> DEFINE E == EntriesPerSector
           S == SectorsPerCluster
           C == EntriesPerCluster
           a == index \div C
           r == index % C
           q == r \div E
           m == r % E
<1>1. E \in Nat \ {0} /\ S \in Nat \ {0} /\ C \in Nat \ {0} /\ C = E * S
  BY EntriesAssumption, TableAssumption, EntryNumbers DEF EntriesPerCluster
<1>2. a \in Nat /\ index = C * a + r /\ r \in Nat
  <2> HIDE DEF C
  <2>1. a \in Nat /\ index = C * a + r /\ r \in 0 .. C - 1
    BY <1>1, Divides
  <2> HIDE DEF r
  <2> QED
    BY <1>1, <2>1
<1>3. q \in Nat /\ r = E * q + m /\ m \in 0 .. E - 1
  <2> HIDE DEF r, E
  <2> QED
    BY <1>1, <1>2, Divides
<1>4. SectorInCluster(index) = q /\ q \in 0 .. S - 1
  BY SectorNumbers DEF SectorInCluster
<1> DEFINE p == S * a + q
<1>5. index = E * p + m /\ p \in Nat
  <2> HIDE DEF a, r, q, m, E, S, C
  <2>1. E * (S * a + q) = (E * S) * a + E * q
    BY <1>1, <1>2, <1>3
  <2>2. (E * S) * a \in Nat /\ E * q \in Nat /\ S * a \in Nat
    BY <1>1, <1>2, <1>3
  <2> QED
    BY <1>1, <1>2, <1>3, <2>1, <2>2
<1>6. index % E = m
  <2> HIDE DEF p, m, E
  <2> QED
    BY <1>1, <1>3, <1>5, DividesOnce
<1>7. SlotOf(index) = m + 1
  BY <1>6 DEF SlotOf
<1> HIDE DEF a, r, q, m, E, S, C
<1> QED
  BY <1>2, <1>3, <1>4, <1>7 DEF a, E, S, C

LEMMA EntryFrom ==
  ASSUME NEW a \in Nat, NEW q \in 0 .. SectorsPerCluster - 1, NEW m \in 0 .. EntriesPerSector - 1,
         NEW index \in Nat, index = EntriesPerCluster * a + (EntriesPerSector * q + m)
  PROVE  /\ index \div EntriesPerCluster = a /\ SectorInCluster(index) = q /\ index % EntriesPerSector = m
         /\ index % EntriesPerCluster = EntriesPerSector * q + m
<1> DEFINE E == EntriesPerSector
           S == SectorsPerCluster
           C == EntriesPerCluster
           r == E * q + m
<1>1. E \in Nat \ {0} /\ S \in Nat \ {0} /\ C \in Nat \ {0} /\ C = E * S
  BY EntriesAssumption, TableAssumption, EntryNumbers DEF EntriesPerCluster
<1>2. r \in 0 .. C - 1
  <2>1. E * q + E <= E * S
    BY <1>1, Multiples
  <2> DEFINE P == E * q
             Q == E * S
  <2>2. P \in Nat /\ Q \in Nat
    BY <1>1
  <2> HIDE DEF P, Q
  <2>3. P + E <= Q /\ r = P + m /\ C = Q
    BY <1>1, <2>1 DEF P, Q
  <2> QED
    BY <1>1, <2>2, <2>3
<1>3. r \div E = q /\ r % E = m
  <2> HIDE DEF r, E
  <2>1. r = E * q + m /\ r \in Nat
    BY <1>1, <1>2 DEF r
  <2> QED
    BY <1>1, <2>1, DividesOnce DEF E
<1>4. index \div C = a /\ index % C = r
  <2> HIDE DEF r, C
  <2> QED
    BY <1>1, <1>2, DividesOnce DEF r, C
<1> DEFINE p == S * a + q
<1>5. index = E * p + m /\ p \in Nat
  <2>1. E * (S * a + q) = (E * S) * a + E * q
    BY <1>1
  <2>2. (E * S) * a \in Nat /\ E * q \in Nat /\ S * a \in Nat
    BY <1>1
  <2> QED
    BY <1>1, <2>1, <2>2
<1>6. index % E = m
  <2> HIDE DEF p, E
  <2>1. m \in 0 .. E - 1 /\ E \in Nat \ {0} /\ index \in Nat /\ p \in Nat /\ index = E * p + m
    BY <1>1, <1>5 DEF E
  <2>2. (E * p + m) % E = m
    BY <2>1, Remainder, Zenon
  <2> QED
    BY <2>1, <2>2
<1>7. SectorInCluster(index) = q
  BY <1>3, <1>4 DEF SectorInCluster
<1> QED
  BY <1>4, <1>6, <1>7

\* One entry on.
LEMMA NextNumbers ==
  ASSUME NEW index \in Nat
  PROVE  LET i == index + 1
         IN  /\ i % EntriesPerSector # 0 =>
                  /\ i \div EntriesPerCluster = index \div EntriesPerCluster
                  /\ SectorInCluster(i) = SectorInCluster(index)
             /\ i % EntriesPerSector = 0 /\ i % EntriesPerCluster # 0 =>
                  /\ i \div EntriesPerCluster = index \div EntriesPerCluster
                  /\ SectorInCluster(i) = SectorInCluster(index) + 1
             /\ i % EntriesPerSector = 0 /\ i % EntriesPerCluster = 0 =>
                  /\ i \div EntriesPerCluster = (index \div EntriesPerCluster) + 1
                  /\ SectorInCluster(i) = 0
<1> DEFINE E == EntriesPerSector
           S == SectorsPerCluster
           C == EntriesPerCluster
           i == index + 1
<1>1. E \in Nat \ {0} /\ S \in Nat \ {0} /\ C \in Nat \ {0} /\ C = E * S
  BY EntriesAssumption, TableAssumption, EntryNumbers DEF EntriesPerCluster
<1>2. PICK a \in Nat, q \in 0 .. S - 1, m \in 0 .. E - 1 :
        /\ index = C * a + (E * q + m)
        /\ index \div C = a /\ SectorInCluster(index) = q
  BY EntryParts
<1>3. C * a \in Nat /\ E * q \in Nat
  BY <1>1
<1> HIDE DEF C, E, S
<1>4. CASE m + 1 < E
  <2>1. i = C * a + (E * q + (m + 1)) /\ i \in Nat /\ m + 1 \in 0 .. E - 1
    BY <1>1, <1>2, <1>3, <1>4
  <2>2. i \div C = a /\ SectorInCluster(i) = q /\ i % E = m + 1
    <3> HIDE DEF i
    <3> QED
      BY <1>2, <2>1, EntryFrom DEF C, E, S
  <2> QED
    BY <1>2, <2>2 DEF C, E
<1>5. CASE m + 1 = E /\ q + 1 < S
  <2>1. E * (q + 1) = E * q + E
    BY <1>1
  <2>2. i = C * a + (E * (q + 1) + 0) /\ i \in Nat /\ 0 \in 0 .. E - 1 /\ q + 1 \in 0 .. S - 1
    BY <1>1, <1>2, <1>3, <1>5, <2>1
  <2>3. i \div C = a /\ SectorInCluster(i) = q + 1 /\ i % E = 0 /\ i % C = E * (q + 1) + 0
    <3> HIDE DEF i
    <3> QED
      BY <1>2, <2>2, EntryFrom DEF C, E, S
  <2>4. i % C # 0
    BY <1>1, <1>3, <2>1, <2>3
  <2> QED
    BY <1>2, <2>3, <2>4 DEF C, E
<1>6. CASE m + 1 = E /\ q + 1 = S
  <2>1. E * (q + 1) = E * q + E
    BY <1>1
  <2>2. E * q + E = C
    BY <1>1, <1>6, <2>1
  <2>3. C * (a + 1) = C * a + C /\ E * 0 = 0
    BY <1>1
  <2>4. i = C * (a + 1) + (E * 0 + 0) /\ i \in Nat /\ 0 \in 0 .. E - 1 /\ 0 \in 0 .. S - 1 /\ a + 1 \in Nat
    BY <1>1, <1>2, <1>3, <1>6, <2>2, <2>3
  <2>5. i \div C = a + 1 /\ SectorInCluster(i) = 0 /\ i % E = 0 /\ i % C = E * 0 + 0
    <3> HIDE DEF i
    <3> QED
      BY <1>2, <2>4, EntryFrom DEF C, E, S
  <2> QED
    BY <1>2, <2>3, <2>5 DEF C, E
<1> QED
  BY <1>1, <1>2, <1>4, <1>5, <1>6

-----------------------------------------------------------------------------
(* From entry to entry. *)

\* Here and Enter of next.
HereAt(v, i) == [ v EXCEPT !.dir.index = i, !.dir.slot = SlotOf(i), !.result = "OK" ]
Entering(v) == [ v EXCEPT !.dir.cluster = v.value, !.dir.sector = ClusterToSector(v.value) ]

LEMMA HereLooks ==
  ASSUME NEW v, VolumeOK(v), DirOK(v.dir), NEW i \in Nat
  PROVE  LET w == HereAt(v, i)
         IN  /\ Looks(v, w) /\ w.result = "OK" /\ w.dead = v.dead /\ w.sector = v.sector /\ Logical(w) = Logical(v)
             /\ w.dir.index = i /\ w.dir.slot = SlotOf(i) /\ w.dir.start = v.dir.start
             /\ w.dir.long = v.dir.long /\ w.dir.cluster = v.dir.cluster /\ w.dir.sector = v.dir.sector
<1> DEFINE t == SlotOf(i)
           d == [ v.dir EXCEPT !.index = i, !.slot = t ]
           x == [ v EXCEPT !.dir = d ]
           w == [ v EXCEPT !.dir.index = i, !.dir.slot = t, !.result = "OK" ]
<1> HIDE DEF t
<1>1. w = Fails(x, "OK")
  BY Fields DEF VolumeFields, Fails
<1>2. /\ DirOK(d) /\ d.index = i /\ d.slot = t /\ d.start = v.dir.start /\ d.long = v.dir.long
      /\ d.cluster = v.dir.cluster /\ d.sector = v.dir.sector
  BY DirFields DEF DirOK, HasFields
<1> HIDE DEF d
<1>3. Looks(v, x) /\ x.dir = d /\ Logical(x) = Logical(v) /\ x.dead = v.dead /\ x.sector = v.sector
  BY <1>2, DirAway
<1> HIDE DEF x, w
<1>4. /\ Looks(x, w) /\ w.dir = x.dir /\ w.result = "OK" /\ Logical(w) = Logical(x) /\ w.dead = x.dead
      /\ w.sector = x.sector
  BY <1>1, <1>3, FailureLooks, LooksOK
<1>5. Looks(v, w)
  BY <1>3, <1>4, LooksAgain
<1> QED
  BY <1>2, <1>3, <1>4, <1>5 DEF w, t, HereAt

LEMMA EnterLooks ==
  ASSUME NEW v, VolumeOK(v), DirOK(v.dir), NEW i \in Nat
  PROVE  LET w == HereAt(Entering(v), i)
         IN  /\ Looks(v, w) /\ w.result = "OK" /\ w.dead = v.dead /\ w.sector = v.sector /\ Logical(w) = Logical(v)
             /\ w.dir.index = i /\ w.dir.slot = SlotOf(i) /\ w.dir.start = v.dir.start
             /\ w.dir.long = v.dir.long /\ w.dir.cluster = v.value /\ w.dir.sector = ClusterToSector(v.value)
<1> DEFINE c == v.value
           s == ClusterToSector(c)
           d == [ v.dir EXCEPT !.cluster = c, !.sector = s ]
           m == [ v EXCEPT !.dir.cluster = c, !.dir.sector = s ]
           w == HereAt(m, i)
<1> HIDE DEF c, s
<1>1. m = [ v EXCEPT !.dir = d ]
  BY Fields DEF VolumeFields
<1>2. /\ DirOK(d) /\ d.start = v.dir.start /\ d.long = v.dir.long /\ d.cluster = c /\ d.sector = s
  BY DirFields DEF DirOK, HasFields
<1> HIDE DEF d, m
<1>3. Looks(v, m) /\ m.dir = d /\ Logical(m) = Logical(v) /\ m.dead = v.dead /\ m.sector = v.sector
  BY <1>1, <1>2, DirAway
<1>4. /\ Looks(m, w) /\ w.result = "OK" /\ w.dead = m.dead /\ w.sector = m.sector /\ Logical(w) = Logical(m)
      /\ w.dir.index = i /\ w.dir.slot = SlotOf(i) /\ w.dir.start = m.dir.start
      /\ w.dir.long = m.dir.long /\ w.dir.cluster = m.dir.cluster /\ w.dir.sector = m.dir.sector
  BY <1>3, HereLooks, LooksOK
<1> HIDE DEF w
<1>5. Looks(v, w)
  BY <1>3, <1>4, LooksAgain
<1> QED
  BY <1>2, <1>3, <1>4, <1>5 DEF w, m, c, s, Entering

\* next (2331) that does not stretch.
LEMMA NextLooks ==
  ASSUME NEW v, VolumeOK(v), DirOK(v.dir)
  PROVE  LET w == NextEntry(v, FALSE)
         IN  /\ Looks(v, w) /\ w.dir.start = v.dir.start /\ w.dir.long = v.dir.long
             /\ Placed(v) /\ ~w.dead =>
                  /\ w.result = "OK" => Placed(w) /\ w.dir.index = v.dir.index + 1
                  /\ w.result # "OK" /\ v.sector = v.dir.sector => w.sector # w.dir.sector
<1> DEFINE i == v.dir.index + 1
           x == [ v EXCEPT !.dir.sector = @ + 1 ]
           g == GetFat(x, v.dir.cluster)
           w == NextEntry(v, FALSE)
<1>1. i \in Nat /\ v.dir.index \in Nat
  BY DEF DirOK
<1>2. /\ v.dir.sector = NoSector => w = Fails(v, "NO_FILE")
      /\ v.dir.sector # NoSector /\ i % EntriesPerSector # 0 => w = HereAt(v, i)
      /\ v.dir.sector # NoSector /\ i % EntriesPerSector = 0 /\ i % EntriesPerCluster # 0 => w = HereAt(x, i)
      /\ v.dir.sector # NoSector /\ i % EntriesPerSector = 0 /\ i % EntriesPerCluster = 0 =>
           \/ g.value \in Clusters /\ w = HereAt(Entering(g), i)
           \/ \E r \in { "INT_ERR", "DISK_ERR", "NO_FILE" } : w = Fails(g, r)
  BY DEF NextEntry, With, Then, HereAt, Entering
<1>3. /\ Looks(v, x) /\ VolumeOK(x) /\ DirOK(x.dir) /\ Logical(x) = Logical(v) /\ x.dead = v.dead
      /\ x.sector = v.sector /\ x.dir.start = v.dir.start /\ x.dir.long = v.dir.long /\ x.dir.index = v.dir.index
      /\ x.dir.cluster = v.dir.cluster /\ x.dir.sector = v.dir.sector + 1
  <2> DEFINE s == v.dir.sector + 1
             d == [ v.dir EXCEPT !.sector = s ]
  <2>1. x = [ v EXCEPT !.dir = d ]
    BY Fields DEF VolumeFields
  <2> HIDE DEF s
  <2>2. /\ DirOK(d) /\ d.start = v.dir.start /\ d.long = v.dir.long /\ d.index = v.dir.index
        /\ d.cluster = v.dir.cluster /\ d.sector = s
    BY DirFields DEF DirOK, HasFields
  <2> HIDE DEF d, x
  <2> QED
    BY <2>1, <2>2, DirAway, LooksOK DEF s
<1> HIDE DEF x, w, i
<1>4. Placed(v) => v.dir.sector \in DataSectors /\ v.dir.sector # NoSector /\ v.dir.cluster \in Clusters
  BY PlacedInData
<1>5. First(x.dir) = First(v.dir)
  BY <1>3 DEF First
<1>6. CASE v.dir.sector = NoSector
  <2>1. Looks(v, Fails(v, "NO_FILE")) /\ Fails(v, "NO_FILE").dir = v.dir
    BY FailureLooks
  <2> QED
    BY <1>2, <1>4, <1>6, <2>1 DEF w
<1>7. CASE v.dir.sector # NoSector /\ i % EntriesPerSector # 0
  <2>1. /\ Looks(v, w) /\ w.result = "OK" /\ w.dead = v.dead /\ Logical(w) = Logical(v)
        /\ w.dir.index = i /\ w.dir.slot = SlotOf(i) /\ w.dir.start = v.dir.start
        /\ w.dir.long = v.dir.long /\ w.dir.cluster = v.dir.cluster /\ w.dir.sector = v.dir.sector
    BY <1>1, <1>2, <1>7, HereLooks
  <2>2. i \div EntriesPerCluster = v.dir.index \div EntriesPerCluster /\ SectorInCluster(i) = SectorInCluster(v.dir.index)
    BY <1>1, <1>7, NextNumbers DEF i
  <2>3. First(w.dir) = First(v.dir)
    BY <2>1 DEF First
  <2>4. Placed(v) => Placed(w)
    BY <1>1, <2>1, <2>2, <2>3 DEF Placed
  <2> QED
    BY <2>1, <2>4 DEF w, i
<1>8. CASE v.dir.sector # NoSector /\ i % EntriesPerSector = 0 /\ i % EntriesPerCluster # 0
  <2>1. /\ Looks(x, w) /\ w.result = "OK" /\ w.dead = x.dead /\ Logical(w) = Logical(x)
        /\ w.dir.index = i /\ w.dir.slot = SlotOf(i) /\ w.dir.start = x.dir.start
        /\ w.dir.long = x.dir.long /\ w.dir.cluster = x.dir.cluster /\ w.dir.sector = x.dir.sector
    BY <1>1, <1>2, <1>3, <1>8, HereLooks
  <2>2. /\ i \div EntriesPerCluster = v.dir.index \div EntriesPerCluster
        /\ SectorInCluster(i) = SectorInCluster(v.dir.index) + 1
    BY <1>1, <1>8, NextNumbers DEF i
  <2>3. First(w.dir) = First(v.dir)
    BY <1>3, <2>1 DEF First
  <2>4. ASSUME Placed(v) PROVE Placed(w)
    <3>1. SectorInCluster(v.dir.index) \in 0 .. SectorsPerCluster - 1 /\ v.dir.cluster \in Clusters
      BY <1>1, <1>4, <2>4, SectorNumbers
    <3>2. ClusterToSector(v.dir.cluster) \in Nat /\ SectorsPerCluster \in Nat
      BY <3>1, ClusterPlaces, TableAssumption
    <3>3. w.dir.sector = ClusterToSector(w.dir.cluster) + SectorInCluster(i)
      BY <1>3, <2>1, <2>2, <2>4, <3>1, <3>2 DEF Placed
    <3> QED
      BY <1>1, <1>3, <2>1, <2>2, <2>3, <2>4, <3>3 DEF Placed
  <2>5. Looks(v, w)
    BY <1>3, <2>1, LooksAgain
  <2> QED
    BY <1>3, <2>1, <2>4, <2>5 DEF w, i
<1>9. CASE v.dir.sector # NoSector /\ i % EntriesPerSector = 0 /\ i % EntriesPerCluster = 0
  <2>1. Looks(x, g) /\ VolumeOK(g) /\ DirOK(g.dir) /\ g.dir = x.dir
    BY <1>3, FatLooks, LooksOK
  <2>2. ~g.dead /\ g.value \in Clusters => ~x.dead /\ << v.dir.cluster, g.value >> \in LinksOf(Logical(x))
    BY <1>3, FatAt
  <2>3. g.sector \in { x.sector, NoSector } \cup FatSectors
    BY <1>3, FatWindowPlace
  <2> HIDE DEF g
  <2>4. Looks(v, g)
    BY <1>3, <2>1, LooksAgain
  <2>5. CASE g.value \in Clusters /\ w = HereAt(Entering(g), i)
    <3>1. /\ Looks(g, w) /\ w.result = "OK" /\ w.dead = g.dead /\ w.sector = g.sector /\ Logical(w) = Logical(g)
          /\ w.dir.index = i /\ w.dir.slot = SlotOf(i) /\ w.dir.start = g.dir.start
          /\ w.dir.long = g.dir.long /\ w.dir.cluster = g.value /\ w.dir.sector = ClusterToSector(g.value)
      BY <1>1, <2>1, <2>5, EnterLooks
    <3>2. Looks(v, w)
      BY <2>4, <3>1, LooksAgain
    <3>3. ASSUME Placed(v), ~w.dead PROVE Placed(w)
      <4>1. ~g.dead /\ ~x.dead /\ << v.dir.cluster, g.value >> \in LinksOf(Logical(v))
        BY <1>3, <2>2, <2>5, <3>1, <3>3
      <4>2. Logical(w) = Logical(v)
        BY <2>4, <3>1, <4>1 DEF Looks, Seen
      <4>3. First(w.dir) = First(v.dir)
        BY <1>3, <2>1, <3>1 DEF First
      <4>4. i \div EntriesPerCluster = (v.dir.index \div EntriesPerCluster) + 1 /\ SectorInCluster(i) = 0
        BY <1>1, <1>9, NextNumbers DEF i
      <4>5. At(LinksOf(Logical(v)), First(v.dir), v.dir.index \div EntriesPerCluster, v.dir.cluster)
        BY <3>3 DEF Placed
      <4>6. At(LinksOf(Logical(v)), First(v.dir), i \div EntriesPerCluster, g.value)
        BY <2>5, <4>1, <4>4, <4>5, AtNext
      <4>7. ClusterToSector(g.value) = ClusterToSector(g.value) + 0
        <5>1. 0 \in 0 .. SectorsPerCluster - 1
          BY TableAssumption
        <5>2. ClusterToSector(g.value) \in Nat
          BY <2>5, <5>1, ClusterPlaces
        <5> QED
          BY <5>2
      <4> QED
        BY <1>1, <3>1, <4>2, <4>3, <4>4, <4>6, <4>7 DEF Placed
    <3> QED
      BY <1>3, <2>1, <3>1, <3>2, <3>3 DEF w, i
  <2>6. ASSUME NEW r \in { "INT_ERR", "DISK_ERR", "NO_FILE" }, w = Fails(g, r)
        PROVE  /\ Looks(v, w) /\ w.dir.start = v.dir.start /\ w.dir.long = v.dir.long
               /\ w.result # "OK"
               /\ Placed(v) /\ v.sector = v.dir.sector => w.sector # w.dir.sector
    <3>1. Looks(g, w) /\ w.dir = g.dir /\ w.result = r /\ w.sector = g.sector
      BY <2>1, <2>6, FailureLooks
    <3>2. Looks(v, w)
      BY <2>4, <3>1, LooksAgain
    <3>3. ASSUME Placed(v), v.sector = v.dir.sector PROVE w.sector # w.dir.sector
      <4>1. v.dir.sector \in DataSectors
        BY <1>4, <3>3
      <4>2. v.dir.sector + 1 \notin { v.dir.sector, NoSector } \cup FatSectors
        BY <4>1, SectorPlaces DEF DataSectors, FatSectors, FatBase, NoSector
      <4> QED
        BY <1>3, <2>1, <2>3, <3>1, <3>3, <4>2
    <3> QED
      BY <1>3, <2>1, <3>1, <3>2, <3>3
  <2> QED
    BY <1>2, <1>9, <2>5, <2>6 DEF w
<1> QED
  BY <1>6, <1>7, <1>8, <1>9

-----------------------------------------------------------------------------
(* Finding a name. *)

\* What differs in nothing that Placed looks at.
LEMMA PlacedStays ==
  ASSUME NEW v, NEW w, w.dir.start = v.dir.start, w.dir.index = v.dir.index, w.dir.cluster = v.dir.cluster,
         w.dir.sector = v.dir.sector, w.dir.slot = v.dir.slot, Logical(w) = Logical(v)
  PROVE  Placed(v) <=> Placed(w)
  BY DEF Placed, First

LEMMA LongLooks ==
  ASSUME NEW v, VolumeOK(v), DirOK(v.dir), NEW x \in Nat
  PROVE  LET w == [ v EXCEPT !.dir.long = x ]
         IN  /\ Looks(v, w) /\ w.result = v.result /\ w.dead = v.dead /\ w.sector = v.sector
             /\ Logical(w) = Logical(v)
             /\ w.buffer = v.buffer /\ w.dir.long = x /\ w.dir.start = v.dir.start /\ w.dir.index = v.dir.index
             /\ w.dir.sector = v.dir.sector
             /\ Placed(v) => Placed(w)
<1> DEFINE d == [ v.dir EXCEPT !.long = x ]
           w == [ v EXCEPT !.dir.long = x ]
<1>1. w = [ v EXCEPT !.dir = d ]
  BY Fields DEF VolumeFields
<1>2. /\ DirOK(d) /\ d.long = x /\ d.start = v.dir.start /\ d.index = v.dir.index /\ d.cluster = v.dir.cluster
      /\ d.sector = v.dir.sector /\ d.slot = v.dir.slot
  BY DirFields DEF DirOK, HasFields
<1> HIDE DEF d, w
<1>3. /\ Looks(v, w) /\ w.dir = d /\ w.result = v.result /\ w.dead = v.dead /\ w.sector = v.sector
      /\ Logical(w) = Logical(v) /\ w.buffer = v.buffer
  BY <1>1, <1>2, DirAway
<1>4. Placed(v) => Placed(w)
  BY <1>2, <1>3, PlacedStays
<1> QED
  BY <1>2, <1>3, <1>4 DEF w

\* At most the entry before this one is a long name.
LongBefore(d) == d.long = Ones \/ d.long <= d.index
Found(v, name) == v.sector = v.dir.sector /\ Shown(v).kind \in { "file", "dir" } /\ Shown(v).name = name

\* What find knows after k passes.
Tracked(v, name, k) ==
  ~v.dead =>
    /\ v.result = "OK" => /\ Placed(v) /\ LongBefore(v.dir)
                          /\ v.dir.index = k \/ Found(v, name)
    /\ v.result # "OK" /\ v.sector = v.dir.sector => Placed(v) /\ LongBefore(v.dir)

\* A pass of find (2517).
LEMMA FindPassLooks ==
  ASSUME NEW v, VolumeOK(v), DirOK(v.dir), NEW name, NEW k \in Nat
  PROVE  LET w == FindPass(v, name, k + 1)
         IN  /\ Looks(v, w) /\ w.dir.start = v.dir.start
             /\ Tracked(v, name, k) => Tracked(w, name, k + 1)
<1> DEFINE m == MoveWindow(v, v.dir.sector)
           e == Shown(m)
           a == AfterEntry(m, e)
           n == NextEntry(a, FALSE)
           w == FindPass(v, name, k + 1)
<1>1. /\ v.result # "OK" => w = v
      /\ v.result = "OK" /\ m.result # "OK" => w = m
      /\ v.result = "OK" /\ m.result = "OK" =>
           \/ e.kind = "blank" /\ w = Fails(m, "NO_FILE")
           \/ e.kind \in { "file", "dir" } /\ e.name = name /\ w = m
           \/ ~(e.kind \in { "file", "dir" } /\ e.name = name) /\ w = n
  BY DEF FindPass, Then
<1>2. /\ Looks(v, m) /\ VolumeOK(m) /\ DirOK(m.dir) /\ m.dir = v.dir
      /\ m.result = "OK" => m.sector = v.dir.sector
  BY MoveLooks, LooksOK
<1>3. v.result = "OK" /\ Found(v, name) => m = v
  <2>1. v.sector = v.dir.sector => m = Fails(v, "OK")
    BY DEF MoveWindow
  <2>2. v.result = "OK" => Fails(v, "OK") = v
    BY Fields DEF Fails, VolumeFields, TableFields
  <2> QED
    BY <2>1, <2>2 DEF Found
<1> HIDE DEF m
<1>4. /\ Looks(m, a) /\ VolumeOK(a) /\ DirOK(a.dir) /\ a.dead = m.dead /\ a.sector = m.sector
      /\ Logical(a) = Logical(m)
      /\ a.dir.start = m.dir.start /\ a.dir.index = m.dir.index /\ LongBefore(a.dir)
      /\ a.dir.sector = m.dir.sector
      /\ Placed(m) => Placed(a)
  <2>1. m.dir.index \in Nat /\ Ones \in Nat
    BY <1>2, TableAssumption DEF DirOK
  <2>2. PICK x \in { m.dir.index, Ones } : a = [ m EXCEPT !.dir.long = x ]
    BY DEF AfterEntry
  <2> HIDE DEF a, e
  <2>3. x \in Nat
    BY <2>1, <2>2
  <2>4. /\ Looks(m, a) /\ a.dead = m.dead /\ a.sector = m.sector /\ Logical(a) = Logical(m)
        /\ a.dir.long = x /\ a.dir.start = m.dir.start /\ a.dir.index = m.dir.index
        /\ a.dir.sector = m.dir.sector
        /\ Placed(m) => Placed(a)
    BY <1>2, <2>2, <2>3, LongLooks
  <2>5. LongBefore(a.dir)
    <3>1. x = Ones \/ x <= m.dir.index
      BY <2>1, <2>2
    <3> QED
      BY <2>4, <3>1 DEF LongBefore
  <2>6. VolumeOK(a) /\ DirOK(a.dir)
    BY <2>4, LooksOK
  <2> QED
    BY <2>4, <2>5, <2>6
<1> HIDE DEF a
<1>5. /\ Looks(a, n) /\ n.dir.start = a.dir.start /\ n.dir.long = a.dir.long
      /\ Placed(a) /\ ~n.dead =>
           /\ n.result = "OK" => Placed(n) /\ n.dir.index = a.dir.index + 1
           /\ n.result # "OK" /\ a.sector = a.dir.sector => n.sector # n.dir.sector
  BY <1>4, NextLooks
<1> HIDE DEF n, w
<1>6. ~m.dead => (Placed(v) => Placed(m)) /\ ~v.dead
  <2> SUFFICES ASSUME ~m.dead PROVE (Placed(v) => Placed(m)) /\ ~v.dead
    OBVIOUS
  <2>1. Logical(m) = Logical(v) /\ ~v.dead
    BY <1>2 DEF Looks, Seen, VolumeOK, IsVolume
  <2> QED
    BY <1>2, <2>1, PlacedStays
<1>7. CASE v.result # "OK"
  <2>1. Looks(v, v)
    BY SameLooks
  <2> QED
    BY <1>1, <1>7, <2>1 DEF Tracked, w
<1>8. CASE v.result = "OK" /\ m.result # "OK"
  BY <1>1, <1>2, <1>6, <1>8 DEF Tracked, w
<1>9. CASE v.result = "OK" /\ m.result = "OK" /\ e.kind = "blank" /\ w = Fails(m, "NO_FILE")
  <2>1. /\ Looks(m, w) /\ w.dir = m.dir /\ w.result = "NO_FILE" /\ Logical(w) = Logical(m) /\ w.dead = m.dead
    BY <1>2, <1>9, FailureLooks
  <2>2. Looks(v, w)
    BY <1>2, <2>1, LooksAgain
  <2>3. Placed(m) => Placed(w)
    BY <2>1, PlacedStays
  <2> QED
    BY <1>2, <1>6, <1>9, <2>1, <2>2, <2>3 DEF Tracked, w
<1>10. CASE v.result = "OK" /\ m.result = "OK" /\ e.kind \in { "file", "dir" } /\ e.name = name /\ w = m
  BY <1>2, <1>6, <1>10 DEF Tracked, Found, w
<1>11. CASE v.result = "OK" /\ m.result = "OK" /\ ~(e.kind \in { "file", "dir" } /\ e.name = name) /\ w = n
  <2>1. Looks(m, w)
    BY <1>4, <1>5, <1>11, LooksAgain
  <2>2. Looks(v, w) /\ w.dir.start = v.dir.start
    BY <1>2, <1>4, <1>5, <1>11, <2>1, LooksAgain
  <2>3. ASSUME Tracked(v, name, k) PROVE Tracked(w, name, k + 1)
    <3> SUFFICES ASSUME ~w.dead
                 PROVE  /\ w.result = "OK" => Placed(w) /\ LongBefore(w.dir) /\ w.dir.index = k + 1
                        /\ w.result # "OK" => w.sector # w.dir.sector
      BY DEF Tracked
    <3>1. ~m.dead /\ ~v.dead
      BY <1>6, <2>1 DEF Looks, Seen, VolumeOK, IsVolume
    <3>2. Placed(v) /\ Placed(m) /\ Placed(a)
      BY <1>4, <1>6, <1>11, <2>3, <3>1 DEF Tracked
    <3>3. v.dir.index = k
      <4>1. ~Found(v, name)
        BY <1>3, <1>11 DEF Found
      <4> QED
        BY <1>11, <2>3, <3>1, <4>1 DEF Tracked
    <3>4. a.sector = a.dir.sector
      BY <1>2, <1>4, <1>11
    <3>5. LongBefore(a.dir) /\ a.dir.index = k /\ w.dir.long = a.dir.long
      BY <1>2, <1>4, <1>5, <1>11, <3>3
    <3>6. w.result = "OK" => Placed(w) /\ w.dir.index = k + 1
      BY <1>5, <1>11, <3>2, <3>5
    <3>7. w.result = "OK" => LongBefore(w.dir)
      <4>1. a.dir.long \in Nat
        BY <1>4 DEF DirOK
      <4> QED
        BY <3>5, <3>6, <4>1 DEF LongBefore
    <3> QED
      BY <1>5, <1>11, <3>2, <3>4, <3>6, <3>7
  <2> QED
    BY <2>2, <2>3 DEF w
<1> QED
  BY <1>1, <1>7, <1>8, <1>9, <1>10, <1>11

\* find (2506).
LEMMA FindLooks ==
  ASSUME NEW v, VolumeOK(v), DirOK(v.dir), NEW name
  PROVE  LET w == Find(v, name)
         IN  /\ Looks(v, w) /\ w.dir.start = v.dir.start
             /\ First(v.dir) \in Clusters => Tracked(w, name, MaxEntries)
<1> DEFINE s == SetIndex(v, 0)
           v1 == [ s EXCEPT !.dir.long = Ones ]
           u(k) == Finding!Passes(v1, name)[k]
           T == { k \in Nat : /\ Looks(v, u(k)) /\ u(k).dir.start = v.dir.start
                              /\ s.result = "OK" => Tracked(u(k), name, k) }
<1>1. Find(v, name) = IF s.result = "OK" THEN u(MaxEntries) ELSE s
  BY DEF Find, Then
<1>2. /\ Looks(v, s) /\ VolumeOK(s) /\ DirOK(s.dir) /\ s.dir.start = v.dir.start /\ s.dir.index = 0
      /\ s.result = "OK" /\ ~s.dead => Placed(s)
      /\ First(v.dir) \in Clusters => s.result = "OK"
  BY SetIndexLooks, LooksOK
<1> HIDE DEF s
<1>3. u(0) = v1 /\ \A k \in Nat : u(k + 1) = FindPass(u(k), name, k + 1)
  BY Finding!PassByPass
<1> HIDE DEF u
<1>4. 0 \in T
  <2>1. /\ Looks(s, v1) /\ v1.result = s.result /\ v1.dead = s.dead /\ v1.dir.long = Ones
        /\ v1.dir.start = s.dir.start /\ v1.dir.index = s.dir.index /\ (Placed(s) => Placed(v1))
    BY <1>2, LongLooks, TableAssumption
  <2> HIDE DEF v1
  <2>2. Looks(v, v1)
    BY <1>2, <2>1, LooksAgain
  <2>3. s.result = "OK" => Tracked(v1, name, 0)
    BY <1>2, <2>1 DEF Tracked, LongBefore
  <2> QED
    BY <1>2, <1>3, <2>1, <2>2, <2>3
<1>5. ASSUME NEW k \in Nat, k \in T PROVE k + 1 \in T
  <2>1. Looks(v, u(k)) /\ VolumeOK(u(k)) /\ DirOK(u(k).dir) /\ u(k).dir.start = v.dir.start
    BY <1>5, LooksOK
  <2>2. /\ Looks(u(k), u(k + 1)) /\ u(k + 1).dir.start = u(k).dir.start
        /\ Tracked(u(k), name, k) => Tracked(u(k + 1), name, k + 1)
    BY <1>3, <2>1, FindPassLooks
  <2>3. Looks(v, u(k + 1))
    BY <2>1, <2>2, LooksAgain
  <2> QED
    BY <1>5, <2>1, <2>2, <2>3
<1>6. Nat \subseteq T
  <2> HIDE DEF T
  <2> QED
    BY <1>4, <1>5, Finding!Upwards
<1>7. MaxEntries \in T
  BY <1>6, EntryNumbers
<1> QED
  BY <1>1, <1>2, <1>7

-----------------------------------------------------------------------------
(* Reading entries. *)

LEMMA ReadPassLooks ==
  ASSUME NEW v, VolumeOK(v), DirOK(v.dir), NEW wanted, NEW k
  PROVE  Looks(v, ReadPass(v, wanted, k))
<1> DEFINE m == MoveWindow(v, v.dir.sector)
           n == NextEntry(m, FALSE)
<1>1. ReadPass(v, wanted, k) \in { v, m, Fails(m, "NO_FILE"), n }
  BY DEF ReadPass, Then
<1>2. Looks(v, m) /\ VolumeOK(m) /\ DirOK(m.dir)
  BY MoveLooks, LooksOK
<1> HIDE DEF m
<1>3. Looks(m, n) /\ Looks(m, Fails(m, "NO_FILE"))
  BY <1>2, NextLooks, FailureLooks
<1> HIDE DEF n
<1>4. Looks(v, n) /\ Looks(v, Fails(m, "NO_FILE"))
  BY <1>2, <1>3, LooksAgain
<1> QED
  BY <1>1, <1>2, <1>4, SameLooks

\* read (2565).
LEMMA ReadEntryLooks ==
  ASSUME NEW v, VolumeOK(v), DirOK(v.dir), NEW label
  PROVE  Looks(v, ReadEntry(v, label))
<1> DEFINE wanted == IF label THEN { "label" } ELSE { "file", "dir" }
           u(k) == Reading!Passes(v, wanted)[k]
           T == { k \in Nat : Looks(v, u(k)) }
           w == u(MaxEntries)
           x == [ w EXCEPT !.dir.sector = NoSector ]
<1>1. ReadEntry(v, label) \in { w, x }
  BY DEF ReadEntry, With
<1> HIDE DEF wanted
<1>2. u(0) = v /\ \A k \in Nat : u(k + 1) = ReadPass(u(k), wanted, k + 1)
  BY Reading!PassByPass
<1> HIDE DEF u
<1>3. 0 \in T
  BY <1>2, SameLooks
<1>4. ASSUME NEW k \in Nat, k \in T PROVE k + 1 \in T
  <2>1. Looks(v, u(k)) /\ VolumeOK(u(k)) /\ DirOK(u(k).dir)
    BY <1>4, LooksOK
  <2>2. Looks(u(k), u(k + 1))
    BY <1>2, <2>1, ReadPassLooks
  <2> QED
    BY <2>1, <2>2, LooksAgain
<1>5. Nat \subseteq T
  <2> HIDE DEF T
  <2> QED
    BY <1>3, <1>4, Reading!Upwards
<1>6. Looks(v, w) /\ VolumeOK(w) /\ DirOK(w.dir)
  BY <1>5, EntryNumbers, LooksOK
<1> HIDE DEF w
<1>7. Looks(w, x)
  <2> DEFINE d == [ w.dir EXCEPT !.sector = NoSector ]
  <2>1. x = [ w EXCEPT !.dir = d ]
    BY <1>6, Fields DEF VolumeFields
  <2>2. DirOK(d)
    BY <1>6, DirFields DEF DirOK, HasFields
  <2> HIDE DEF d
  <2> QED
    BY <1>6, <2>1, <2>2, DirAway
<1>8. Looks(v, x)
  BY <1>6, <1>7, LooksAgain
<1> QED
  BY <1>1, <1>6, <1>8

-----------------------------------------------------------------------------
(* No place twice. *)

\* Links to clusters, no two of them to the same one.
Chained(L) == \A l \in L : l[2] \in Clusters /\ \A m \in L : m[2] = l[2] => m[1] = l[1]
\* No two from the same one.
Straight(L) == \A l, m \in L : m[1] = l[1] => m[2] = l[2]
\* None to s.
Unlinked(L, s) == \A l \in L : l[2] # s

LEMMA AtBack ==
  ASSUME NEW L, Chained(L), NEW s, NEW n, NEW c, At(L, s, n, c)
  PROVE  \/ n = 0 /\ c = s
         \/ n - 1 \in Nat /\ \E l \in L : l[2] = c /\ At(L, s, n - 1, l[1])
<1> DEFINE Comes(m, b) == \/ m = 0 /\ b = s
                          \/ m - 1 \in Nat /\ \E l \in L : l[2] = b /\ At(L, s, m - 1, l[1])
           T == { x \in Nat \X Clusters : At(L, s, x[1], x[2]) /\ Comes(x[1], x[2]) }
<1>1. T \in SUBSET (Nat \X Clusters) /\ s \in Clusters
  BY DEF At
<1>2. << 0, s >> \in T
  BY <1>1, AtStart
<1>3. ASSUME NEW m \in Nat, NEW l \in L, << m, l[1] >> \in T PROVE << m + 1, l[2] >> \in T
  <2>1. At(L, s, m, l[1]) /\ l[2] \in Clusters
    BY <1>3 DEF Chained
  <2>2. At(L, s, m + 1, l[2])
    <3> SUFFICES ASSUME NEW U \in SUBSET (Nat \X Clusters), Steady(U, L, s) PROVE << m + 1, l[2] >> \in U
      BY <2>1 DEF At
    <3>1. << m, l[1] >> \in U
      BY <2>1 DEF At
    <3> QED
      BY <3>1 DEF Steady
  <2>3. (m + 1) - 1 = m /\ m + 1 \in Nat
    OBVIOUS
  <2>4. Comes(m + 1, l[2])
    BY <2>1, <2>3
  <2> HIDE DEF Comes
  <2> QED
    BY <2>1, <2>2, <2>3, <2>4
<1>4. Steady(T, L, s)
  <2> HIDE DEF T
  <2> QED
    BY <1>2, <1>3 DEF Steady
<1>5. << n, c >> \in T
  <2> HIDE DEF T
  <2> QED
    BY <1>1, <1>4 DEF At
<1> QED
  BY <1>5

LEMMA AtFirst ==
  ASSUME NEW L, Chained(L), NEW s, NEW c, At(L, s, 0, c)
  PROVE  c = s
<1>1. 0 - 1 \notin Nat
  OBVIOUS
<1> QED
  BY <1>1, AtBack

\* A cluster is in one chain only, at one place.
LEMMA AtApart ==
  ASSUME NEW L, Chained(L), NEW s, Unlinked(L, s), NEW t, Unlinked(L, t)
  PROVE  \A n, m, c : At(L, s, n, c) /\ At(L, t, m, c) => n = m /\ s = t
<1> DEFINE P == { n \in Nat : \A m, c : At(L, s, n, c) /\ At(L, t, m, c) => n = m /\ s = t }
<1>1. 0 \in P
  <2> SUFFICES ASSUME NEW m, NEW c, At(L, s, 0, c), At(L, t, m, c) PROVE 0 = m /\ s = t
    OBVIOUS
  <2>1. c = s
    BY AtFirst
  <2> QED
    BY <2>1, AtBack DEF Unlinked
<1>2. ASSUME NEW n \in Nat, n \in P PROVE n + 1 \in P
  <2> SUFFICES ASSUME NEW m, NEW c, At(L, s, n + 1, c), At(L, t, m, c) PROVE n + 1 = m /\ s = t
    OBVIOUS
  <2>1. n + 1 # 0 /\ (n + 1) - 1 = n
    OBVIOUS
  <2>2. PICK l \in L : l[2] = c /\ At(L, s, n, l[1])
    BY <2>1, AtBack
  <2>3. m - 1 \in Nat /\ \E k \in L : k[2] = c /\ At(L, t, m - 1, k[1])
    BY <2>2, AtBack DEF Unlinked
  <2>4. At(L, t, m - 1, l[1]) /\ m \in Nat
    BY <2>2, <2>3 DEF Chained, At
  <2>5. n = m - 1 /\ s = t
    BY <1>2, <2>2, <2>4
  <2> QED
    BY <2>4, <2>5
<1>3. Nat \subseteq P
  <2> HIDE DEF P
  <2> QED
    BY <1>1, <1>2, Freeing!Upwards
<1> QED
  BY <1>3 DEF At

\* A place in a chain is one cluster.
LEMMA AtOne ==
  ASSUME NEW L, Chained(L), Straight(L), NEW s
  PROVE  \A n, c, d : At(L, s, n, c) /\ At(L, s, n, d) => c = d
<1> DEFINE P == { n \in Nat : \A c, d : At(L, s, n, c) /\ At(L, s, n, d) => c = d }
<1>1. 0 \in P
  BY AtFirst
<1>2. ASSUME NEW n \in Nat, n \in P PROVE n + 1 \in P
  <2> SUFFICES ASSUME NEW c, NEW d, At(L, s, n + 1, c), At(L, s, n + 1, d) PROVE c = d
    OBVIOUS
  <2>1. n + 1 # 0 /\ (n + 1) - 1 = n
    OBVIOUS
  <2>2. PICK l \in L : l[2] = c /\ At(L, s, n, l[1])
    BY <2>1, AtBack
  <2>3. PICK k \in L : k[2] = d /\ At(L, s, n, k[1])
    BY <2>1, AtBack
  <2>4. l[1] = k[1]
    BY <1>2, <2>2, <2>3
  <2> QED
    BY <2>2, <2>3, <2>4 DEF Straight
<1>3. Nat \subseteq P
  <2> HIDE DEF P
  <2> QED
    BY <1>1, <1>2, Freeing!Upwards
<1> QED
  BY <1>3 DEF At

\* All the places before it are taken.
LEMMA AtBefore ==
  ASSUME NEW L, Chained(L), NEW s
  PROVE  \A n \in Nat : \A c : At(L, s, n, c) => \A m \in 0 .. n : \E b : At(L, s, m, b)
<1> DEFINE P == { n \in Nat : \A c : At(L, s, n, c) => \A m \in 0 .. n : \E b : At(L, s, m, b) }
<1>1. 0 \in P
  OBVIOUS
<1>2. ASSUME NEW n \in Nat, n \in P PROVE n + 1 \in P
  <2> SUFFICES ASSUME NEW c, At(L, s, n + 1, c), NEW m \in 0 .. n + 1 PROVE \E b : At(L, s, m, b)
    OBVIOUS
  <2>1. n + 1 # 0 /\ (n + 1) - 1 = n
    OBVIOUS
  <2>2. PICK l \in L : l[2] = c /\ At(L, s, n, l[1])
    BY <2>1, AtBack
  <2>3. CASE m = n + 1
    BY <2>3
  <2>4. CASE m \in 0 .. n
    BY <1>2, <2>2, <2>4
  <2> QED
    BY <2>3, <2>4
<1>3. Nat \subseteq P
  <2> HIDE DEF P
  <2> QED
    BY <1>1, <1>2, Freeing!Upwards
<1> QED
  BY <1>3

\* There are no more places than clusters.
LEMMA AtBound ==
  ASSUME NEW L, Chained(L), NEW s, Unlinked(L, s), NEW n, NEW c, At(L, s, n, c)
  PROVE  n \in Nat /\ n < NumFatEntries - 2
<1> DEFINE f == [ m \in 0 .. n |-> CHOOSE b : At(L, s, m, b) ]
<1>1. n \in Nat /\ NumFatEntries \in Nat \ 0 .. 2
  BY TableAssumption DEF At
<1>2. \A m \in 0 .. n : At(L, s, m, f[m])
  BY <1>1, AtBefore
<1>3. f \in [ 0 .. n -> Clusters ]
  <2>1. \A m \in 0 .. n : f[m] \in Clusters
    BY <1>2 DEF At
  <2>2. f = [ m \in 0 .. n |-> f[m] ]
    OBVIOUS
  <2> HIDE DEF f
  <2> QED
    BY <2>1, <2>2
<1> HIDE DEF f
<1>4. f \in Injection(0 .. n, Clusters)
  <2>1. \A a, b \in 0 .. n : f[a] = f[b] => a = b
    BY <1>2, AtApart
  <2> QED
    BY <1>3, <2>1 DEF Injection, IsInjective
<1>5. IsFiniteSet(Clusters) /\ Cardinality(Clusters) = NumFatEntries - 2
  <2>1. 2 \in Int /\ NumFatEntries - 1 \in Int /\ ~(2 > NumFatEntries - 1) /\ NumFatEntries - 1 - 2 + 1 = NumFatEntries - 2
    BY <1>1
  <2> QED
    BY <2>1, FS_Interval DEF Clusters
<1>6. Cardinality(0 .. n) = n + 1
  <2>1. 0 \in Int /\ n \in Int /\ ~(0 > n) /\ n - 0 + 1 = n + 1
    BY <1>1
  <2> QED
    BY <2>1, FS_Interval
<1>7. Cardinality(0 .. n) <= Cardinality(Clusters)
  BY <1>4, <1>5, FS_Injection
<1> QED
  BY <1>1, <1>5, <1>6, <1>7

-----------------------------------------------------------------------------
(* The chains of a sound table. *)

LEMMA SoundLinks ==
  ASSUME NEW d, TableSound(d)
  PROVE  Chained(LinksOf(d)) /\ Straight(LinksOf(d))
<1>1. \A l \in LinksOf(d) : l[1] \in Clusters /\ l[2] = LinkOn(d, l[1]) /\ l[2] \in Clusters
  BY DEF LinksOf
<1>2. \A l, m \in LinksOf(d) : m[2] = l[2] => m[1] = l[1]
  BY <1>1 DEF TableSound
<1> QED
  BY <1>1, <1>2 DEF Chained, Straight

LEMMA HeadUnlinked ==
  ASSUME NEW d, NEW K, HeadsApart(d, K), NEW h \in K
  PROVE  Unlinked(LinksOf(d), h[2]) /\ h[2] \in Clusters
  BY DEF HeadsApart, Unlinked, LinksOf

\* A directory that starts where a claim says so.
Headed(d, a) == d.start = 0 \/ (d.start # RootCluster /\ \E h \in a.claims : h[2] = d.start)

LEMMA HeadedFirst ==
  ASSUME NEW v, NEW a, Holds(v, a), ~v.dead, NEW d, Headed(d, a)
  PROVE  /\ First(d) \in Clusters /\ Unlinked(LinksOf(Logical(v)), First(d))
         /\ Chained(LinksOf(Logical(v))) /\ Straight(LinksOf(Logical(v)))
<1>1. Respects(Logical(v), a) /\ RootClaim \in a.claims
  BY DEF Holds, Intact, Rooted
<1>2. RootClaim[2] = RootCluster
  BY DEF RootClaim
<1>3. \E h \in a.claims : h[2] = First(d)
  BY <1>1, <1>2 DEF Headed, First
<1> QED
  BY <1>1, <1>3, SoundLinks, HeadUnlinked DEF Respects

\* The loops over a directory are long enough for every entry.
LEMMA EntryBound ==
  ASSUME NEW v, NEW a, Holds(v, a), ~v.dead, Headed(v.dir, a), Placed(v)
  PROVE  v.dir.index \in Nat /\ v.dir.index + 1 < MaxEntries
<1> DEFINE C == EntriesPerCluster
           N == NumFatEntries
           i == v.dir.index
           n == i \div C
           r == i % C
<1>1. C \in Nat \ {0} /\ N \in Nat \ 0 .. 2 /\ i \in Nat
  BY EntryNumbers, TableAssumption DEF Placed
<1>2. n \in Nat /\ n < N - 2
  BY HeadedFirst, AtBound DEF Placed
<1>3. i = C * n + r /\ r \in 0 .. C - 1
  <2> HIDE DEF C, i
  <2> QED
    BY <1>1, Divides
<1>4. C * n + C <= C * (N - 2)
  <2>1. N - 2 \in Nat
    BY <1>1
  <2> HIDE DEF C, n
  <2> QED
    BY <1>1, <1>2, <2>1, Multiples
<1>5. C * (N - 2) + 2 * C = C * N
  <2> HIDE DEF C, N
  <2> QED
    BY <1>1
<1> DEFINE P == C * n
           Q == C * (N - 2)
           R == C * N
<1>6. P \in Nat /\ Q \in Nat /\ R \in Nat
  <2> HIDE DEF C, N, n
  <2>1. N - 2 \in Nat
    BY <1>1
  <2> QED
    BY <1>1, <1>2, <2>1
<1>7. MaxEntries = R
  BY DEF MaxEntries
<1> HIDE DEF P, Q, R, C, N, n, r
<1>8. i = P + r /\ P + C <= Q /\ Q + 2 * C = R
  BY <1>3, <1>4, <1>5 DEF P, Q, R
<1> QED
  BY <1>1, <1>3, <1>6, <1>7, <1>8

\* What a walk knows when it comes to a name.
Reached(v, a, name) ==
  ~v.dead =>
    /\ Headed(v.dir, a)
    /\ v.result = "OK" => Placed(v) /\ LongBefore(v.dir) /\ Found(v, name)
    /\ v.result # "OK" /\ OnBlank(v) => Placed(v) /\ LongBefore(v.dir)

\* The entry that it has found leads to a directory that is headed.
LEMMA EntersHeaded ==
  ASSUME NEW v, NEW a, Holds(v, a), a.loose \subseteq a.files, ~v.dead,
         v.sector \in DataSectors, Shown(v).kind = "dir", Shown(v).name \notin Dots
  PROVE  Shown(v).start = 0 \/ (Shown(v).start # RootCluster /\ \E h \in a.claims : h[2] = Shown(v).start)
<1> DEFINE e == Shown(v)
           p == << v.sector, v.dir.slot >>
<1> SUFFICES ASSUME e.start # 0 PROVE e.start # RootCluster /\ \E h \in a.claims : h[2] = e.start
  OBVIOUS
<1>1. v.dir.slot \in DOMAIN v.buffer.entries /\ e = v.buffer.entries[v.dir.slot]
  BY DEF Shown, Foreign, Entry
<1>2. Fits(e, p, a)
  BY <1>1 DEF Holds, Intact, WindowFits
<1>3. NamesChain(e)
  BY DEF NamesChain
<1>4. << p, e.start >> \in a.claims
  BY <1>2, <1>3 DEF Fits
<1>5. HeadsApart(Logical(v), a.claims) /\ RootClaim \in a.claims
  BY DEF Holds, Intact, Respects, Rooted
<1>6. p # RootPlace
  BY SectorPlaces DEF RootPlace
<1> DEFINE h == << p, e.start >>
<1>7. h[1] = p /\ h[2] = e.start /\ RootClaim[1] = RootPlace /\ RootClaim[2] = RootCluster
  BY DEF RootClaim
<1> HIDE DEF h
<1>8. h \in a.claims
  BY <1>4 DEF h
<1>9. e.start # RootCluster
  BY <1>5, <1>6, <1>7, <1>8 DEF HeadsApart
<1> QED
  BY <1>7, <1>8, <1>9

\* find in a directory that is headed: the name is found, or why not is known.
LEMMA FindReached ==
  ASSUME NEW v, NEW a, Holds(v, a), DirOK(v.dir), ~v.dead => Headed(v.dir, a), NEW name, NEW r, r # "OK"
  PROVE  LET w == ButNoFile(Find(v, name), r)
         IN  Looks(v, w) /\ w.dir.start = v.dir.start /\ Reached(w, a, name)
<1> DEFINE g == Find(v, name)
           w == ButNoFile(g, r)
<1>1. VolumeOK(v) /\ v.dead \in BOOLEAN
  BY DEF Holds, Intact, VolumeOK, IsVolume
<1>2. /\ Looks(v, g) /\ VolumeOK(g) /\ DirOK(g.dir) /\ g.dir.start = v.dir.start
      /\ First(v.dir) \in Clusters => Tracked(g, name, MaxEntries)
  BY <1>1, FindLooks, LooksOK
<1>3. Holds(g, a)
  BY <1>2, LooksHolds
<1>4. ~g.dead => ~v.dead
  BY <1>1, <1>2 DEF Looks, Seen
<1> HIDE DEF g
<1>5. ~g.dead => Headed(g.dir, a) /\ Tracked(g, name, MaxEntries)
  <2>1. ~v.dead => First(v.dir) \in Clusters
    BY HeadedFirst
  <2> QED
    BY <1>2, <1>4, <2>1 DEF Headed
<1>6. Reached(g, a, name)
  <2> SUFFICES ASSUME ~g.dead
               PROVE  /\ Headed(g.dir, a)
                      /\ g.result = "OK" => Placed(g) /\ LongBefore(g.dir) /\ Found(g, name)
                      /\ g.result # "OK" /\ OnBlank(g) => Placed(g) /\ LongBefore(g.dir)
    BY DEF Reached
  <2>1. g.result = "OK" => Found(g, name)
    <3> SUFFICES ASSUME g.result = "OK" PROVE Found(g, name)
      OBVIOUS
    <3>1. Placed(g) /\ (g.dir.index = MaxEntries \/ Found(g, name))
      BY <1>5 DEF Tracked
    <3>2. g.dir.index \in Nat /\ g.dir.index + 1 < MaxEntries /\ MaxEntries \in Nat
      BY <1>3, <1>5, <3>1, EntryBound, EntryNumbers
    <3> QED
      BY <3>1, <3>2
  <2> QED
    BY <1>5, <2>1 DEF Tracked, OnBlank
<1>7. CASE w = g
  <2> HIDE DEF w
  <2> QED
    BY <1>2, <1>6, <1>7 DEF w, g
<1>8. CASE w # g
  <2>1. w = Fails(g, r) /\ g.result # "OK"
    BY <1>8 DEF ButNoFile
  <2>2. /\ Looks(g, w) /\ w.dir = g.dir /\ w.result = r /\ Logical(w) = Logical(g) /\ w.dead = g.dead
        /\ w.sector = g.sector /\ w.buffer = g.buffer
    BY <1>2, <2>1, FailureLooks
  <2> HIDE DEF w
  <2>3. Looks(v, w)
    BY <1>2, <2>2, LooksAgain
  <2>4. Placed(g) => Placed(w)
    BY <2>2, PlacedStays
  <2>5. OnBlank(w) => OnBlank(g)
    BY <2>2 DEF OnBlank, Shown
  <2>6. Reached(w, a, name)
    BY <1>6, <2>1, <2>2, <2>4, <2>5 DEF Reached
  <2>7. w.dir.start = v.dir.start
    BY <1>2, <2>2
  <2> QED
    BY <2>3, <2>6, <2>7 DEF w, g
<1> QED
  BY <1>7, <1>8

\* A pass of followPath (2093).
LEMMA FollowPassLooks ==
  ASSUME NEW v, NEW a, Holds(v, a), DirOK(v.dir), a.loose \subseteq a.files, NEW path, NEW k \in Nat,
         \/ k = 0 /\ v.dir.start = 0 /\ v.result = "OK"
         \/ k > 0 /\ Reached(v, a, path[k]) /\ path[k] \notin Dots
  PROVE  LET w == FollowPass(v, path, k + 1)
         IN  Looks(v, w) /\ Reached(w, a, path[k + 1])
<1> DEFINE x == Shown(v).start
           s == [ v EXCEPT !.dir.start = x ]
           f == Fails(v, "NO_PATH")
           e == IF v.result = "OK"
                  THEN IF k + 1 = 1 THEN v ELSE IF Shown(v).kind # "dir" THEN f ELSE s
                  ELSE v
           name == path[k + 1]
           r == IF k + 1 < Len(path) THEN "NO_PATH" ELSE "NO_FILE"
           w == FollowPass(v, path, k + 1)
<1>1. w = IF e.result = "OK" THEN ButNoFile(Find(e, name), r) ELSE e
  BY DEF FollowPass, Then
<1>2. VolumeOK(v) /\ v.dead \in BOOLEAN
  BY DEF Holds, Intact, VolumeOK, IsVolume
<1>3. k + 1 = 1 <=> k = 0
  OBVIOUS
<1>4. /\ Looks(v, e) /\ Holds(e, a) /\ DirOK(e.dir)
      /\ ~e.dead => Headed(e.dir, a)
      /\ e.result # "OK" => Reached(e, a, name)
  <2>1. CASE e = v
    <3>1. ~v.dead => Headed(v.dir, a)
      BY DEF Reached, Headed
    <3>2. v.result # "OK" => Reached(v, a, name)
      BY DEF Reached
    <3>3. Looks(v, v)
      BY <1>2, SameLooks
    <3> QED
      BY <2>1, <3>1, <3>2, <3>3
  <2>2. CASE v.result = "OK" /\ k # 0 /\ Shown(v).kind # "dir" /\ e = f
    <3>1. /\ Looks(v, f) /\ f.dir = v.dir /\ f.dead = v.dead /\ f.sector = v.sector /\ f.buffer = v.buffer
          /\ f.result = "NO_PATH"
      BY <1>2, FailureLooks
    <3> HIDE DEF f
    <3>2. OnBlank(f) => OnBlank(v)
      BY <3>1 DEF OnBlank, Shown
    <3>3. Reached(f, a, name)
      BY <2>2, <3>1, <3>2 DEF Reached, Found, OnBlank
    <3> QED
      BY <2>2, <3>1, <3>3, LooksOK, LooksHolds DEF Reached
  <2>3. CASE v.result = "OK" /\ k # 0 /\ Shown(v).kind = "dir" /\ e = s
    <3> DEFINE d == [ v.dir EXCEPT !.start = x ]
    <3>1. s = [ v EXCEPT !.dir = d ]
      BY <1>2, Fields DEF VolumeFields
    <3>2. DirOK(d) /\ d.start = x
      BY DirFields DEF DirOK, HasFields
    <3> HIDE DEF d, x, s
    <3>3. /\ Looks(v, s) /\ s.dir = d /\ s.result = v.result /\ s.dead = v.dead
      BY <1>2, <3>1, <3>2, DirAway
    <3>4. ~v.dead => Headed(d, a)
      <4> SUFFICES ASSUME ~v.dead PROVE Headed(d, a)
        OBVIOUS
      <4>1. Placed(v) /\ Found(v, path[k])
        BY <2>3 DEF Reached
      <4>2. v.sector \in DataSectors /\ Shown(v).name \notin Dots
        BY <2>3, <4>1, PlacedInData DEF Found
      <4>3. x = 0 \/ (x # RootCluster /\ \E h \in a.claims : h[2] = x)
        BY <2>3, <4>2, EntersHeaded DEF x
      <4> QED
        BY <3>2, <4>3 DEF Headed
    <3> QED
      BY <2>3, <3>3, <3>4, LooksOK, LooksHolds
  <2> QED
    BY <1>3, <2>1, <2>2, <2>3
<1> HIDE DEF e, name, w
<1>5. r # "OK"
  OBVIOUS
<1> HIDE DEF r
<1>6. CASE e.result # "OK"
  BY <1>1, <1>4, <1>6 DEF w, name
<1>7. CASE e.result = "OK"
  <2>1. Looks(e, w) /\ Reached(w, a, name)
    BY <1>1, <1>4, <1>5, <1>7, FindReached
  <2> QED
    BY <1>4, <2>1, LooksAgain DEF w, name
<1> QED
  BY <1>6, <1>7

\* followPath (2073).
LEMMA FollowPathLooks ==
  ASSUME NEW v, NEW a, Holds(v, a), a.loose \subseteq a.files, NEW path, Names(path)
  PROVE  LET w == FollowPath(v, path)
             u == [ v EXCEPT !.dir = NoDir, !.result = "OK" ]
         IN  Looks(u, w) /\ Seen(v, w) /\ Reached(w, a, path[Len(path)])
<1> DEFINE v0 == [ v EXCEPT !.dir = NoDir, !.result = "OK" ]
           u(k) == Walking!Passes(v0, path)[k]
           P(k) == \/ k = 0 /\ u(k).dir.start = 0 /\ u(k).result = "OK"
                   \/ k > 0 /\ Reached(u(k), a, path[k])
           T == { k \in Nat : k <= Len(path) => Looks(v0, u(k)) /\ P(k) }
<1>1. FollowPath(v, path) = u(Len(path)) /\ Len(path) \in Nat /\ Len(path) > 0
  BY DEF FollowPath, Names
<1>2. u(0) = v0 /\ \A k \in Nat : u(k + 1) = FollowPass(u(k), path, k + 1)
  BY Walking!PassByPass
<1>3. VolumeOK(v)
  BY DEF Holds, Intact
<1>4. Seen(v, v0) /\ VolumeOK(v0) /\ DirOK(v0.dir) /\ v0.dir.start = 0 /\ v0.result = "OK"
  <2>1. v0 = [ f \in DOMAIN v0 |-> v0[f] ] /\ SameBut(v, v0, { "dir", "result" }) /\ v0.dir = NoDir /\ v0.result = "OK"
    BY <1>3, Fields DEF SameBut, VolumeFields, TableFields
  <2> HIDE DEF v0
  <2>2. SameBut(v, v0, OuterFields)
    BY <2>1 DEF SameBut, OuterFields
  <2>3. Seen(v, v0)
    BY <1>3, <2>1, <2>2, OuterSeen
  <2>4. NoDir.start = 0
    BY DEF NoDir
  <2> QED
    BY <2>1, <2>3, <2>4, DirFields DEF Seen
<1> HIDE DEF u, v0
<1>5. Holds(v0, a) /\ Looks(v0, v0)
  BY <1>4, SeenHolds, SameLooks
<1>6. 0 \in T
  BY <1>2, <1>4, <1>5
<1>7. ASSUME NEW k \in Nat, k \in T PROVE k + 1 \in T
  <2> SUFFICES ASSUME k + 1 <= Len(path) PROVE Looks(v0, u(k + 1)) /\ P(k + 1)
    OBVIOUS
  <2>1. Looks(v0, u(k)) /\ P(k)
    BY <1>1, <1>7
  <2>2. Holds(u(k), a) /\ DirOK(u(k).dir)
    BY <1>5, <2>1, LooksOK, LooksHolds
  <2>3. k > 0 => path[k] \notin Dots
    BY <1>1 DEF Names
  <2>4. Looks(u(k), u(k + 1)) /\ Reached(u(k + 1), a, path[k + 1])
    <3>1. PICK y : y = u(k)
      OBVIOUS
    <3>2. \/ k = 0 /\ y.dir.start = 0 /\ y.result = "OK"
          \/ k > 0 /\ Reached(y, a, path[k]) /\ path[k] \notin Dots
      BY <2>1, <2>3, <3>1
    <3>3. Holds(y, a) /\ DirOK(y.dir)
      BY <2>2, <3>1
    <3>4. LET w == FollowPass(y, path, k + 1) IN Looks(y, w) /\ Reached(w, a, path[k + 1])
      BY <3>2, <3>3, FollowPassLooks
    <3> QED
      BY <1>2, <3>1, <3>4
  <2>5. Looks(v0, u(k + 1))
    BY <2>1, <2>4, LooksAgain
  <2> QED
    BY <2>4, <2>5
<1>8. Nat \subseteq T
  <2> HIDE DEF T
  <2> QED
    BY <1>6, <1>7, Walking!Upwards
<1>9. Looks(v0, u(Len(path))) /\ Reached(u(Len(path)), a, path[Len(path)])
  BY <1>1, <1>8
<1> QED
  BY <1>1, <1>4, <1>9, SeenAgain DEF Looks, v0

\* followPath as the methods of cFatFs call it: where it stops without misleading.
Arrived(v, a, name) ==
  ~v.dead /\ ~v.misled =>
    /\ Headed(v.dir, a) /\ Placed(v) /\ LongBefore(v.dir) /\ v.sector = v.dir.sector
    /\ Shown(v).kind \in { "file", "dir", "blank" }
    /\ v.found => Found(v, name)
    /\ ~v.found => Shown(v).kind = "blank"

LEMMA WalkLooks ==
  ASSUME NEW v, NEW a, Holds(v, a), a.loose \subseteq a.files, NEW path, Names(path)
  PROVE  LET w == Walk(v, path)
         IN  /\ Seen(v, w) /\ DirOK(w.dir) /\ w.result = "OK"
             /\ SameBut(v, w, LookFields \cup { "dir", "found", "misled" })
             /\ Arrived(w, a, path[Len(path)])
<1> DEFINE p == FollowPath(v, path)
           v0 == [ v EXCEPT !.dir = NoDir, !.result = "OK" ]
           name == path[Len(path)]
           x == p.result = "OK"
           y == p.result # "OK" /\ ~OnBlank(p)
           w == [ p EXCEPT !.result = "OK", !.found = x, !.misled = @ \/ y ]
<1>1. Walk(v, path) = w
  BY DEF Walk, With
<1>2. Looks(v0, p) /\ Seen(v, p) /\ Reached(p, a, name) /\ VolumeOK(p) /\ DirOK(p.dir) /\ VolumeOK(v)
  BY FollowPathLooks, LooksOK DEF Holds, Intact
<1>3. SameBut(v, p, LookFields \cup { "dir" })
  <2>1. SameBut(v, v0, { "dir", "result" })
    BY <1>2, Fields DEF SameBut
  <2>2. "result" \in LookFields
    BY DEF LookFields, WindowFields
  <2> QED
    BY <1>2, <2>1, <2>2 DEF Looks, SameBut
<1> HIDE DEF p
<1>4. /\ w = [ f \in DOMAIN w |-> w[f] ] /\ SameBut(p, w, { "result", "found", "misled" })
      /\ w.result = "OK" /\ w.found = x /\ w.misled = (p.misled \/ y)
  BY <1>2, Fields DEF SameBut, VolumeFields, TableFields
<1> HIDE DEF w
<1>5. /\ w.dir = p.dir /\ w.dead = p.dead /\ w.disk = p.disk /\ w.sector = p.sector /\ w.buffer = p.buffer
      /\ w.dirty = p.dirty
  BY <1>2, <1>4, Fields DEF SameBut, VolumeFields, TableFields
<1>6. Logical(w) = Logical(p)
  BY <1>5 DEF Logical
<1>7. Seen(v, w)
  <2>1. SameBut(p, w, OuterFields)
    BY <1>4 DEF SameBut, OuterFields
  <2>2. Seen(p, w)
    BY <1>2, <1>4, <2>1, OuterSeen
  <2> QED
    BY <1>2, <2>2, SeenAgain
<1>8. SameBut(v, w, LookFields \cup { "dir", "found", "misled" })
  BY <1>3, <1>4 DEF SameBut, LookFields, WindowFields
<1>9. Arrived(w, a, name)
  <2> SUFFICES ASSUME ~w.dead, ~w.misled
               PROVE  /\ Headed(w.dir, a) /\ Placed(w) /\ LongBefore(w.dir) /\ w.sector = w.dir.sector
                      /\ Shown(w).kind \in { "file", "dir", "blank" }
                      /\ w.found => Found(w, name)
                      /\ ~w.found => Shown(w).kind = "blank"
    BY DEF Arrived
  <2>1. ~p.dead /\ (p.result # "OK" => OnBlank(p))
    BY <1>4, <1>5
  <2>2. /\ Headed(p.dir, a) /\ Placed(p) /\ LongBefore(p.dir)
        /\ p.result = "OK" => Found(p, name)
        /\ p.result # "OK" => OnBlank(p)
    BY <1>2, <2>1 DEF Reached
  <2>3. Placed(w) /\ Shown(w) = Shown(p)
    BY <1>5, <1>6, <2>2, PlacedStays DEF Shown
  <2> QED
    BY <1>4, <1>5, <2>2, <2>3 DEF Found, OnBlank
<1> QED
  BY <1>1, <1>4, <1>5, <1>2, <1>7, <1>8, <1>9

-----------------------------------------------------------------------------
(* Methods that respect the claims. *)

MethodFields == ChainFields \cup { "dir", "unclean" }
Works(v, a, w) == Holds(w, a) /\ DirOK(w.dir) /\ SameBut(v, w, MethodFields)

LEMMA WorksAgain ==
  ASSUME NEW v, NEW a, NEW u, Works(v, a, u), NEW w, Works(u, a, w)
  PROVE  Works(v, a, w)
<1>1. SameBut(v, w, MethodFields)
  BY DEF Works, SameBut
<1> QED
  BY <1>1 DEF Works

LEMMA WorksOK ==
  ASSUME NEW v, NEW a, NEW w, Works(v, a, w)
  PROVE  Holds(w, a) /\ VolumeOK(w) /\ DirOK(w.dir)
  BY DEF Works, Holds, Intact

LEMMA LooksWorks ==
  ASSUME NEW v, NEW a, Holds(v, a), NEW w, Looks(v, w)
  PROVE  Works(v, a, w)
<1>1. SameBut(v, w, MethodFields)
  BY DEF Looks, SameBut, MethodFields, LookFields, ChainFields
<1> QED
  BY <1>1, LooksHolds DEF Works, Looks

LEMMA FailureWorks ==
  ASSUME NEW v, NEW a, Holds(v, a), DirOK(v.dir)
  PROVE  Works(v, a, v) /\ \A r : Works(v, a, Fails(v, r))
<1>1. VolumeOK(v)
  BY DEF Holds, Intact
<1> QED
  BY <1>1, SameLooks, FailureLooks, LooksWorks

\* What the chains do leaves the cDirectory.
LEMMA ChainsWork ==
  ASSUME NEW v, NEW a, Holds(v, a), DirOK(v.dir), NEW w, Holds(w, a), SameBut(v, w, ChainFields \cup { "unclean" })
  PROVE  Works(v, a, w) /\ w.dir = v.dir
<1>1. w.dir = v.dir
  BY Fields DEF Holds, Intact, SameBut, VolumeFields, TableFields, ChainFields, WindowFields
<1>2. SameBut(v, w, MethodFields)
  BY DEF SameBut, MethodFields
<1> QED
  BY <1>1, <1>2 DEF Works

LEMMA SyncFsWorks ==
  ASSUME NEW v, NEW a, Holds(v, a), DirOK(v.dir)
  PROVE  Works(v, a, SyncFs(v))
<1> DEFINE w == SyncFs(v)
<1>1. Holds(w, a) /\ VolumeOK(v)
  BY SyncFsHolds DEF Holds, Intact
<1>2. SameBut(v, w, ChainFields)
  BY <1>1, SyncFsStays
<1> HIDE DEF w
<1>3. SameBut(v, w, ChainFields \cup { "unclean" })
  BY <1>2 DEF SameBut
<1> QED
  BY <1>1, <1>3, ChainsWork DEF w

LEMMA MarkWorks ==
  ASSUME NEW v, NEW a, Holds(v, a), DirOK(v.dir), NEW e, EntryOK(e),
         ~v.dead /\ v.sector \in DataSectors /\ v.dir.slot \in DOMAIN v.buffer.entries =>
           Fits(e, << v.sector, v.dir.slot >>, a)
  PROVE  Works(v, a, Mark(v, e)) /\ Mark(v, e).dir = v.dir /\ Mark(v, e).result = v.result
<1> DEFINE w == Mark(v, e)
<1>1. Holds(w, a) /\ VolumeOK(v)
  BY MarkHolds DEF Holds, Intact
<1>2. w.dir = v.dir /\ w.result = v.result
  BY <1>1, MarkStays
<1>3. DOMAIN w = DOMAIN v /\ \A f \in DOMAIN v \ { "buffer", "dirty" } : w[f] = v[f]
  BY <1>1, Fields DEF Mark
<1> HIDE DEF w
<1>4. SameBut(v, w, MethodFields)
  BY <1>3 DEF SameBut, MethodFields, ChainFields, WindowFields
<1> QED
  BY <1>1, <1>2, <1>4 DEF Works, w

\* An entry that names nothing, or the one at hand with another attribute.
LEMMA PlainFits ==
  /\ \A p, a : Fits(Deleted, p, a) /\ Fits(Entry("label", "label", 0, 0), p, a)
  /\ \A e, p, a, b : EntryOK(e) /\ Fits(e, p, a) => Fits([ e EXCEPT !.readOnly = b ], p, a)
<1>1. \A p, a : Fits(Deleted, p, a) /\ Fits(Entry("label", "label", 0, 0), p, a)
  BY DEF Fits, NamesChain, Deleted, Entry
<1>2. ASSUME NEW e, NEW p, NEW a, NEW b, EntryOK(e), Fits(e, p, a)
      PROVE  Fits([ e EXCEPT !.readOnly = b ], p, a)
  <2> DEFINE f == [ e EXCEPT !.readOnly = b ]
  <2>1. f.start = e.start /\ f.kind = e.kind /\ f.name = e.name
    BY <1>2 DEF EntryOK, HasFields
  <2> HIDE DEF f
  <2>2. Fits(f, p, a)
    BY <1>2, <2>1 DEF Fits, NamesChain
  <2> QED
    BY <2>2 DEF f
<1> QED
  BY <1>1, <1>2

LEMMA ShownFits ==
  ASSUME NEW v, NEW a, Holds(v, a), ~v.dead, v.sector \in DataSectors, v.dir.slot \in DOMAIN v.buffer.entries
  PROVE  Fits(Shown(v), << v.sector, v.dir.slot >>, a)
  BY DEF Holds, Intact, WindowFits, Shown

\* next (2331).
LEMMA NextWorks ==
  ASSUME NEW v, NEW a, Holds(v, a), DirOK(v.dir)
  PROVE  Works(v, a, NextEntry(v, TRUE)) /\ Works(v, a, NextEntry(v, FALSE))
<1> DEFINE i == v.dir.index + 1
           x == [ v EXCEPT !.dir.sector = @ + 1 ]
           g == GetFat(x, v.dir.cluster)
           s == Stretch(g)
           w == NextEntry(v, TRUE)
<1>1. i \in Nat /\ VolumeOK(v)
  BY DEF DirOK, Holds, Intact
<1>2. \/ w = Fails(v, "NO_FILE")
      \/ w = HereAt(v, i)
      \/ w = HereAt(x, i)
      \/ w = HereAt(Entering(g), i)
      \/ \E r \in { "INT_ERR", "DISK_ERR" } : w = Fails(g, r)
      \/ w = s
      \/ w = HereAt(Entering(s), i)
  BY DEF NextEntry, With, Then, HereAt, Entering
<1>3. Looks(v, x)
  <2> DEFINE e == v.dir.sector + 1
             d == [ v.dir EXCEPT !.sector = e ]
  <2>1. x = [ v EXCEPT !.dir = d ]
    BY <1>1, Fields DEF VolumeFields
  <2> HIDE DEF e
  <2>2. DirOK(d)
    BY DirFields DEF DirOK, HasFields
  <2> HIDE DEF d, x
  <2> QED
    BY <1>1, <2>1, <2>2, DirAway
<1> HIDE DEF x, w, i
<1>4. Works(v, a, x)
  BY <1>3, LooksWorks
<1>5. Works(v, a, g)
  <2>1. Holds(x, a) /\ VolumeOK(x) /\ DirOK(x.dir)
    BY <1>4, WorksOK
  <2> HIDE DEF g
  <2>2. Looks(x, g)
    BY <2>1, FatLooks DEF g
  <2> QED
    BY <1>4, <2>1, <2>2, LooksWorks, WorksAgain
<1> HIDE DEF g
<1>6. Works(v, a, s)
  <2>1. Holds(g, a) /\ DirOK(g.dir)
    BY <1>5, WorksOK
  <2>2. Holds(s, a) /\ VolumeOK(s) /\ SameBut(g, s, ChainFields \cup { "unclean" })
    BY <2>1, StretchHolds
  <2> HIDE DEF s
  <2> QED
    BY <1>5, <2>1, <2>2, ChainsWork, WorksAgain
<1> HIDE DEF s
<1>7. ASSUME NEW u, Works(v, a, u)
      PROVE  Works(v, a, HereAt(u, i)) /\ Works(v, a, HereAt(Entering(u), i)) /\ \A r : Works(v, a, Fails(u, r))
  <2>1. Holds(u, a) /\ VolumeOK(u) /\ DirOK(u.dir)
    BY <1>7, WorksOK
  <2>2. Looks(u, HereAt(u, i)) /\ Looks(u, HereAt(Entering(u), i)) /\ \A r : Looks(u, Fails(u, r))
    BY <1>1, <2>1, HereLooks, EnterLooks, FailureLooks
  <2> QED
    BY <1>7, <2>1, <2>2, LooksWorks, WorksAgain
<1>8. Works(v, a, v)
  BY FailureWorks
<1>9. Works(v, a, w)
  BY <1>2, <1>4, <1>5, <1>6, <1>7, <1>8
<1>10. Works(v, a, NextEntry(v, FALSE))
  BY <1>1, NextLooks, LooksWorks
<1> QED
  BY <1>9, <1>10 DEF w

\* A pass of allocate (2484).
LEMMA AllocatePassWorks ==
  ASSUME NEW v, NEW a, Holds(v, a), DirOK(v.dir), NEW p, NEW k
  PROVE  Works(v, a, AllocatePass(v, p, k))
<1> DEFINE m == MoveWindow(v, v.dir.sector)
           n == NextEntry(m, TRUE)
<1>1. AllocatePass(v, p, k) \in { v, m, n }
  BY DEF AllocatePass, Then
<1>2. Works(v, a, m)
  BY MoveLooks, LooksWorks DEF Holds, Intact
<1> HIDE DEF m
<1>3. Works(m, a, n)
  BY <1>2, WorksOK, NextWorks
<1> HIDE DEF n
<1> QED
  BY <1>1, <1>2, <1>3, WorksAgain, FailureWorks

\* allocate (2478).
LEMMA AllocateWorks ==
  ASSUME NEW v, NEW a, Holds(v, a), DirOK(v.dir)
  PROVE  Works(v, a, Allocate(v))
<1> DEFINE s == SetIndex(v, 0)
           u(k) == Allocating!Passes(s, 0)[k]
           T == { k \in Nat : Works(v, a, u(k)) }
           w == IF s.result = "OK" THEN u(MaxEntries) ELSE s
<1>1. Allocate(v) \in { w, Fails(w, "DENIED") }
  BY DEF Allocate, Then, ButNoFile
<1>2. Works(v, a, s)
  BY SetIndexLooks, LooksWorks DEF Holds, Intact
<1> HIDE DEF s
<1>3. u(0) = s /\ \A k \in Nat : u(k + 1) = AllocatePass(u(k), 0, k + 1)
  BY Allocating!PassByPass
<1> HIDE DEF u
<1>4. 0 \in T
  BY <1>2, <1>3
<1>5. ASSUME NEW k \in Nat, k \in T PROVE k + 1 \in T
  <2>1. Works(v, a, u(k))
    BY <1>5
  <2>2. Works(u(k), a, u(k + 1))
    BY <1>3, <2>1, WorksOK, AllocatePassWorks
  <2> QED
    BY <2>1, <2>2, WorksAgain
<1>6. Nat \subseteq T
  <2> HIDE DEF T
  <2> QED
    BY <1>4, <1>5, Allocating!Upwards
<1>7. Works(v, a, w)
  BY <1>2, <1>6, EntryNumbers
<1> HIDE DEF w
<1>8. Works(v, a, Fails(w, "DENIED"))
  BY <1>7, WorksOK, FailureWorks, WorksAgain
<1> QED
  BY <1>1, <1>7, <1>8

\* The look into the sub-directory that unlink makes (942).
LEMMA IfEmptyLooks ==
  ASSUME NEW v, VolumeOK(v), DirOK(v.dir), NEW e
  PROVE  Looks(v, IfEmpty(v, e)) /\ IfEmpty(v, e).dir = v.dir
<1> DEFINE start == e.start
           v0 == [ v EXCEPT !.dir.start = start ]
           s == SetIndex(v0, 2)
           r == ReadEntry(s, FALSE)
           w == IF s.result = "OK" THEN r ELSE s
           b == [ w EXCEPT !.dir = v.dir ]
<1>1. IfEmpty(v, e) \in { v, TimesOut(b) }
  BY DEF IfEmpty, Then
<1> HIDE DEF start
<1>2. Looks(v, v0) /\ VolumeOK(v0) /\ DirOK(v0.dir)
  <2> DEFINE d == [ v.dir EXCEPT !.start = start ]
  <2>1. v0 = [ v EXCEPT !.dir = d ]
    BY Fields DEF VolumeFields
  <2>2. DirOK(d)
    BY DirFields DEF DirOK, HasFields
  <2> HIDE DEF d, v0
  <2> QED
    BY <2>1, <2>2, DirAway, LooksOK
<1> HIDE DEF v0
<1>3. Looks(v, s) /\ VolumeOK(s) /\ DirOK(s.dir)
  BY <1>2, SetIndexLooks, LooksAgain, LooksOK
<1> HIDE DEF s
<1>4. Looks(v, r)
  BY <1>3, ReadEntryLooks, LooksAgain
<1> HIDE DEF r
<1>5. Looks(v, w) /\ VolumeOK(w) /\ DirOK(w.dir)
  BY <1>3, <1>4, LooksOK
<1> HIDE DEF w
<1>6. Looks(w, b) /\ b.dir = v.dir
  BY <1>5, DirAway
<1>7. Looks(v, b) /\ VolumeOK(b) /\ DirOK(b.dir)
  BY <1>5, <1>6, LooksAgain, LooksOK
<1> HIDE DEF b
<1>8. Looks(v, TimesOut(b)) /\ TimesOut(b).dir = v.dir
  BY <1>6, <1>7, FailureLooks, LooksAgain DEF TimesOut
<1> QED
  BY <1>1, <1>8, SameLooks

-----------------------------------------------------------------------------
(* Removing an entry. *)

\* What is written through the slot is what the window shows there; no link is touched.
LEMMA MarkShows ==
  ASSUME NEW v, VolumeOK(v), DirOK(v.dir), NEW e, EntryOK(e)
  PROVE  LET w == Mark(v, e)
         IN  /\ w.sector = v.sector /\ w.dirty /\ w.dead = v.dead /\ w.dir = v.dir /\ w.result = v.result
             /\ w.dir.slot \in DOMAIN w.buffer.entries => w.buffer.entries[w.dir.slot] = e
             /\ v.sector \in DataSectors => LinksOf(Logical(w)) = LinksOf(Logical(v))
<1> DEFINE i == v.dir.slot
           w == Mark(v, e)
<1>1. VolumeOK(w) /\ w.dir = v.dir /\ w.result = v.result
  BY MarkStays
<1>2. w = IF i \in DOMAIN v.buffer.entries THEN [ v EXCEPT !.buffer.entries[i] = e, !.dirty = TRUE ]
          ELSE [ v EXCEPT !.dirty = TRUE ]
  BY DEF Mark
<1> HIDE DEF w
<1>3. w.disk = v.disk /\ w.dead = v.dead /\ w.sector = v.sector /\ w.dirty = TRUE
  BY <1>2, Fields DEF TableFields
<1>4. i \in DOMAIN w.buffer.entries => w.buffer.entries[i] = e
  <2>1. Belongs(v.sector, v.buffer) /\ "buffer" \in DOMAIN v /\ "dirty" \in DOMAIN v
    BY Fields DEF VolumeOK, TableFields
  <2>2. CASE i \notin DOMAIN v.buffer.entries
    <3>1. w.buffer = v.buffer
      BY <1>2, <2>1, <2>2
    <3> QED
      BY <2>2, <3>1
  <2>3. CASE i \in DOMAIN v.buffer.entries
    <3> DEFINE es == [ v.buffer.entries EXCEPT ![i] = e ]
               b == [ v.buffer EXCEPT !.entries = es ]
    <3>1. w.buffer = b
      BY <1>2, <2>1, <2>3 DEF Belongs, HasFields
    <3>2. b.entries = es
      BY <2>1 DEF Belongs, HasFields
    <3>3. es[i] = e
      BY <2>1, <2>3 DEF Belongs
    <3> HIDE DEF b, es
    <3> QED
      BY <3>1, <3>2, <3>3
  <2> QED
    BY <2>2, <2>3
<1>5. ASSUME v.sector \in DataSectors PROVE LinksOf(Logical(w)) = LinksOf(Logical(v))
  <2>1. \A t \in FatSectors : t \in Sectors /\ t # v.sector
    BY <1>5, SectorPlaces
  <2>2. \A t \in FatSectors : Logical(w)[t] = Logical(v)[t]
    BY <1>1, <1>3, <2>1, LogicalAt
  <2>3. \A c \in Clusters : LinkOn(Logical(w), c) = LinkOn(Logical(v), c)
    BY <2>2, LinkPlace DEF LinkOn
  <2> QED
    BY <2>3 DEF LinksOf
<1> QED
  BY <1>1, <1>3, <1>4, <1>5 DEF w

\* A pass of remove (2659) respects the claims.
LEMMA RemovePassWorks ==
  ASSUME NEW v, NEW a, Holds(v, a), DirOK(v.dir), NEW i, NEW k
  PROVE  Works(v, a, RemovePass(v, i, k)) /\ (v.dead => RemovePass(v, i, k).dead)
<1> DEFINE s == MoveWindow(v, v.dir.sector)
           m == Mark(s, Deleted)
           n == NextEntry(m, FALSE)
<1>1. RemovePass(v, i, k) \in { v, s, m, n }
  BY DEF RemovePass, Then
<1>2. Works(v, a, s) /\ (v.dead => s.dead)
  BY MoveLooks, LooksWorks DEF Holds, Intact, Looks, Seen
<1> HIDE DEF s
<1>3. Works(v, a, m) /\ (v.dead => m.dead)
  <2>1. Holds(s, a) /\ VolumeOK(s) /\ DirOK(s.dir) /\ EntryOK(Deleted)
    BY <1>2, WorksOK, SimpleEntries
  <2>2. \A p : Fits(Deleted, p, a)
    BY PlainFits
  <2> HIDE DEF m
  <2>3. Works(s, a, m)
    BY <2>1, <2>2, MarkWorks DEF m
  <2>4. m.dead = s.dead
    BY <2>1, MarkShows DEF m
  <2> QED
    BY <1>2, <2>3, <2>4, WorksAgain
<1> HIDE DEF m
<1>4. Works(v, a, n) /\ (v.dead => n.dead)
  <2>1. VolumeOK(m) /\ DirOK(m.dir) /\ Holds(m, a)
    BY <1>3, WorksOK
  <2>2. m.dead => n.dead
    BY <2>1, NextLooks DEF Looks, Seen
  <2> HIDE DEF n
  <2>3. Works(m, a, n)
    BY <2>1, NextWorks DEF n
  <2> QED
    BY <1>3, <2>2, <2>3, WorksAgain
<1> HIDE DEF n
<1> QED
  BY <1>1, <1>2, <1>3, <1>4, FailureWorks

\* The entry at hand is erased in the window, which is yet to be written.
Erased(v) ==
  /\ v.sector = v.dir.sector /\ v.dirty
  /\ v.dir.slot \in DOMAIN v.buffer.entries => v.buffer.entries[v.dir.slot] = Deleted

\* What remove knows after k passes from entry j to entry i of the directory that starts in
\* s, in a table with the links L.
Erasing(v, L, s, i, j, k) ==
  ~v.dead /\ v.result = "OK" =>
    /\ LinksOf(Logical(v)) = L /\ v.dir.start = s /\ Placed(v)
    /\ (v.dir.index = j + k /\ j + k <= i) \/ (v.dir.index = i /\ Erased(v))

LEMMA RemovePassErases ==
  ASSUME NEW v, VolumeOK(v), DirOK(v.dir), NEW L, NEW s, NEW i \in Nat, NEW j \in Nat, NEW k \in Nat,
         Erasing(v, L, s, i, j, k)
  PROVE  Erasing(RemovePass(v, i, k + 1), L, s, i, j, k + 1)
<1> DEFINE x == MoveWindow(v, v.dir.sector)
           m == Mark(x, Deleted)
           n == NextEntry(m, FALSE)
           w == RemovePass(v, i, k + 1)
<1>1. w = IF v.result # "OK" THEN v ELSE IF x.result # "OK" THEN x ELSE IF m.dir.index >= i THEN m ELSE n
  BY DEF RemovePass, Then
<1>2. /\ Looks(v, x) /\ VolumeOK(x) /\ DirOK(x.dir) /\ x.dir = v.dir
      /\ x.result = "OK" => x.sector = v.dir.sector
  BY MoveLooks, LooksOK
<1> HIDE DEF x
<1>3. EntryOK(Deleted)
  BY SimpleEntries
<1>4. /\ VolumeOK(m) /\ DirOK(m.dir) /\ m.sector = x.sector /\ m.dirty /\ m.dead = x.dead /\ m.dir = x.dir
      /\ m.result = x.result
      /\ m.dir.slot \in DOMAIN m.buffer.entries => m.buffer.entries[m.dir.slot] = Deleted
      /\ x.sector \in DataSectors => LinksOf(Logical(m)) = LinksOf(Logical(x))
  <2>1. VolumeOK(m) /\ m.dir = x.dir
    BY <1>2, <1>3, MarkStays
  <2> QED
    BY <1>2, <1>3, <2>1, MarkShows
<1> HIDE DEF m
<1>5. /\ Looks(m, n) /\ n.dir.start = m.dir.start
      /\ Placed(m) /\ ~n.dead /\ n.result = "OK" => Placed(n) /\ n.dir.index = m.dir.index + 1
  BY <1>4, NextLooks
<1> HIDE DEF n, w
<1>6. SUFFICES ASSUME ~w.dead, w.result = "OK"
               PROVE  /\ LinksOf(Logical(w)) = L /\ w.dir.start = s /\ Placed(w)
                      /\ (w.dir.index = j + (k + 1) /\ j + (k + 1) <= i) \/ (w.dir.index = i /\ Erased(w))
  BY DEF Erasing, w
<1>7. v.result = "OK" /\ x.result = "OK" /\ w = (IF m.dir.index >= i THEN m ELSE n)
  BY <1>1, <1>6
<1>8. ~m.dead /\ ~x.dead /\ ~v.dead /\ Logical(x) = Logical(v)
  <2>1. ~m.dead
    BY <1>4, <1>5, <1>6, <1>7 DEF Looks, Seen, VolumeOK, IsVolume
  <2> QED
    BY <1>2, <1>4, <2>1 DEF Looks, Seen, VolumeOK, IsVolume
<1>9. /\ LinksOf(Logical(v)) = L /\ v.dir.start = s /\ Placed(v)
      /\ (v.dir.index = j + k /\ j + k <= i) \/ (v.dir.index = i /\ Erased(v))
  BY <1>7, <1>8 DEF Erasing
<1>10. LinksOf(Logical(m)) = L /\ Placed(m) /\ m.dir = v.dir /\ m.sector = m.dir.sector
  <2>1. Placed(x)
    BY <1>2, <1>8, <1>9, PlacedStays
  <2>2. x.sector = x.dir.sector /\ x.sector \in DataSectors
    BY <1>2, <1>7, <2>1, PlacedInData
  <2>3. LinksOf(Logical(m)) = LinksOf(Logical(x))
    BY <1>4, <2>2
  <2>4. Placed(m)
    BY <1>4, <2>1, <2>3 DEF Placed
  <2> QED
    BY <1>2, <1>4, <1>8, <1>9, <2>2, <2>3, <2>4
<1>11. CASE m.dir.index >= i
  <2>1. m.dir.index = i
    BY <1>9, <1>10, <1>11
  <2>2. Erased(m)
    BY <1>4, <1>10 DEF Erased
  <2> QED
    BY <1>7, <1>9, <1>10, <1>11, <2>1, <2>2
<1>12. CASE ~(m.dir.index >= i)
  <2>1. w = n /\ Placed(n) /\ n.dir.index = m.dir.index + 1 /\ n.dir.start = m.dir.start
    BY <1>5, <1>6, <1>7, <1>10, <1>12
  <2>2. m.dir.index = j + k /\ j + k <= i
    BY <1>9, <1>10, <1>12
  <2>3. Logical(n) = Logical(m)
    BY <1>5, <1>6, <2>1 DEF Looks, Seen
  <2>4. n.dir.index = j + (k + 1) /\ j + (k + 1) <= i
    BY <1>12, <2>1, <2>2
  <2> QED
    BY <1>9, <1>10, <2>1, <2>3, <2>4
<1> QED
  BY <1>11, <1>12

\* remove (2645) respects the claims, and if it succeeds the entry is erased in the window.
LEMMA RemoveWorks ==
  ASSUME NEW v, NEW a, Holds(v, a), DirOK(v.dir)
  PROVE  LET w == Remove(v)
         IN  /\ Works(v, a, w) /\ (v.dead => w.dead)
             /\ ~v.dead /\ Headed(v.dir, a) /\ Placed(v) /\ LongBefore(v.dir) /\ ~w.dead /\ w.result = "OK" =>
                  /\ w.sector = v.dir.sector /\ w.dirty
                  /\ v.dir.slot \in DOMAIN w.buffer.entries => w.buffer.entries[v.dir.slot] = Deleted
<1> DEFINE j == IF v.dir.long = Ones THEN v.dir.index ELSE v.dir.long
           x == SetIndex(v, j)
           i == v.dir.index
           L == LinksOf(Logical(v))
           s == v.dir.start
           good == ~v.dead /\ Headed(v.dir, a) /\ Placed(v) /\ LongBefore(v.dir)
           u(k) == Removing!Passes(x, i)[k]
           T == { k \in Nat : Works(v, a, u(k)) /\ (v.dead => u(k).dead) /\ (good => Erasing(u(k), L, s, i, j, k)) }
           w == IF x.result = "OK" THEN u(MaxEntries) ELSE x
           b == ButNoFile(w, "INT_ERR")
<1>1. Remove(v) = b /\ VolumeOK(v)
  BY DEF Remove, Then, Holds, Intact
<1>2. i \in Nat /\ j \in Nat
  BY DEF DirOK
<1>3. LongBefore(v.dir) => j <= i
  BY <1>2 DEF LongBefore
<1> HIDE DEF j
<1>4. /\ Looks(v, x) /\ x.dir.start = s /\ x.dir.index = j
      /\ x.result = "OK" /\ ~x.dead => Placed(x)
  BY <1>1, <1>2, SetIndexLooks
<1> HIDE DEF x
<1>5. Works(v, a, x) /\ (v.dead => x.dead)
  BY <1>4, LooksWorks DEF Looks, Seen
<1>6. ~x.dead => Logical(x) = Logical(v)
  BY <1>4 DEF Looks, Seen
<1>7. u(0) = x /\ \A k \in Nat : u(k + 1) = RemovePass(u(k), i, k + 1)
  BY Removing!PassByPass
<1> HIDE DEF u
<1>8. 0 \in T
  <2>1. good => Erasing(x, L, s, i, j, 0)
    <3> HIDE DEF L, s, i
    <3>1. LongBefore(v.dir) /\ ~x.dead /\ x.result = "OK" =>
            /\ LinksOf(Logical(x)) = L /\ x.dir.start = s /\ Placed(x)
            /\ x.dir.index = j + 0 /\ j + 0 <= i
      BY <1>2, <1>3, <1>4, <1>6 DEF L
    <3> QED
      BY <3>1 DEF Erasing
  <2> HIDE DEF good
  <2> QED
    BY <1>5, <1>7, <2>1
<1>9. ASSUME NEW k \in Nat, k \in T PROVE k + 1 \in T
  <2> HIDE DEF good, L, s, i
  <2>1. Works(v, a, u(k)) /\ Holds(u(k), a) /\ VolumeOK(u(k)) /\ DirOK(u(k).dir)
    BY <1>9, WorksOK
  <2>2. Works(u(k), a, u(k + 1)) /\ (u(k).dead => u(k + 1).dead)
    BY <1>7, <2>1, RemovePassWorks
  <2>3. good => Erasing(u(k + 1), L, s, i, j, k + 1)
    BY <1>2, <1>7, <1>9, <2>1, RemovePassErases
  <2>4. Works(v, a, u(k + 1))
    BY <2>1, <2>2, WorksAgain
  <2> QED
    BY <1>9, <2>2, <2>3, <2>4
<1>10. Nat \subseteq T
  <2> HIDE DEF T
  <2> QED
    BY <1>8, <1>9, Removing!Upwards
<1>11. MaxEntries \in T /\ MaxEntries \in Nat
  BY <1>10, EntryNumbers
<1>12. Works(v, a, w) /\ (v.dead => w.dead)
  BY <1>5, <1>11
<1>13. Works(v, a, b) /\ (v.dead => b.dead)
  <2>1. b \in { w, Fails(w, "INT_ERR") }
    BY DEF ButNoFile
  <2> HIDE DEF w, b
  <2>2. VolumeOK(w) /\ DirOK(w.dir)
    BY <1>12, WorksOK
  <2> QED
    BY <1>12, <2>1, <2>2, WorksOK, FailureWorks, FailureLooks, WorksAgain
<1>14. ASSUME good, ~b.dead, b.result = "OK"
       PROVE  /\ b.sector = v.dir.sector /\ b.dirty
              /\ v.dir.slot \in DOMAIN b.buffer.entries => b.buffer.entries[v.dir.slot] = Deleted
  <2>1. b = w /\ w.result = "OK"
    <3>1. b = IF w.result = "NO_FILE" THEN Fails(w, "INT_ERR") ELSE w
      BY DEF ButNoFile
    <3>2. Fails(w, "INT_ERR").result # "OK"
      <4>1. VolumeOK(w) /\ DirOK(w.dir)
        BY <1>12, WorksOK
      <4> HIDE DEF w
      <4> QED
        BY <4>1, FailureLooks
    <3> HIDE DEF w, b
    <3> QED
      BY <1>14, <3>1, <3>2
  <2>2. b = u(MaxEntries)
    BY <1>14, <2>1
  <2>3. Erasing(b, L, s, i, j, MaxEntries)
    BY <1>11, <1>14, <2>2
  <2>4. i + 1 < MaxEntries
    BY <1>14, EntryBound
  <2> HIDE DEF b, w
  <2>5. LinksOf(Logical(b)) = L /\ b.dir.start = s /\ Placed(b) /\ b.dir.index = i /\ Erased(b)
    <3> HIDE DEF L, s, i
    <3>1. ~(j + MaxEntries <= i)
      BY <1>2, <1>11, <2>4
    <3> QED
      BY <1>14, <2>3, <3>1 DEF Erasing
  <2>6. b.dir.cluster = v.dir.cluster
    <3>1. At(L, First(v.dir), i \div EntriesPerCluster, v.dir.cluster)
      BY <1>14 DEF Placed
    <3>2. At(L, First(v.dir), i \div EntriesPerCluster, b.dir.cluster)
      BY <2>5 DEF Placed, First
    <3>3. Chained(L) /\ Straight(L)
      BY <1>14, HeadedFirst
    <3> HIDE DEF L, i
    <3> QED
      BY <3>1, <3>2, <3>3, AtOne
  <2>7. b.dir.sector = v.dir.sector /\ b.dir.slot = v.dir.slot
    BY <1>14, <2>5, <2>6 DEF Placed
  <2> QED
    BY <2>5, <2>7 DEF Erased
<1> QED
  BY <1>1, <1>13, <1>14

-----------------------------------------------------------------------------
(* The place of an entry, and the lock of an object. *)

\* Entry i of its directory is in cluster c.
PlaceAt(c, i) == << ClusterToSector(c) + SectorInCluster(i), SlotOf(i) >>

LEMMA SectorOnce ==
  ASSUME NEW c \in Clusters, NEW d \in Clusters, NEW k \in 0 .. SectorsPerCluster - 1,
         NEW l \in 0 .. SectorsPerCluster - 1, ClusterToSector(c) + k = ClusterToSector(d) + l
  PROVE  c = d /\ k = l
<1> DEFINE S == SectorsPerCluster
           x == c - 2
           y == d - 2
           B == DataBase
<1>1. S \in Nat \ {0} /\ x \in Nat /\ y \in Nat /\ B \in Nat
  BY TableAssumption, SectorPlaces DEF Clusters
<1>2. x * S + B + k = y * S + B + l
  BY DEF ClusterToSector
<1>3. c = x + 2 /\ d = y + 2
  BY TableAssumption DEF Clusters
<1>4. S * x = x * S /\ S * y = y * S /\ x * S \in Nat /\ y * S \in Nat
  <2> HIDE DEF S, x, y
  <2> QED
    BY <1>1
<1> DEFINE X == x * S
           Y == y * S
<1>5. X + k = Y + l
  <2> HIDE DEF X, Y, B, S, x, y
  <2>1. X \in Nat /\ Y \in Nat
    BY <1>4 DEF X, Y
  <2>2. X + B + k = Y + B + l
    BY <1>2 DEF X, Y
  <2>3. k \in Nat /\ l \in Nat
    BY <1>1 DEF S
  <2> QED
    BY <1>1, <2>1, <2>2, <2>3
<1>6. k \in 0 .. S - 1 /\ l \in 0 .. S - 1
  OBVIOUS
<1>7. x = y /\ k = l
  <2> HIDE DEF S, x, y
  <2>1. S * x + k = S * y + l
    BY <1>4, <1>5
  <2>2. (S * x + k) \div S = x /\ (S * y + l) \div S = y
    <3> HIDE DEF X, Y
    <3> QED
      BY <1>1, <1>6, DividesOnce
  <2>3. x = y
    BY <2>1, <2>2
  <2>4. k \in Nat /\ l \in Nat
    BY <1>1, <1>6
  <2>5. k = l
    <3> HIDE DEF X, Y
    <3>1. X \in Nat /\ Y = X
      BY <1>4, <2>3 DEF X, Y
    <3> QED
      BY <1>5, <2>4, <3>1
  <2> QED
    BY <2>3, <2>5
<1> QED
  BY <1>3, <1>7

\* An entry has one number in its directory.
LEMMA EntryOnce ==
  ASSUME NEW i \in Nat, NEW j \in Nat, i \div EntriesPerCluster = j \div EntriesPerCluster,
         SectorInCluster(i) = SectorInCluster(j), SlotOf(i) = SlotOf(j)
  PROVE  i = j
<1>1. PICK a \in Nat, q \in 0 .. SectorsPerCluster - 1, m \in 0 .. EntriesPerSector - 1 :
        /\ i = EntriesPerCluster * a + (EntriesPerSector * q + m)
        /\ i \div EntriesPerCluster = a /\ SectorInCluster(i) = q /\ SlotOf(i) = m + 1
  BY EntryParts
<1>2. PICK b \in Nat, r \in 0 .. SectorsPerCluster - 1, n \in 0 .. EntriesPerSector - 1 :
        /\ j = EntriesPerCluster * b + (EntriesPerSector * r + n)
        /\ j \div EntriesPerCluster = b /\ SectorInCluster(j) = r /\ SlotOf(j) = n + 1
  BY EntryParts
<1>3. a = b /\ q = r /\ m + 1 = n + 1
  BY <1>1, <1>2
<1>4. m = n
  BY <1>3, EntriesAssumption
<1> QED
  BY <1>1, <1>2, <1>3, <1>4

\* The entries of the open files at the places in a.files have their keys in the table of
\* open files.
Locked(v, a) ==
  \A q \in a.files : \E i \in Nat, c \in Clusters :
    /\ << 0, i >> \in DOMAIN v.locks /\ At(a.links, RootCluster, i \div EntriesPerCluster, c)
    /\ q = PlaceAt(c, i)

LEMMA AtLogical ==
  ASSUME NEW v, NEW a, Holds(v, a), ~v.dead, NEW s, NEW n, NEW c, At(a.links, s, n, c)
  PROVE  At(LinksOf(Logical(v)), s, n, c)
<1>1. \A l \in a.links : /\ l[1] \in Clusters /\ l[2] \in Clusters /\ LinkOn(Logical(v), l[1]) = l[2]
  BY DEF Holds, Intact, Rooted, Respects, LinksKept
<1>2. ASSUME NEW l \in a.links PROVE \E m \in LinksOf(Logical(v)) : m[1] = l[1] /\ m[2] = l[2]
  <2> DEFINE m == << l[1], LinkOn(Logical(v), l[1]) >>
  <2>1. m \in LinksOf(Logical(v)) /\ m[1] = l[1] /\ m[2] = l[2]
    BY <1>1 DEF LinksOf
  <2> QED
    BY <2>1
<1> QED
  BY <1>2, AtMore

\* Who comes to an entry where nobody has the object open comes to no open file's place.
LEMMA FreeElsewhere ==
  ASSUME NEW v, NEW a, Holds(v, a), ~v.dead, Headed(v.dir, a), Placed(v), Locked(v, a),
         Key(v) \notin DOMAIN v.locks
  PROVE  << v.dir.sector, v.dir.slot >> \notin a.files
<1> DEFINE p == << v.dir.sector, v.dir.slot >>
           L == LinksOf(Logical(v))
           j == v.dir.index
<1> SUFFICES ASSUME p \in a.files PROVE FALSE
  OBVIOUS
<1>1. PICK i \in Nat, c \in Clusters :
        /\ << 0, i >> \in DOMAIN v.locks /\ At(a.links, RootCluster, i \div EntriesPerCluster, c)
        /\ p = PlaceAt(c, i)
  BY DEF Locked
<1>2. At(L, RootCluster, i \div EntriesPerCluster, c)
  BY <1>1, AtLogical
<1>3. /\ At(L, First(v.dir), j \div EntriesPerCluster, v.dir.cluster) /\ j \in Nat /\ v.dir.cluster \in Clusters
      /\ v.dir.sector = ClusterToSector(v.dir.cluster) + SectorInCluster(j) /\ v.dir.slot = SlotOf(j)
  BY DEF Placed, At
<1>4. ClusterToSector(c) + SectorInCluster(i) = ClusterToSector(v.dir.cluster) + SectorInCluster(j) /\ SlotOf(i) = SlotOf(j)
  BY <1>1, <1>3 DEF PlaceAt
<1>5. SectorInCluster(i) \in 0 .. SectorsPerCluster - 1 /\ SectorInCluster(j) \in 0 .. SectorsPerCluster - 1
  BY <1>3, SectorNumbers
<1>6. c = v.dir.cluster /\ SectorInCluster(i) = SectorInCluster(j)
  BY <1>3, <1>4, <1>5, SectorOnce
<1>7. Chained(L) /\ Unlinked(L, First(v.dir)) /\ Unlinked(L, RootCluster)
  <2>1. Chained(L) /\ Unlinked(L, First(v.dir))
    BY HeadedFirst
  <2>2. Headed([ start |-> 0 ], a) /\ First([ start |-> 0 ]) = RootCluster
    BY DEF Headed, First
  <2>3. Unlinked(L, RootCluster)
    BY <2>2, HeadedFirst
  <2> QED
    BY <2>1, <2>3
<1>8. i \div EntriesPerCluster = j \div EntriesPerCluster /\ First(v.dir) = RootCluster
  <2> HIDE DEF L, j
  <2> QED
    BY <1>2, <1>3, <1>6, <1>7, AtApart
<1>9. v.dir.start = 0
  BY <1>8 DEF Headed, First
<1>10. i = j
  <2> HIDE DEF L, j
  <2> QED
    BY <1>3, <1>4, <1>6, <1>8, EntryOnce
<1> QED
  BY <1>1, <1>9, <1>10 DEF Key

-----------------------------------------------------------------------------
(* The methods on names. *)

\* What b says of the root directory and of open files is what a says, and maybe more.
Spares(a, b) ==
  /\ b.loose = a.loose /\ b.files = a.files /\ a.links \subseteq b.links
  /\ \A h \in a.claims : h[1] \in a.files \cup { RootPlace } => h \in b.claims

LEMMA SparesSelf == \A a : Spares(a, a)
  BY DEF Spares

LEMMA SparesAgain ==
  ASSUME NEW a, NEW b, NEW c, Spares(a, b), Spares(b, c)
  PROVE  Spares(a, c)
  BY DEF Spares

LEMMA GrownSpares ==
  ASSUME NEW a, NEW K, NEW L
  PROVE  Spares(a, Grown(a, K, L))
  BY GrownHas DEF Spares

\* The claims of an entry that is erased are dropped.
Without(a, p) == Accord({ h \in a.claims : h[1] # p }, a.loose, a.files, a.links)

LEMMA WithoutHas ==
  ASSUME NEW a, NEW p
  PROVE  LET b == Without(a, p)
         IN  /\ b.claims = { h \in a.claims : h[1] # p } /\ b.loose = a.loose /\ b.files = a.files
             /\ b.links = a.links
             /\ \A e, q : q # p /\ Fits(e, q, a) => Fits(e, q, b)
<1> DEFINE b == Without(a, p)
<1>1. /\ b.claims = { h \in a.claims : h[1] # p } /\ b.loose = a.loose /\ b.files = a.files
      /\ b.links = a.links
  BY DEF Without, Accord
<1> HIDE DEF b
<1>2. ASSUME NEW e, NEW q, q # p, Fits(e, q, a) PROVE Fits(e, q, b)
  <2> DEFINE h == << q, e.start >>
  <2>1. h[1] = q
    OBVIOUS
  <2>2. h \in a.claims => h \in b.claims
    <3> HIDE DEF h
    <3> QED
      BY <1>1, <1>2, <2>1
  <2> QED
    BY <1>1, <1>2, <2>2 DEF Fits
<1> QED
  BY <1>1, <1>2 DEF b

LEMMA DropHolds ==
  ASSUME NEW v, NEW a, Holds(v, a), NEW p, p \notin a.files \cup { RootPlace }, NEW i, p = << v.sector, i >>,
         v.sector \in DataSectors, v.dirty, i \in DOMAIN v.buffer.entries => v.buffer.entries[i] = Deleted
  PROVE  Holds(v, Without(a, p)) /\ Spares(a, Without(a, p))
<1> DEFINE b == Without(a, p)
<1>1. /\ b.claims = { h \in a.claims : h[1] # p } /\ b.loose = a.loose /\ b.files = a.files
      /\ b.links = a.links
      /\ \A e, q : q # p /\ Fits(e, q, a) => Fits(e, q, b)
  BY WithoutHas
<1> HIDE DEF b
<1>2. Spares(a, b)
  BY <1>1 DEF Spares
<1>3. Rooted(b)
  <2>1. RootClaim[1] = RootPlace
    BY DEF RootClaim
  <2>2. RootClaim \in b.claims
    BY <1>1, <2>1 DEF Holds, Intact, Rooted
  <2> QED
    BY <1>1, <2>2 DEF Holds, Intact, Rooted
<1>4. WindowFits(v, b) \/ v.dead
  <2> SUFFICES ASSUME ~v.dead, NEW k \in DOMAIN v.buffer.entries
               PROVE  Fits(v.buffer.entries[k], << v.sector, k >>, b)
    BY DEF WindowFits
  <2>1. CASE k = i
    BY <2>1, PlainFits
  <2>2. CASE k # i
    <3>1. << v.sector, k >> # p
      BY <2>2
    <3>2. Fits(v.buffer.entries[k], << v.sector, k >>, a)
      BY DEF Holds, Intact, WindowFits
    <3> QED
      BY <1>1, <3>1, <3>2
  <2> QED
    BY <2>1, <2>2
<1>5. ~v.dead => EntriesFit(Logical(v), b)
  <2> SUFFICES ASSUME ~v.dead, NEW s \in DataSectors, NEW k \in DOMAIN Logical(v)[s].entries
               PROVE  Fits(Logical(v)[s].entries[k], << s, k >>, b)
    BY DEF EntriesFit
  <2>1. CASE s = v.sector
    <3>1. Logical(v)[s] = v.buffer
      BY <2>1, SectorPlaces, LogicalAt DEF Holds, Intact
    <3> QED
      BY <1>4, <2>1, <3>1 DEF WindowFits
  <2>2. CASE s # v.sector
    <3>1. << s, k >> # p
      BY <2>2
    <3>2. Fits(Logical(v)[s].entries[k], << s, k >>, a)
      BY DEF Holds, Intact, Respects, EntriesFit
    <3> QED
      BY <1>1, <3>1, <3>2
  <2> QED
    BY <2>1, <2>2
<1>6. ~v.dead => Respects(Logical(v), b)
  <2>1. ~v.dead => HeadsApart(Logical(v), b.claims)
    BY <1>1 DEF Holds, Intact, Respects, HeadsApart
  <2> QED
    BY <1>1, <1>5, <2>1 DEF Holds, Intact, Respects, LinksKept
<1> QED
  BY <1>1, <1>2, <1>3, <1>4, <1>6 DEF Holds, Intact, b

\* A method is done: nobody's entry in the table of open files has changed.
Done(v, a, w) ==
  /\ w.locks = v.locks
  /\ ~w.misled => \E b : Spares(a, b) /\ Holds(w, b)

LEMMA WalkKeeps ==
  ASSUME NEW v, NEW a, Holds(v, a), a.loose \subseteq a.files, NEW path, Names(path),
         NEW w, SameBut(Walk(v, path), w, MethodFields)
  PROVE  w.locks = v.locks /\ w.misled = Walk(v, path).misled
<1> DEFINE x == Walk(v, path)
<1>1. SameBut(v, x, LookFields \cup { "dir", "found", "misled" }) /\ VolumeOK(v)
  BY WalkLooks DEF Holds, Intact
<1> HIDE DEF x
<1>2. x.locks = v.locks
  BY <1>1, Fields DEF SameBut, VolumeFields, TableFields, LookFields, WindowFields
<1>3. w.locks = x.locks /\ w.misled = x.misled
  <2>1. SameBut(x, w, MethodFields) /\ DOMAIN x = DOMAIN v
    BY <1>1 DEF x, SameBut
  <2> QED
    BY <1>1, <2>1, Fields DEF SameBut, VolumeFields, TableFields, MethodFields, ChainFields, WindowFields
<1> QED
  BY <1>2, <1>3 DEF x

LEMMA WalkDone ==
  ASSUME NEW v, NEW a, Holds(v, a), a.loose \subseteq a.files, NEW path, Names(path), NEW b,
         NEW w, Works(Walk(v, path), b, w), Spares(a, b)
  PROVE  Done(v, a, w)
<1>1. w.locks = v.locks
  BY WalkKeeps DEF Works
<1> QED
  BY <1>1 DEF Done, Works

\* The entry where the walk stopped names its chain, unless the walk was misled.
LEMMA ArrivedFits ==
  ASSUME NEW v, NEW a, Holds(v, a), a.loose \subseteq a.files, ~v.dead, ~v.misled, NEW name, name \notin Dots,
         Arrived(v, a, name), << v.dir.sector, v.dir.slot >> \notin a.files, Shown(v).start # 0
  PROVE  << << v.dir.sector, v.dir.slot >>, Shown(v).start >> \in a.claims
<1> DEFINE e == Shown(v)
<1>1. Placed(v) /\ v.sector = v.dir.sector /\ (v.found => Found(v, name)) /\ (~v.found => e.kind = "blank")
  BY DEF Arrived
<1>2. v.sector \in DataSectors
  BY <1>1, PlacedInData
<1>3. v.dir.slot \in DOMAIN v.buffer.entries
  BY DEF Shown, Foreign, Entry
<1>4. Fits(e, << v.sector, v.dir.slot >>, a)
  BY <1>2, <1>3, ShownFits
<1>5. NamesChain(e)
  BY <1>1 DEF NamesChain, Found
<1> QED
  BY <1>1, <1>4, <1>5 DEF Fits

LEMMA RemoveChainWorks ==
  ASSUME NEW v, NEW a, Holds(v, a), DirOK(v.dir), NEW c,
         ~v.dead /\ c \in Clusters =>
           (\A k \in Clusters : LinkOn(Logical(v), k) # c) /\ (\A h \in a.claims : h[2] # c)
  PROVE  Works(v, a, RemoveChain(v, c))
<1> DEFINE w == RemoveChain(v, c)
<1>1. Holds(w, a) /\ VolumeOK(v)
  BY RemoveChainHolds DEF Holds, Intact
<1>2. SameBut(v, w, ChainFields)
  BY <1>1, RemoveChainStays
<1> HIDE DEF w
<1>3. SameBut(v, w, ChainFields \cup { "unclean" })
  BY <1>2 DEF SameBut
<1> QED
  BY <1>1, <1>3, ChainsWork DEF w

\* unlink (918): what follows the look into the sub-directory.
LEMMA UnlinkGoes ==
  ASSUME NEW x, NEW a, Holds(x, a), DirOK(x.dir), NEW e,
         ~x.dead => /\ Headed(x.dir, a) /\ Placed(x) /\ LongBefore(x.dir)
                    /\ << x.dir.sector, x.dir.slot >> \notin a.files
                    /\ e.start # 0 => << << x.dir.sector, x.dir.slot >>, e.start >> \in a.claims
  PROVE  LET r == Remove(x)
             c == IF r.result = "OK" THEN FreeChain(r, e) ELSE r
             s == IF c.result = "OK" THEN SyncFs(c) ELSE c
         IN  \E b : Spares(a, b) /\ Works(x, b, s)
<1> DEFINE r == Remove(x)
           c == IF r.result = "OK" THEN FreeChain(r, e) ELSE r
           s == IF c.result = "OK" THEN SyncFs(c) ELSE c
           p == << x.dir.sector, x.dir.slot >>
<1>1. /\ Works(x, a, r) /\ (x.dead => r.dead)
      /\ ~x.dead /\ Headed(x.dir, a) /\ Placed(x) /\ LongBefore(x.dir) /\ ~r.dead /\ r.result = "OK" =>
           /\ r.sector = x.dir.sector /\ r.dirty
           /\ x.dir.slot \in DOMAIN r.buffer.entries => r.buffer.entries[x.dir.slot] = Deleted
  BY RemoveWorks
<1>2. r.dead \in BOOLEAN /\ x.dead \in BOOLEAN
  BY <1>1, WorksOK DEF Holds, Intact, VolumeOK, IsVolume
<1>3. x.dead => r.dead
  BY <1>1
<1> HIDE DEF r
<1>4. \E b : Spares(a, b) /\ Works(x, b, c)
  <2>1. CASE r.result # "OK"
    BY <1>1, <2>1, SparesSelf
  <2>2. CASE r.result = "OK" /\ e.start = 0
    BY <1>1, <2>2, SparesSelf DEF FreeChain
  <2>3. CASE r.result = "OK" /\ e.start # 0 /\ r.dead
    <3>1. Works(r, a, RemoveChain(r, e.start))
      BY <1>1, <2>3, WorksOK, RemoveChainWorks
    <3>2. Works(x, a, c)
      BY <1>1, <2>3, <3>1, WorksAgain DEF FreeChain
    <3> QED
      BY <3>2, SparesSelf
  <2>4. CASE r.result = "OK" /\ e.start # 0 /\ ~r.dead
    <3> DEFINE b == Without(a, p)
    <3>1. ~x.dead
      BY <1>2, <1>3, <2>4
    <3>2. Placed(x) /\ p \notin a.files /\ << p, e.start >> \in a.claims
      BY <2>4, <3>1
    <3>3. x.dir.sector \in DataSectors /\ x.dir.sector # NoSector
      BY <3>2, PlacedInData
    <3>4. p # RootPlace
      BY <3>3 DEF RootPlace
    <3>5. r.sector = x.dir.sector /\ r.dirty
          /\ (x.dir.slot \in DOMAIN r.buffer.entries => r.buffer.entries[x.dir.slot] = Deleted)
      BY <1>1, <2>4, <3>1
    <3>6. Holds(r, a) /\ DirOK(r.dir) /\ SameBut(x, r, MethodFields)
      BY <1>1 DEF Works
    <3>7. Holds(r, b) /\ Spares(a, b)
      <4>1. p \notin a.files \cup { RootPlace } /\ p = << r.sector, x.dir.slot >> /\ r.sector \in DataSectors
        BY <3>2, <3>3, <3>4, <3>5
      <4> HIDE DEF p, b
      <4> QED
        BY <3>5, <3>6, <4>1, DropHolds DEF b
    <3>8. /\ \A k \in Clusters : LinkOn(Logical(r), k) # e.start
          /\ \A h \in b.claims : h[2] # e.start
      <4> DEFINE g == << p, e.start >>
      <4>1. g \in a.claims /\ g[1] = p /\ g[2] = e.start
        BY <3>2
      <4>2. HeadsApart(Logical(r), a.claims)
        BY <2>4, <3>6 DEF Holds, Intact, Respects
      <4>3. b.claims = { h \in a.claims : h[1] # p }
        BY WithoutHas
      <4> HIDE DEF g, p, b
      <4> QED
        BY <4>1, <4>2, <4>3 DEF HeadsApart
    <3> HIDE DEF b, p
    <3>9. Works(r, b, RemoveChain(r, e.start))
      BY <3>6, <3>7, <3>8, RemoveChainWorks
    <3>10. Works(x, b, r)
      BY <3>6, <3>7 DEF Works
    <3>11. Works(x, b, c)
      BY <2>4, <3>9, <3>10, WorksAgain DEF FreeChain
    <3> QED
      BY <3>7, <3>11
  <2> QED
    BY <1>2, <2>1, <2>2, <2>3, <2>4
<1> HIDE DEF c
<1>5. PICK b : Spares(a, b) /\ Works(x, b, c)
  BY <1>4
<1>6. Works(c, b, SyncFs(c))
  BY <1>5, WorksOK, SyncFsWorks
<1>7. Works(x, b, s)
  BY <1>5, <1>6, WorksAgain
<1> QED
  BY <1>5, <1>7 DEF c, r

LEMMA UnlinkBut ==
  ASSUME NEW x, NEW a, Holds(x, a), DirOK(x.dir), NEW e
  PROVE  LET r == Remove(x)
             c == IF r.result = "OK" THEN FreeChain(r, e) ELSE r
             s == IF c.result = "OK" THEN SyncFs(c) ELSE c
         IN  SameBut(x, s, MethodFields)
<1> DEFINE r == Remove(x)
           c == IF r.result = "OK" THEN FreeChain(r, e) ELSE r
           s == IF c.result = "OK" THEN SyncFs(c) ELSE c
<1>1. VolumeOK(r) /\ SameBut(x, r, MethodFields)
  BY RemoveWorks, WorksOK DEF Works
<1> HIDE DEF r
<1>2. VolumeOK(c) /\ SameBut(r, c, MethodFields)
  <2> DEFINE y == RemoveChain(r, e.start)
  <2>1. VolumeOK(y) /\ SameBut(r, y, ChainFields)
    BY <1>1, RemoveChainStays DEF Stays
  <2> HIDE DEF y
  <2>2. SameBut(r, y, MethodFields) /\ SameBut(r, r, MethodFields)
    BY <2>1 DEF SameBut, MethodFields
  <2> QED
    BY <1>1, <2>1, <2>2 DEF FreeChain, y
<1> HIDE DEF c
<1>3. SameBut(c, s, MethodFields)
  <2> DEFINE y == SyncFs(c)
  <2>1. SameBut(c, y, ChainFields)
    BY <1>2, SyncFsStays
  <2> HIDE DEF y
  <2>2. SameBut(c, y, MethodFields) /\ SameBut(c, c, MethodFields)
    BY <2>1 DEF SameBut, MethodFields
  <2> QED
    BY <2>2 DEF y
<1> HIDE DEF s
<1>4. SameBut(x, s, MethodFields)
  BY <1>1, <1>2, <1>3 DEF SameBut
<1> QED
  BY <1>4 DEF s, c, r

\* unlink (918).
LEMMA UnlinkDone ==
  ASSUME NEW v, NEW a, Holds(v, a), a.loose \subseteq a.files, NEW path, Names(path), Locked(v, a)
  PROVE  Done(v, a, Unlink(v, path))
<1> DEFINE x == Walk(v, path)
           f == Free(x)
           p == IF f.result = "OK" THEN IF Shown(f).readOnly THEN Fails(f, "DENIED") ELSE f ELSE f
           e == Shown(x)
           i == IfEmpty(x, e)
           r == Remove(i)
           c == IF r.result = "OK" THEN FreeChain(r, e) ELSE r
           s == IF c.result = "OK" THEN SyncFs(c) ELSE c
           t == IF i.result = "OK" THEN s ELSE i
           w == Unlink(v, path)
           name == path[Len(path)]
<1>1. /\ Seen(v, x) /\ DirOK(x.dir) /\ x.result = "OK" /\ SameBut(v, x, LookFields \cup { "dir", "found", "misled" })
      /\ Arrived(x, a, name)
  BY WalkLooks
<1>2. Holds(x, a) /\ VolumeOK(x)
  BY <1>1, SeenHolds DEF Holds, Intact
<1>3. w \in { f, Fails(f, "DENIED") } \/ (Key(x) \notin DOMAIN x.locks /\ w = t)
  <2>1. f = x \/ (f = Fails(x, "LOCKED") /\ f.result # "OK")
    <3>1. Fails(x, "LOCKED").result = "LOCKED"
      BY <1>1, <1>2, FailureLooks
    <3> QED
      BY <3>1 DEF Free
  <2>2. w = IF p.result = "OK"
              THEN LET j == IfEmpty(p, Shown(p))
                       y == Remove(j)
                       z == IF j.result = "OK" THEN y ELSE j
                       k == IF z.result = "OK" THEN FreeChain(z, Shown(p)) ELSE z
                   IN  IF k.result = "OK" THEN SyncFs(k) ELSE k
              ELSE p
    BY DEF Unlink, Then
  <2>3. p.result = "OK" => f.result = "OK" /\ p = f
    <3>1. ASSUME VolumeOK(f), DirOK(f.dir) PROVE Fails(f, "DENIED").result = "DENIED"
      BY <3>1, FailureLooks
    <3>2. f = x => VolumeOK(f) /\ DirOK(f.dir)
      BY <1>1, <1>2
    <3> HIDE DEF f
    <3> QED
      BY <2>1, <3>1, <3>2
  <2>4. p.result = "OK" => f = x /\ p = x /\ Key(x) \notin DOMAIN x.locks
    <3>1. f.result = "OK" => Key(x) \notin DOMAIN x.locks
      <4>1. Fails(x, "LOCKED").result = "LOCKED"
        BY <1>1, <1>2, FailureLooks
      <4> QED
        BY <4>1 DEF Free
    <3> HIDE DEF f, p
    <3> QED
      BY <2>1, <2>3, <3>1
  <2>5. CASE p.result # "OK"
    BY <2>2, <2>5
  <2>6. CASE p.result = "OK"
    <3>1. w = LET j == IfEmpty(x, e)
                  y == Remove(j)
                  z == IF j.result = "OK" THEN y ELSE j
                  k == IF z.result = "OK" THEN FreeChain(z, e) ELSE z
              IN  IF k.result = "OK" THEN SyncFs(k) ELSE k
      <4> HIDE DEF p, x, w
      <4> QED
        BY <2>2, <2>4, <2>6
    <3>2. w = t
      <4> HIDE DEF x, e, w
      <4> QED
        BY <3>1
    <3> QED
      BY <2>4, <2>6, <3>2
  <2> QED
    BY <2>5, <2>6
<1>4. ASSUME w \in { f, Fails(f, "DENIED") } PROVE Done(v, a, w)
  <2>1. Works(x, a, f)
    BY <1>1, <1>2, FailureWorks DEF Free
  <2> HIDE DEF f, w
  <2>2. Works(x, a, Fails(f, "DENIED"))
    BY <2>1, WorksOK, FailureWorks, WorksAgain
  <2>3. Works(x, a, w)
    BY <1>4, <2>1, <2>2
  <2> QED
    BY <2>3, WalkDone, SparesSelf
<1>5. ASSUME Key(x) \notin DOMAIN x.locks, w = t PROVE Done(v, a, w)
  <2>1. Looks(x, i) /\ i.dir = x.dir
    BY <1>1, <1>2, IfEmptyLooks
  <2>2. Works(x, a, i)
    BY <1>2, <2>1, LooksWorks
  <2>3. Holds(i, a) /\ DirOK(i.dir) /\ VolumeOK(i)
    BY <2>2, WorksOK
  <2> HIDE DEF i, e
  <2>4. SameBut(x, t, MethodFields)
    <3>1. SameBut(i, s, MethodFields)
      BY <2>3, UnlinkBut
    <3> HIDE DEF s
    <3>2. SameBut(x, s, MethodFields)
      BY <2>2, <3>1 DEF Works, SameBut
    <3> QED
      BY <2>2, <3>2 DEF Works
  <2>5. w.locks = v.locks /\ w.misled = x.misled
    <3> HIDE DEF x, t
    <3> QED
      BY <1>5, <2>4, WalkKeeps DEF x
  <2>6. ASSUME ~x.misled PROVE \E b : Spares(a, b) /\ Works(x, b, t)
    <3> DEFINE q == << i.dir.sector, i.dir.slot >>
    <3>1. ~i.dead => /\ Headed(i.dir, a) /\ Placed(i) /\ LongBefore(i.dir) /\ q \notin a.files
                     /\ e.start # 0 => << q, e.start >> \in a.claims
      <4> SUFFICES ASSUME ~i.dead PROVE /\ Headed(i.dir, a) /\ Placed(i) /\ LongBefore(i.dir) /\ q \notin a.files
                                        /\ e.start # 0 => << q, e.start >> \in a.claims
        OBVIOUS
      <4>1. ~x.dead /\ Logical(i) = Logical(x)
        BY <1>2, <2>1 DEF Looks, Seen, VolumeOK, IsVolume
      <4>2. Headed(x.dir, a) /\ Placed(x) /\ LongBefore(x.dir)
        BY <1>1, <2>6, <4>1 DEF Arrived
      <4>3. Placed(i)
        BY <2>1, <4>1, <4>2, PlacedStays
      <4>4. Locked(x, a)
        <5>1. x.locks = v.locks
          BY <1>1, <1>2, Fields DEF Holds, Intact, SameBut, VolumeFields, TableFields, LookFields, WindowFields
        <5> HIDE DEF x
        <5> QED
          BY <5>1 DEF Locked
      <4> HIDE DEF x
      <4>5. << x.dir.sector, x.dir.slot >> \notin a.files
        BY <1>2, <1>5, <4>1, <4>2, <4>4, FreeElsewhere
      <4>6. name \notin Dots
        BY DEF Names
      <4>7. e.start # 0 => << << x.dir.sector, x.dir.slot >>, e.start >> \in a.claims
        <5> HIDE DEF name
        <5> QED
          BY <1>1, <1>2, <2>6, <4>1, <4>5, <4>6, ArrivedFits DEF e
      <4> QED
        BY <2>1, <4>2, <4>3, <4>5, <4>7
    <3> HIDE DEF x
    <3>2. \E b : Spares(a, b) /\ Works(i, b, s)
      BY <2>3, <3>1, UnlinkGoes
    <3> HIDE DEF s
    <3>3. PICK b : Spares(a, b) /\ Works(i, b, s)
      BY <3>2
    <3>4. CASE i.result = "OK"
      <4>1. SameBut(x, t, MethodFields) /\ Holds(t, b) /\ DirOK(t.dir)
        BY <2>4, <3>3, <3>4 DEF Works
      <4> QED
        BY <3>3, <4>1 DEF Works
    <3>5. CASE i.result # "OK"
      BY <2>2, <3>5, SparesSelf
    <3> QED
      BY <3>4, <3>5
  <2> HIDE DEF t, x, w
  <2>7. ~w.misled => \E b : Spares(a, b) /\ Holds(w, b)
    BY <1>5, <2>5, <2>6 DEF Works
  <2> QED
    BY <2>5, <2>7 DEF Done
<1> QED
  BY <1>3, <1>4, <1>5

\* An entry is changed, and all written.
LEMMA MarkSyncWorks ==
  ASSUME NEW v, NEW a, Holds(v, a), DirOK(v.dir), NEW e, EntryOK(e),
         ~v.dead /\ v.sector \in DataSectors /\ v.dir.slot \in DOMAIN v.buffer.entries =>
           Fits(e, << v.sector, v.dir.slot >>, a)
  PROVE  Works(v, a, SyncFs(Mark(v, e)))
<1> DEFINE m == Mark(v, e)
<1>1. Works(v, a, m)
  BY MarkWorks
<1> HIDE DEF m
<1>2. Works(m, a, SyncFs(m))
  BY <1>1, WorksOK, SyncFsWorks
<1>3. Works(v, a, SyncFs(m))
  BY <1>1, <1>2, WorksAgain
<1> QED
  BY <1>3 DEF m

LEMMA WalkOK ==
  ASSUME NEW v, NEW a, Holds(v, a), a.loose \subseteq a.files, NEW path, Names(path)
  PROVE  Holds(Walk(v, path), a) /\ DirOK(Walk(v, path).dir) /\ VolumeOK(Walk(v, path))
  BY WalkLooks, SeenHolds DEF Holds, Intact

\* changeAttributes (840).
LEMMA ChangeAttributesDone ==
  ASSUME NEW v, NEW a, Holds(v, a), a.loose \subseteq a.files, NEW path, Names(path), NEW b
  PROVE  Done(v, a, ChangeAttributes(v, path, b))
<1> DEFINE x == Walk(v, path)
           e == [ Shown(x) EXCEPT !.readOnly = b ]
<1>1. ChangeAttributes(v, path, b) = SyncFs(Mark(x, e))
  BY DEF ChangeAttributes, With
<1>2. Holds(x, a) /\ DirOK(x.dir) /\ VolumeOK(x)
  BY WalkOK
<1> HIDE DEF x
<1>3. EntryOK(e) /\ EntryOK(Shown(x))
  BY <1>2, ShownOK, SimpleEntries
<1>4. ~x.dead /\ x.sector \in DataSectors /\ x.dir.slot \in DOMAIN x.buffer.entries =>
        Fits(e, << x.sector, x.dir.slot >>, a)
  BY <1>2, <1>3, ShownFits, PlainFits
<1> HIDE DEF e
<1>5. Works(x, a, SyncFs(Mark(x, e)))
  BY <1>2, <1>3, <1>4, MarkSyncWorks
<1> QED
  BY <1>1, <1>5, WalkDone, SparesSelf DEF x

\* utime (889).
LEMMA UtimeDone ==
  ASSUME NEW v, NEW a, Holds(v, a), a.loose \subseteq a.files, NEW path, Names(path)
  PROVE  Done(v, a, Utime(v, path))
<1> DEFINE x == Walk(v, path)
           e == Shown(x)
<1>1. Utime(v, path) = SyncFs(Mark(x, e))
  BY DEF Utime, With
<1>2. Holds(x, a) /\ DirOK(x.dir) /\ VolumeOK(x)
  BY WalkOK
<1> HIDE DEF x
<1>3. EntryOK(e)
  BY <1>2, ShownOK
<1>4. ~x.dead /\ x.sector \in DataSectors /\ x.dir.slot \in DOMAIN x.buffer.entries =>
        Fits(e, << x.sector, x.dir.slot >>, a)
  BY <1>2, ShownFits
<1> HIDE DEF e
<1>5. Works(x, a, SyncFs(Mark(x, e)))
  BY <1>2, <1>3, <1>4, MarkSyncWorks
<1> QED
  BY <1>1, <1>5, WalkDone, SparesSelf DEF x

\* makeSubDirectory (690).
LEMMA MakeSubDirectoryDone ==
  ASSUME NEW v, NEW a, Holds(v, a), a.loose \subseteq a.files, NEW path, Names(path)
  PROVE  Done(v, a, MakeSubDirectory(v, path))
<1> DEFINE x == Walk(v, path)
           w == MakeSubDirectory(v, path)
<1>1. w \in { x, Fails(x, "EXIST") }
  BY DEF MakeSubDirectory, With
<1>2. Holds(x, a) /\ DirOK(x.dir)
  BY WalkOK
<1> HIDE DEF x, w
<1>3. Works(x, a, w)
  BY <1>1, <1>2, FailureWorks
<1> QED
  BY <1>3, WalkDone, SparesSelf DEF x, w

\* rename (769).
LEMMA RenameDone ==
  ASSUME NEW v, NEW a, Holds(v, a), a.loose \subseteq a.files, NEW path, Names(path), NEW new, Names(new)
  PROVE  Done(v, a, Rename(v, path, new))
<1> DEFINE x == Walk(v, path)
           f == Free(x)
           n == Walk(f, new)
           w == Rename(v, path, new)
<1>1. w \in { TimesOut(f), TimesOut(n) }
  BY DEF Rename, Then
<1>2. Holds(x, a) /\ DirOK(x.dir)
  BY WalkOK
<1>3. Works(x, a, f)
  BY <1>2, FailureWorks DEF Free
<1> HIDE DEF f, w
<1>4. Works(x, a, TimesOut(f))
  BY <1>3, WorksOK, FailureWorks, WorksAgain DEF TimesOut
<1>5. Done(v, a, TimesOut(f)) /\ Done(v, a, f) /\ Holds(f, a)
  BY <1>3, <1>4, WalkDone, SparesSelf, WorksOK
<1>6. Works(n, a, TimesOut(n))
  BY <1>5, WalkOK, FailureWorks DEF TimesOut
<1>7. Done(f, a, TimesOut(n))
  BY <1>5, <1>6, WalkDone, SparesSelf
<1> HIDE DEF n, x
<1>8. Done(v, a, w)
  BY <1>1, <1>5, <1>7 DEF Done
<1> QED
  BY <1>8 DEF w

\* setLabel (976).
LEMMA SetLabelDone ==
  ASSUME NEW v, NEW a, Holds(v, a), NEW set
  PROVE  Done(v, a, SetLabel(v, set))
<1> DEFINE label == Entry("label", "label", 0, 0)
           v0 == [ v EXCEPT !.dir = NoDir ]
           s == SetIndex(v0, 0)
           w == IF s.result = "OK" THEN ReadEntry(s, TRUE) ELSE s
           e == IF set THEN label ELSE Deleted
           m == SyncFs(Mark(w, e))
           x == Allocate(w)
           n == SyncFs(Mark(x, label))
           z == SetLabel(v, set)
<1>1. z \in { m, IF x.result = "OK" THEN n ELSE x, Fails(w, "OK"), w }
  BY DEF SetLabel, With, Then
<1>2. Works(v, a, v0) /\ VolumeOK(v0) /\ DirOK(v0.dir)
  <2>1. Looks(v, v0)
    BY DirAway, DirFields DEF Holds, Intact
  <2> HIDE DEF v0
  <2> QED
    BY <2>1, LooksOK, LooksWorks
<1> HIDE DEF v0
<1>3. Works(v, a, s) /\ VolumeOK(s) /\ DirOK(s.dir)
  <2>1. Works(v0, a, s)
    BY <1>2, WorksOK, SetIndexLooks, LooksWorks
  <2> HIDE DEF s
  <2> QED
    BY <1>2, <2>1, WorksAgain, WorksOK
<1> HIDE DEF s
<1>4. Works(v, a, w)
  <2>1. Works(s, a, ReadEntry(s, TRUE))
    BY <1>3, WorksOK, ReadEntryLooks, LooksWorks
  <2>2. Works(v, a, ReadEntry(s, TRUE))
    BY <1>3, <2>1, WorksAgain
  <2> QED
    BY <1>3, <2>2
<1> HIDE DEF w
<1>5. EntryOK(e) /\ EntryOK(label) /\ \A p : Fits(e, p, a) /\ Fits(label, p, a)
  BY SimpleEntries, PlainFits
<1> HIDE DEF e, label
<1>6. ASSUME NEW u, Works(v, a, u) PROVE Works(v, a, SyncFs(Mark(u, e))) /\ Works(v, a, SyncFs(Mark(u, label)))
  <2>1. Holds(u, a) /\ DirOK(u.dir)
    BY <1>6, WorksOK
  <2>2. Works(u, a, SyncFs(Mark(u, e))) /\ Works(u, a, SyncFs(Mark(u, label)))
    BY <1>5, <2>1, MarkSyncWorks
  <2> QED
    BY <1>6, <2>2, WorksAgain
<1>7. Works(v, a, x)
  BY <1>4, WorksOK, AllocateWorks, WorksAgain
<1> HIDE DEF x, z
<1>8. Works(v, a, Fails(w, "OK"))
  BY <1>4, WorksOK, FailureWorks, WorksAgain
<1>9. Works(v, a, z)
  BY <1>1, <1>4, <1>6, <1>7, <1>8
<1>10. z.locks = v.locks
  BY <1>9, Fields DEF Works, Holds, Intact, SameBut, VolumeFields, TableFields, MethodFields, ChainFields, WindowFields
<1> QED
  BY <1>9, <1>10, SparesSelf DEF Done, Works, z

=============================================================================
