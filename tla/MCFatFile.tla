------------------------------ MODULE MCFatFile ------------------------------
(***************************************************************************)
(* FatFile for TLC: a card with seven clusters of two sectors of two       *)
(* units.  The root directory fills cluster 2.  A is in clusters 3 and 5,  *)
(* B, with a long name, in cluster 4, the directory d in cluster 6, and in *)
(* it the empty directory e in cluster 7.  Cluster 8 is free.              *)
(***************************************************************************)
EXTENDS FatFile

RootEntries ==
  << Entry("file", "A", 3, 5), Entry("long", "B", 0, 0), Entry("file", "B", 4, 2), Entry("dir", "d", 6, 0) >>
DirEntries == << Entry("dir", ".", 6, 0), Entry("dir", "..", 0, 0), Entry("dir", "e", 7, 0), Blank >>
EmptyEntries == << Entry("dir", ".", 7, 0), Entry("dir", "..", 6, 0), Blank, Blank >>

\* Links 0 and 1 are reserved, those after the last cluster unused.
AllLinks == << LastLink, LastLink, LastLink, 5, LastLink, LastLink, LastLink, LastLink, 0, 0, 0, 0 >>

Data(f, i) == Units(<< << f, i >>, << f, i + 1 >> >>)

SectorsOf(c) == { ClusterToSector(c), ClusterToSector(c) + 1 }

\* What belongs into sector s of cluster c.
Pair(all, s, c) == SubSeq(all, 2 * (s - ClusterToSector(c)) + 1, 2 * (s - ClusterToSector(c)) + 2)

CardDisk(free) ==
  [ s \in Sectors |->
      CASE s = BootSector -> Units(<< 0 >>)
        [] s = FsInfoSector -> Units(<< free, 7 >>)
        [] s \in FatBase .. DataBase - 1 ->
             LET k == (s - FatBase) * LinksPerSector
             IN  Links(SubSeq(AllLinks, k + 1, k + LinksPerSector))
        [] s \in SectorsOf(2) -> Entries(Pair(RootEntries, s, 2))
        [] s \in SectorsOf(6) -> Entries(Pair(DirEntries, s, 6))
        [] s \in SectorsOf(7) -> Entries(Pair(EmptyEntries, s, 7))
        [] s \in SectorsOf(3) -> Data("A", 1 + 2 * (s - ClusterToSector(3)))
        [] s = ClusterToSector(5) -> Data("A", 5)
        [] s = ClusterToSector(4) -> Data("B", 1)
        [] OTHER -> Units(NoUnits) ]

Disk1 == CardDisk(1)
FileNames == { "A", "B" }
FilePaths == [ f \in FileNames |-> << f >> ]
RenamedPaths == { << "d", "X" >> }
ElsePaths == { << "d" >>, << "d", "e" >>, << "d", "X" >> }

\* What the theorem on first clusters assumes.
ASSUME FlatAssumption == Flat
=============================================================================
