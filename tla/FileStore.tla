------------------------------ MODULE FileStore ------------------------------
(***************************************************************************)
(* What the users of a volume may expect: a store of files, each a string  *)
(* of units, of which a power cut leaves what is kept.  A call on one file *)
(* says what becomes of that file, and never touches another one.          *)
(*                                                                         *)
(* This is the promise that FatFile is checked against; it knows nothing   *)
(* of sectors, clusters, windows or caches.                                *)
(***************************************************************************)
EXTENDS Naturals, Sequences

CONSTANTS
  Files,      \* the files
  Absent,     \* the content of a file that does not exist
  Unsettled   \* what is kept of a file that was shortened and not written back since

VARIABLES
  content,    \* what a reader of the file finds: units, or Absent
  kept,       \* what a cut leaves: units, Absent or Unsettled
  position,   \* the position of the object that has the file open, Shut if there is none
  answer      \* the last call: operation, file, argument, result and the units returned

Shut == 1000

\* A string of units begins with another one.
StartsWith(s, t) == Len(t) <= Len(s) /\ SubSeq(s, 1, Len(t)) = t

\* In place of the units of s from p on, those of t.
Overwritten(s, p, t) ==
  [ i \in 1 .. (IF p + Len(t) > Len(s) THEN p + Len(t) ELSE Len(s)) |->
      IF i \in p + 1 .. p + Len(t) THEN t[i - p] ELSE s[i] ]

\* Every unit of what is kept is the old one, or the one that a reader finds.
Mixed(f) ==
  \/ kept'[f] \in { kept[f], content[f], content'[f] }
  \/ /\ kept[f] \notin { Absent, Unsettled } /\ kept'[f] \notin { Absent, Unsettled }
     /\ Len(kept'[f]) = Len(kept[f])
     /\ \A i \in DOMAIN kept[f] :
          \/ kept'[f][i] = kept[f][i]
          \/ i \in DOMAIN content[f] /\ kept'[f][i] = content[f][i]
          \/ i \in DOMAIN content'[f] /\ kept'[f][i] = content'[f][i]

\* Nothing happens to f, but that more of it may get kept.
Undisturbed(f) ==
  /\ content'[f] = content[f]
  /\ position'[f] = position[f]
  /\ kept'[f] \in { kept[f], content[f] }

DataCalls == { "read", "write", "seek", "truncate", "sync", "close" }
Was(op) == answer'.op = op
Ok == answer'.result = "OK"

Open(f) ==
  /\ Was("open")
  /\ content'[f] = content[f] /\ kept'[f] \in { kept[f], content[f] }
  /\ position'[f] = IF Ok THEN 0 ELSE Shut

\* A read returns the units from the position on; it may write cached ones back.
Read(f) ==
  /\ Was("read")
  /\ content'[f] = content[f] /\ Mixed(f)
  /\ StartsWith(SubSeq(content[f], position[f] + 1, Len(content[f])), answer'.data)
  /\ Ok => /\ position'[f] = position[f] + Len(answer'.data)
           /\ Len(answer'.data) = answer'.arg \/ position'[f] = Len(content[f])

\* A write puts a part of the units there, all of them unless the volume is full.
Write(f) ==
  /\ Was("write")
  /\ Mixed(f)
  /\ LET count == position'[f] - position[f]
     IN  IF Ok
           THEN /\ position'[f] >= position[f] /\ count <= Len(answer'.data)
                /\ content'[f] = Overwritten(content[f], position[f], SubSeq(answer'.data, 1, count))
           ELSE /\ Len(content'[f]) = Len(content[f])
                /\ \A i \in DOMAIN content[f] :
                     content'[f][i] = content[f][i]
                     \/ (i > position[f] /\ i - position[f] \in DOMAIN answer'.data
                         /\ content'[f][i] = answer'.data[i - position[f]])

\* A position beyond the end makes the file longer, by units nobody has written.
Seek(f) ==
  /\ Was("seek")
  /\ Mixed(f)
  /\ StartsWith(content'[f], content[f])
  /\ Ok => position'[f] <= answer'.arg /\ position'[f] <= Len(content'[f])

\* The file ends at the position.
Truncate(f) ==
  /\ Was("truncate")
  /\ position'[f] = position[f]
  /\ \/ content'[f] = SubSeq(content[f], 1, position[f]) /\ kept'[f] = Unsettled
     \/ content'[f] = content[f] /\ kept'[f] = kept[f]

Sync(f) ==
  /\ Was("sync")
  /\ content'[f] = content[f] /\ position'[f] = position[f]
  /\ Mixed(f)
  /\ Ok => kept'[f] = content[f]

\* A close that fails may lose what was not written back.
Close(f) ==
  /\ Was("close")
  /\ position'[f] = Shut
  /\ Mixed(f)
  /\ content'[f] \in { content[f], kept'[f] }
  /\ Ok => content'[f] = content[f] /\ kept'[f] = content[f]

Unlink(f) ==
  /\ Was("unlink")
  /\ position'[f] = position[f] /\ position[f] = Shut
  /\ Mixed(f)
  /\ content'[f] \in { content[f], Absent }
  /\ Ok => content'[f] = Absent

\* What a cut in the middle of a call leaves of its file: every unit the old one, the
\* one a reader found, or the one that was being written there.
Torn(f) ==
  LET p == position[f]
      Being(i) == answer'.op = "write" /\ i > p /\ i - p \in DOMAIN answer'.data
  IN  \/ kept'[f] \in { kept[f], content[f] }
      \/ answer'.op = "unlink" /\ kept'[f] = Absent
      \/ /\ Absent \notin { kept[f], content[f], kept'[f] } /\ kept[f] # Unsettled
         /\ Len(kept'[f]) \in { Len(kept[f]), Len(content[f]) }
         /\ \A i \in DOMAIN kept'[f] :
              \/ i \in DOMAIN kept[f] /\ kept'[f][i] = kept[f][i]
              \/ i \in DOMAIN content[f] /\ kept'[f][i] = content[f][i]
              \/ Being(i) /\ kept'[f][i] = answer'.data[i - p]

\* The power goes during a call: all that is left is what is kept.
Cut ==
  /\ answer'.result = "CUT"
  /\ content' = kept'
  /\ position' = [ f \in Files |-> Shut ]
  /\ \A f \in Files : IF answer'.on = f THEN Torn(f) ELSE kept'[f] \in { kept[f], content[f] }

Init ==
  /\ kept = content
  /\ position = [ f \in Files |-> Shut ]

OneFile(f) ==
  /\ Open(f) \/ Read(f) \/ Write(f) \/ Seek(f) \/ Truncate(f) \/ Sync(f) \/ Close(f) \/ Unlink(f)
  /\ \A g \in Files \ {f} : Undisturbed(g)

\* Other calls change no file.
NoFileAtAll == \A g \in Files : Undisturbed(g)

Next ==
  \/ answer'.result # "CUT" /\ \E f \in Files : answer'.on = f /\ OneFile(f)
  \/ answer'.result # "CUT" /\ answer'.op \notin DataCalls /\ NoFileAtAll
  \/ Cut

Spec == Init /\ [][Next]_<< content, kept, position, answer >>
=============================================================================
