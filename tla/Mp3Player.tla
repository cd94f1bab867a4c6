------------------------------ MODULE Mp3Player ------------------------------
(***************************************************************************)
(* The MP3 player of src/main/main.cpp.  The play task plays the files one *)
(* after the other, the wave task loads the wave form and the frame        *)
(* offsets of the same file, and the main task sets another file, or       *)
(* another position in it, when the screen is touched.  They share plain   *)
(* variables without a lock.  The wait for the audio is in AudioOut.       *)
(*                                                                         *)
(* A file is its place in mMp3Files, a position a number of frames.  Where *)
(* the code reads mMp3Files past its end, the open fails or the processor  *)
(* faults.                                                                 *)
(***************************************************************************)
EXTENDS Naturals

CONSTANTS
  NumFiles,  \* mMp3Files.size()
  NumFrames  \* frames in a file

ASSUME Mp3Assumption == NumFiles \in Nat /\ NumFrames \in Nat

VARIABLES
  fileIndex, fileIndexChanged, mWaveChanged,
  mMp3PlayFrame,  \* frames played, or the frame touched; see Counted
  mWaveLoadFrame, \* frames loaded by the wave task
  offsetOf,       \* mFrameOffsets: for each frame, the file it was found in
  play,           \* the play task
  wave,           \* the wave task
  touch           \* the touch being handled, and what the user waits for

mp3Vars == << fileIndex, fileIndexChanged, mWaveChanged, mMp3PlayFrame, mWaveLoadFrame,
              offsetOf, play, wave, touch >>

Files == 0 .. NumFiles - 1
Frames == 0 .. NumFrames - 1
NoFile == NumFiles + 1

\* mMp3PlayFrame++.  NumFrames stands for every count that is no frame of the file.
Counted(count) == IF count < NumFrames THEN count + 1 ELSE count

Mp3Init ==
  /\ fileIndex = 0 /\ fileIndexChanged = FALSE /\ mWaveChanged = FALSE
  /\ mMp3PlayFrame = 0 /\ mWaveLoadFrame = 0
  /\ offsetOf = [ f \in Frames |-> NoFile ]
  /\ play = [ at |-> "mount", position |-> 0, count |-> 0 ]
  /\ wave = [ at |-> "none", loaded |-> NoFile, file |-> NoFile, back |-> FALSE ]
  /\ touch = [ at |-> "idle", choice |-> NoFile, raced |-> FALSE,
               seek |-> FALSE, frame |-> 0, spoilt |-> FALSE ]

PlayAt(place) == play' = [ play EXCEPT !.at = place ]
\* ... and does not look at its position any more.
LeaveFile(place) == play' = [ play EXCEPT !.at = place, !.position = 0 ]

\* Nobody waits for a position of the wave any more.
NoSeek == [ touch EXCEPT !.seek = FALSE, !.frame = 0, !.spoilt = FALSE ]

\* The frame touched is overwritten: only the flag is left to wait for.
Spoil == [ touch EXCEPT !.frame = 0, !.spoilt = TRUE ]
Crash == PlayAt("crashed") /\ UNCHANGED << touch, wave >>

\* The wave task at the top of its loop: it has no index to compare with.
AnotherFile == [ wave EXCEPT !.at = "read", !.loaded = NoFile, !.back = FALSE ]

\* fileIndex changes.  "back" remembers that it came back to the file the wave
\* task took it for, after the wave task had opened another one.
SetFileIndex(index, at) ==
  /\ fileIndex' = index
  /\ wave' = [ wave EXCEPT !.at = at,
       !.back = @ \/ (index = wave.loaded /\ wave.file # wave.loaded) ]

\* Mount, list the directory, create the wave task; or give up.
Mount ==
  /\ play.at = "mount"
  /\ \/ PlayAt("reset") /\ wave' = AnotherFile
     \/ PlayAt("gone") /\ UNCHANGED wave
  /\ UNCHANGED << fileIndex, fileIndexChanged, mWaveChanged, mMp3PlayFrame, mWaveLoadFrame,
                  offsetOf, touch >>

\* mMp3PlayFrame = 0: a position touched in the file before goes with it, but
\* mWaveChanged stays.
PlayReset ==
  /\ play.at = "reset"
  /\ mMp3PlayFrame' = 0
  /\ PlayAt("open")
  /\ touch' = NoSeek
  /\ UNCHANGED << fileIndex, fileIndexChanged, mWaveChanged, mWaveLoadFrame, offsetOf, wave >>

\* The file the user chose is opened at last.
PlayOpen ==
  /\ play.at = "open"
  /\ \/ /\ fileIndex \in Files
        /\ play' = [ play EXCEPT !.at = "frame", !.position = 0 ]
        /\ touch' = [ touch EXCEPT !.choice = NoFile, !.raced = FALSE ]
        /\ UNCHANGED wave
     \/ /\ PlayAt("next")
        /\ touch' = [ touch EXCEPT !.choice = NoFile, !.raced = FALSE ]
        /\ UNCHANGED wave
     \/ fileIndex \notin Files /\ Crash
  /\ UNCHANGED << fileIndex, fileIndexChanged, mWaveChanged, mMp3PlayFrame, mWaveLoadFrame,
                  offsetOf >>

\* One turn of the loop: a frame is played, and mMp3PlayFrame++ reads its old value; or
\* what is left is no whole frame; or the file ends or fails.
PlayFrame ==
  /\ play.at = "frame"
  /\ \/ /\ play.position < NumFrames
        /\ \/ play' = [ at |-> "store", position |-> play.position + 1, count |-> mMp3PlayFrame ]
           \/ play' = [ at |-> "look", position |-> play.position + 1, count |-> 0 ]
     \/ LeaveFile("next")
  /\ UNCHANGED << fileIndex, fileIndexChanged, mWaveChanged, mMp3PlayFrame, mWaveLoadFrame,
                  offsetOf, wave, touch >>

\* mMp3PlayFrame++ writes the new one.
PlayStore ==
  /\ play.at = "store"
  /\ mMp3PlayFrame' = Counted(play.count)
  /\ play' = [ play EXCEPT !.at = "look", !.count = 0 ]
  /\ touch' = IF touch.at = "moved" THEN Spoil ELSE touch
  /\ UNCHANGED << fileIndex, fileIndexChanged, mWaveChanged, mWaveLoadFrame, offsetOf, wave >>

\* The touches are looked at, a position first.
PlayLook ==
  /\ play.at = "look"
  /\ \/ mWaveChanged /\ LeaveFile("seek")
     \/ ~mWaveChanged /\ fileIndexChanged /\ LeaveFile("next")
     \/ ~mWaveChanged /\ ~fileIndexChanged /\ PlayAt("frame")
  /\ UNCHANGED << fileIndex, fileIndexChanged, mWaveChanged, mMp3PlayFrame, mWaveLoadFrame,
                  offsetOf, wave, touch >>

\* Mutant: the flag is cleared before the offset is used.
SeekAfterClear ==
  /\ play.at = "seek"
  /\ \E position \in 0 .. NumFrames : play' = [ play EXCEPT !.at = "seeked", !.position = position ]
  /\ UNCHANGED << fileIndex, fileIndexChanged, mWaveChanged, mMp3PlayFrame, mWaveLoadFrame,
                  offsetOf, wave, touch >>

\* file.seek to what mFrameOffsets has for mMp3PlayFrame.  That is the file position the
\* wave task had come to by reading whole chunks, and past mWaveLoadFrame it is anything:
\* so it leads anywhere in the file.
Seek ==
  /\ play.at = "seek"
  /\ \E position \in 0 .. NumFrames : play' = [ play EXCEPT !.at = "seeked", !.position = position ]
  /\ touch' = NoSeek
  /\ UNCHANGED << fileIndex, fileIndexChanged, mWaveChanged, mMp3PlayFrame, mWaveLoadFrame,
                  offsetOf, wave >>

SeekClear ==
  /\ play.at = "seeked"
  /\ mWaveChanged' = FALSE
  /\ IF fileIndexChanged THEN LeaveFile("next") ELSE PlayAt("frame")
  /\ UNCHANGED << fileIndex, fileIndexChanged, mMp3PlayFrame, mWaveLoadFrame, offsetOf, wave, touch >>

\* The end of the loop over the files: test, advance, clear.
PlayNext ==
  /\ play.at = "next"
  /\ PlayAt(IF fileIndexChanged THEN "clear" ELSE "advance")
  /\ touch' = [ touch EXCEPT !.raced = @ \/ (touch.at = "set" /\ ~fileIndexChanged) ]
  /\ UNCHANGED << fileIndex, fileIndexChanged, mWaveChanged, mMp3PlayFrame, mWaveLoadFrame,
                  offsetOf, wave >>

PlayAdvance ==
  /\ play.at = "advance"
  /\ SetFileIndex(IF fileIndex >= NumFiles THEN 0 ELSE fileIndex + 1, wave.at)
  /\ PlayAt("clear")
  /\ UNCHANGED << fileIndexChanged, mWaveChanged, mMp3PlayFrame, mWaveLoadFrame, offsetOf, touch >>

PlayClear ==
  /\ play.at = "clear"
  /\ fileIndexChanged' = FALSE
  /\ PlayAt("reset")
  /\ UNCHANGED << fileIndex, mWaveChanged, mMp3PlayFrame, mWaveLoadFrame, offsetOf, wave, touch >>

-----------------------------------------------------------------------------
\* Mutant: the table is not emptied.
WaveReadOn ==
  /\ wave.at = "read"
  /\ wave' = [ at |-> "open", loaded |-> fileIndex, file |-> NoFile, back |-> FALSE ]
  /\ UNCHANGED << fileIndex, fileIndexChanged, mWaveChanged, mMp3PlayFrame, mWaveLoadFrame,
                  offsetOf, play, touch >>

\* The wave task takes the index and empties its table (what is left above
\* mWaveLoadFrame is dead) ...
WaveRead ==
  /\ wave.at = "read"
  /\ wave' = [ at |-> "open", loaded |-> fileIndex, file |-> NoFile, back |-> FALSE ]
  /\ mWaveLoadFrame' = 0 /\ offsetOf' = [ f \in Frames |-> NoFile ]
  /\ UNCHANGED << fileIndex, fileIndexChanged, mWaveChanged, mMp3PlayFrame, play, touch >>

\* ... then opens the file of the index, which it reads again.
WaveOpen ==
  /\ wave.at = "open" /\ play.at # "crashed"
  /\ \/ /\ fileIndex \in Files
        /\ wave' = [ wave EXCEPT !.at = "load", !.file = fileIndex ]
        /\ UNCHANGED << play, touch >>
     \/ wave' = [ wave EXCEPT !.at = "idle" ] /\ UNCHANGED << play, touch >>
     \/ fileIndex \notin Files /\ Crash
  /\ UNCHANGED << fileIndex, fileIndexChanged, mWaveChanged, mMp3PlayFrame, mWaveLoadFrame,
                  offsetOf >>

\* A frame's offset, then the count; until the file ends, a read fails, or the
\* index is another.
WaveOffset ==
  /\ wave.at = "load" /\ mWaveLoadFrame < NumFrames
  /\ offsetOf' = [ offsetOf EXCEPT ![mWaveLoadFrame] = wave.file ]
  /\ wave' = [ wave EXCEPT !.at = "count" ]
  /\ UNCHANGED << fileIndex, fileIndexChanged, mWaveChanged, mMp3PlayFrame, mWaveLoadFrame, play, touch >>

\* Mutant: loadedFileIndex is taken again with every frame.
WaveCountLate ==
  /\ wave.at = "count"
  /\ mWaveLoadFrame' = mWaveLoadFrame + 1
  /\ wave' = [ wave EXCEPT !.at = "load", !.loaded = fileIndex ]
  /\ UNCHANGED << fileIndex, fileIndexChanged, mWaveChanged, mMp3PlayFrame, offsetOf, play, touch >>

WaveCount ==
  /\ wave.at = "count"
  /\ mWaveLoadFrame' = mWaveLoadFrame + 1
  /\ wave' = [ wave EXCEPT !.at = IF fileIndex = wave.loaded THEN "load" ELSE "idle" ]
  /\ UNCHANGED << fileIndex, fileIndexChanged, mWaveChanged, mMp3PlayFrame, offsetOf, play, touch >>

WaveEnd ==
  /\ wave.at = "load"
  /\ wave' = [ wave EXCEPT !.at = "idle" ]
  /\ UNCHANGED << fileIndex, fileIndexChanged, mWaveChanged, mMp3PlayFrame, mWaveLoadFrame,
                  offsetOf, play, touch >>

\* Mutant: the wave is loaded for the first file only.
WaveNeverAgain == FALSE /\ UNCHANGED mp3Vars

\* Every 100 ms the index is looked at again.
WaveAgain ==
  /\ wave.at = "idle" /\ fileIndex # wave.loaded
  /\ wave' = AnotherFile
  /\ UNCHANGED << fileIndex, fileIndexChanged, mWaveChanged, mMp3PlayFrame, mWaveLoadFrame,
                  offsetOf, play, touch >>

-----------------------------------------------------------------------------
\* cListWidget (external): the index of the file touched, then the flag.
TouchFile ==
  /\ touch.at = "idle" /\ play.at # "crashed"
  /\ \E file \in Files :
       /\ SetFileIndex(file, wave.at)
       /\ touch' = [ touch EXCEPT !.at = "set", !.choice = file,
                                  !.raced = (play.at = "advance") ]
  /\ UNCHANGED << fileIndexChanged, mWaveChanged, mMp3PlayFrame, mWaveLoadFrame, offsetOf, play >>

TouchFlag ==
  /\ touch.at = "set" /\ play.at # "crashed"
  /\ fileIndexChanged' = TRUE
  /\ touch' = [ touch EXCEPT !.at = "idle" ]
  /\ UNCHANGED << fileIndex, mWaveChanged, mMp3PlayFrame, mWaveLoadFrame, offsetOf, play, wave >>

\* The wave widgets (external): a frame among those loaded, then the flag.
TouchFrame ==
  /\ touch.at = "idle" /\ play.at # "crashed"
  /\ \E frame \in { f \in Frames : f < mWaveLoadFrame } :
       /\ mMp3PlayFrame' = frame
       /\ touch' = IF play.at = "store" THEN [ Spoil EXCEPT !.at = "moved", !.seek = TRUE ]
                   ELSE [ touch EXCEPT !.at = "moved", !.seek = TRUE, !.frame = frame,
                                       !.spoilt = FALSE ]
  /\ UNCHANGED << fileIndex, fileIndexChanged, mWaveChanged, mWaveLoadFrame, offsetOf, play, wave >>

TouchWave ==
  /\ touch.at = "moved" /\ play.at # "crashed"
  /\ mWaveChanged' = TRUE
  /\ touch' = [ (IF play.at = "seeked" THEN NoSeek ELSE touch) EXCEPT !.at = "idle" ]
  /\ UNCHANGED << fileIndex, fileIndexChanged, mMp3PlayFrame, mWaveLoadFrame, offsetOf, play, wave >>

PlayTask ==
  Mount \/ PlayReset \/ PlayOpen \/ PlayFrame \/ PlayStore \/ PlayLook \/ Seek \/ SeekClear
        \/ PlayNext \/ PlayAdvance \/ PlayClear
WaveTask ==
  play.at # "crashed"
    /\ (WaveRead \/ WaveOpen \/ WaveOffset \/ WaveCount \/ WaveEnd \/ WaveAgain)

Mp3Next == PlayTask \/ WaveTask \/ TouchFile \/ TouchFlag \/ TouchFrame \/ TouchWave

-----------------------------------------------------------------------------
Plays ==
  [ at : { "mount", "gone", "reset", "open", "frame", "store", "look", "seek", "seeked",
           "next", "advance", "clear", "crashed" },
    position : 0 .. NumFrames, count : 0 .. NumFrames ]
Waves ==
  [ at : { "none", "read", "open", "load", "count", "idle" },
    loaded : 0 .. NoFile, file : Files \union { NoFile }, back : BOOLEAN ]
Touches ==
  [ at : { "idle", "set", "moved" }, choice : Files \union { NoFile }, raced : BOOLEAN,
    seek : BOOLEAN, frame : 0 .. NumFrames, spoilt : BOOLEAN ]

Mp3TypeOK ==
  /\ fileIndex \in 0 .. NumFiles
  /\ fileIndexChanged \in BOOLEAN /\ mWaveChanged \in BOOLEAN
  /\ mMp3PlayFrame \in 0 .. NumFrames /\ mWaveLoadFrame \in 0 .. NumFrames
  /\ offsetOf \in [ Frames -> Files \union { NoFile } ]
  /\ play \in Plays /\ wave \in Waves /\ touch \in Touches

\* What the user touches is done: the next file opened is the one chosen; the flag of a
\* position touched stands until it has been sought; and it is sought by the frame
\* touched or, as the play task counts its frame before it looks, the one after.  Unless
\* the file was touched between the play task's test of fileIndexChanged and its own change
\* of fileIndex; the wave's flag was set between the seek and its clearing; or the play
\* task counted a frame across the frame touched or before its flag was set (spoilt).
\* With the file it was touched in a position is given up.
NoTouchLost ==
  /\ play.at = "open" /\ touch.choice # NoFile /\ ~touch.raced
       => fileIndex = touch.choice
  /\ touch.seek => mWaveChanged \/ touch.at = "moved"
  /\ touch.seek /\ ~touch.spoilt /\ play.at = "seek"
       => mMp3PlayFrame \in { touch.frame, touch.frame + 1 }

\* The offsets below mWaveLoadFrame, which the wave is drawn and sought by, are
\* all of the file that the wave task opened.
TableIsOfOneFile ==
  wave.file # NoFile => \A f \in Frames : f < mWaveLoadFrame => offsetOf[f] = wave.file

\* As long as the wave task believes its file is the one selected, it is the one
\* it opened, unless fileIndex went away and came back while it loaded.
WaveIsOfTheFile ==
  wave.file # NoFile /\ wave.loaded = fileIndex /\ ~wave.back => wave.file = fileIndex

\* The play task opens files for ever, and the wave task catches up with it, if
\* the file system mounts, nothing crashes and nobody keeps touching the wave.
PlayGoesOn ==
  \/ <>(play.at \in { "gone", "crashed" })
  \/ []<>(play.at = "seek")
  \/ []<>(play.at = "open") /\ []<>(wave.loaded = fileIndex)
=============================================================================
