------------------------------ MODULE HlsPlayer ------------------------------
(***************************************************************************)
(* Internet radio, src/main/main.cpp.  The loader task loads the segment   *)
(* of the stream that is played next and sleeps on mHlsSem, without a      *)
(* limit; the player task, woken by the audio, plays the segments and      *)
(* gives mHlsSem when the loader has something to do.  The class cHls is   *)
(* external: it is modelled by what the two tasks take it to do.           *)
(***************************************************************************)
EXTENDS Naturals

CONSTANT NumSegments \* segments of the stream, followed by its end

ASSUME HlsAssumption == NumSegments \in Nat \ {0}

VARIABLES
  mChanChanged, \* the user has chosen another channel
  mode,         \* getScrubbing and getPlaying
  wanted,       \* the segment that the play position is in
  ready,        \* the segments loaded
  mHlsSem,
  loader,       \* where the loader is
  speaker       \* where the player is, with seqNum and lastSeqNum

hlsVars == << mChanChanged, mode, wanted, ready, mHlsSem, loader, speaker >>

Segments == 1 .. NumSegments
Modes == { "paused", "playing", "scrubbing" }

\* As cHls leaves it: the user's actions below can come first.
HlsInit ==
  /\ mChanChanged = FALSE /\ mode = "paused"
  /\ wanted = 1 /\ ready = {}
  /\ mHlsSem = 1
  /\ loader = "top"
  /\ speaker = [ at |-> "wait", seqNum |-> 0, lastSeqNum |-> 0 ]

\* The loader sets the channel, tries to load, and waits.
SetChan ==
  /\ loader = "top" /\ mChanChanged
  /\ mChanChanged' = FALSE
  /\ wanted' = 1 /\ ready' = {}
  /\ loader' = "load"
  /\ UNCHANGED << mode, mHlsSem, speaker >>

SameChan ==
  /\ loader = "top" /\ ~mChanChanged
  /\ loader' = "load"
  /\ UNCHANGED << mChanChanged, mode, wanted, ready, mHlsSem, speaker >>

\* loadAtPlayFrame, which may fail; there is a delay then, and no second try.
Load ==
  /\ loader = "load"
  /\ \E got \in SUBSET { wanted } : ready' = ready \union got
  /\ loader' = "wait"
  /\ UNCHANGED << mChanChanged, mode, wanted, mHlsSem, speaker >>

LoaderTake ==
  /\ loader = "wait" /\ mHlsSem = 1
  /\ mHlsSem' = 0
  /\ loader' = "top"
  /\ UNCHANGED << mChanChanged, mode, wanted, ready, speaker >>

\* On each audio signal: getPlaySamples says which segment it plays, 0 if it is
\* not there; the position moves on while there is something to play, but not by
\* scrubbing, which plays the same few frames again.
Speak ==
  /\ speaker.at = "wait"
  /\ IF mode # "paused"
     THEN LET found == IF wanted \in ready THEN wanted ELSE 0 IN
          /\ speaker' = [ speaker EXCEPT !.at = "give", !.seqNum = found ]
          /\ wanted' \in IF found # 0 /\ mode = "playing"
                         THEN { wanted, wanted + 1 } \intersect Segments
                         ELSE { wanted }
     ELSE speaker' = [ speaker EXCEPT !.at = "give" ] /\ UNCHANGED wanted
  /\ UNCHANGED << mChanChanged, mode, ready, mHlsSem, loader >>

\* mHlsSem is given for a new channel, a missing segment and a new segment.
Told(give) ==
  /\ speaker.at = "give"
  /\ mHlsSem' = IF give THEN 1 ELSE mHlsSem
  /\ speaker' = [ speaker EXCEPT !.at = "wait",
                    !.lastSeqNum = IF give THEN speaker.seqNum ELSE @ ]
  /\ UNCHANGED << mChanChanged, mode, wanted, ready, loader >>

NewSeqNum == speaker.seqNum # speaker.lastSeqNum

\* Mutant: a missing segment is no reason.
TellNotMissing == Told(mChanChanged \/ NewSeqNum)

Tell == Told(mChanChanged \/ speaker.seqNum = 0 \/ NewSeqNum)

\* The user (hlsMenu, external): another channel; pause, play or scrub; another
\* position.
ChangeChan ==
  /\ ~mChanChanged /\ mChanChanged' = TRUE
  /\ UNCHANGED << mode, wanted, ready, mHlsSem, loader, speaker >>

SetMode ==
  /\ mode' \in Modes \ { mode }
  /\ UNCHANGED << mChanChanged, wanted, ready, mHlsSem, loader, speaker >>

Scrub ==
  /\ wanted' \in Segments \ { wanted }
  /\ UNCHANGED << mChanChanged, mode, ready, mHlsSem, loader, speaker >>

LoaderTask == SetChan \/ SameChan \/ Load \/ LoaderTake
SpeakerTask == Speak \/ Tell
HlsNext == LoaderTask \/ SpeakerTask \/ ChangeChan \/ SetMode \/ Scrub

-----------------------------------------------------------------------------
HlsTypeOK ==
  /\ mChanChanged \in BOOLEAN /\ mode \in Modes
  /\ wanted \in Segments /\ ready \subseteq Segments /\ mHlsSem \in { 0, 1 }
  /\ loader \in { "top", "load", "wait" }
  /\ speaker \in [ at : { "wait", "give" }, seqNum : 0 .. NumSegments,
                   lastSeqNum : 0 .. NumSegments ]

\* The loader serves: a new channel is set in the end, wherever the loader was when
\* the user chose it and whether or not anything plays; a segment that is missing while
\* it should be heard is tried (again and again, if loading fails), unless playing
\* stops or the position moves.
Missing(s) == mode # "paused" /\ wanted = s /\ s \notin ready
LoaderServes ==
  /\ mChanChanged ~> ~mChanChanged
  /\ \A s \in Segments : Missing(s) ~> (loader = "load" \/ ~Missing(s))
=============================================================================
