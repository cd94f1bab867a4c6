------------------------------ MODULE AudioOut ------------------------------
(***************************************************************************)
(* Sound, src/main/main.cpp.  The DMA plays a buffer of two halves round   *)
(* and round; at the end of each half its interrupt sets mAudHalf and      *)
(* signals mAudSem, and the player task fills the half that is free.  It   *)
(* decodes into that half for milliseconds, while the DMA goes on.  The    *)
(* MP3 player waits 100 ms at most and fills all the same, and stops the   *)
(* stream after each file; the HLS player fills on a signal only.          *)
(***************************************************************************)
EXTENDS Naturals

VARIABLES
  player,   \* "mp3" or "hls"
  task,     \* "stopped", "take", "choose" or "write"
  mAudHalf, \* the first half has been played
  mAudSem,
  playing,  \* the half that the DMA plays
  target,   \* the half that is being written, or was written last
  filled,   \* the halves filled that have not been played yet
  slip,     \* player and DMA may be out of step
  lost      \* a half was spoilt since they were last in step

audioVars == << player, task, mAudHalf, mAudSem, playing, target, filled, slip, lost >>

AudioInit ==
  /\ player \in { "mp3", "hls" }
  /\ task = "stopped"
  /\ mAudHalf = FALSE /\ mAudSem = 1
  /\ playing = 0 /\ target = 0 /\ filled = {}
  /\ slip = FALSE /\ lost = FALSE

\* The buffer is cleared and the stream started; flag and signal are as the
\* last stream left them.
Play ==
  /\ task = "stopped"
  /\ task' = "take" /\ playing' = 0 /\ filled' = {}
  /\ slip' = mAudHalf /\ lost' = FALSE
  /\ UNCHANGED << player, mAudHalf, mAudSem, target >>

Take ==
  /\ task = "take" /\ mAudSem = 1
  /\ mAudSem' = 0 /\ task' = "choose"
  /\ UNCHANGED << player, mAudHalf, playing, target, filled, slip, lost >>

\* 100 ms without a signal: the MP3 player goes on.
TakeLate ==
  /\ task = "take" /\ mAudSem = 0 /\ player = "mp3"
  /\ task' = "choose" /\ slip' = TRUE
  /\ UNCHANGED << player, mAudHalf, mAudSem, playing, target, filled, lost >>

\* The half to fill is the one that mAudHalf says has been played; it is passed by
\* value, and from now on it is written.
Choose ==
  /\ task = "choose"
  /\ target' = IF mAudHalf THEN 0 ELSE 1
  /\ lost' = (lost \/ target' = playing \/ target' \in filled)
  /\ task' = "write"
  /\ UNCHANGED << player, mAudHalf, mAudSem, playing, filled, slip >>

\* The last sample is written.
Written ==
  /\ task = "write"
  /\ filled' = IF target = playing THEN filled ELSE filled \union { target }
  /\ task' = "take"
  /\ UNCHANGED << player, mAudHalf, mAudSem, playing, target, slip, lost >>

\* The MP3 player's file has ended.
Stop ==
  /\ task = "take" /\ player = "mp3"
  /\ task' = "stopped"
  /\ UNCHANGED << player, mAudHalf, mAudSem, playing, target, filled, slip, lost >>

\* Both callbacks.  An interrupt that finds the player at work comes too early, and the
\* half that the DMA turns to may be the one that is being written.  One that finds it
\* waiting with the next half filled brings the two in step again.
AtWork == task \in { "choose", "write" }
InStepNow == task = "take" /\ mAudSem = 0 /\ filled = { 1 - playing }

\* Mutant: the flag is set by the wrong one of the two.
TransferredSwapped ==
  /\ task # "stopped"
  /\ playing' = 1 - playing
  /\ mAudHalf' = (playing' = 0)
  /\ mAudSem' = 1
  /\ filled' = filled \ { playing' }
  /\ slip' = (~InStepNow /\ (slip \/ AtWork))
  /\ lost' = (~InStepNow /\ (lost \/ (task = "write" /\ target = playing')))
  /\ UNCHANGED << player, task, target >>

Transferred ==
  /\ task # "stopped"
  /\ playing' = 1 - playing
  /\ mAudHalf' = (playing' = 1)
  /\ mAudSem' = 1
  /\ filled' = filled \ { playing' }
  /\ slip' = (~InStepNow /\ (slip \/ AtWork))
  /\ lost' = (~InStepNow /\ (lost \/ (task = "write" /\ target = playing')))
  /\ UNCHANGED << player, task, target >>

AudioNext == Play \/ Take \/ TakeLate \/ Choose \/ Written \/ Stop \/ Transferred

-----------------------------------------------------------------------------
AudioTypeOK ==
  /\ player \in { "mp3", "hls" } /\ task \in { "stopped", "take", "choose", "write" }
  /\ mAudHalf \in BOOLEAN /\ mAudSem \in { 0, 1 }
  /\ playing \in { 0, 1 } /\ target \in { 0, 1 } /\ filled \subseteq { 0, 1 }
  /\ slip \in BOOLEAN /\ lost \in BOOLEAN

\* The half being written is not being played, and what was filled is played before it
\* is written again, unless the player is out of step: it went on without a signal, an
\* interrupt came before it had written what the last one asked for, or the stream began
\* with the mAudHalf of the last one.  The next interrupt that finds it waiting with a
\* half filled brings it back into step.
AudioKept == lost => slip
=============================================================================
