------------------------------ MODULE Firmware ------------------------------
(***************************************************************************)
(* The tasks and interrupts of the firmware around the card: the display,  *)
(* the two players, the sound, the Ethernet and the USB device core.  The  *)
(* seven parts share no variable and none waits for another (mainThread of *)
(* src/main/main.cpp starts one player or the other; the tasks meet only   *)
(* in the log lines, which LcdLines has for any tasks).  So the steps of   *)
(* one part neither enable nor disable those of another, and each is       *)
(* followed by itself: "part" says which, and never changes.               *)
(***************************************************************************)
EXTENDS LcdRender, LcdLines, Mp3Player, AudioOut, HlsPlayer, EthernetInput, UsbCore

VARIABLE part

vars == << part, renderVars, linesVars, mp3Vars, audioVars, hlsVars, ethVars, usbVars >>

Parts == { "render", "lines", "mp3", "audio", "hls", "eth", "usb" }

Init ==
  /\ part \in Parts
  /\ RenderInit /\ LinesInit /\ Mp3Init /\ AudioInit /\ HlsInit /\ EthInit /\ UsbInit
  /\ part # "audio" => player = "mp3"

Others(followed) ==
  /\ part = followed /\ part' = part
  /\ followed # "render" => UNCHANGED renderVars
  /\ followed # "lines" => UNCHANGED linesVars
  /\ followed # "mp3" => UNCHANGED mp3Vars
  /\ followed # "audio" => UNCHANGED audioVars
  /\ followed # "hls" => UNCHANGED hlsVars
  /\ followed # "eth" => UNCHANGED ethVars
  /\ followed # "usb" => UNCHANGED usbVars

Next ==
  \/ Others("render") /\ RenderNext
  \/ Others("lines") /\ LinesNext
  \/ Others("mp3") /\ Mp3Next
  \/ Others("audio") /\ AudioNext
  \/ Others("hls") /\ HlsNext
  \/ Others("eth") /\ EthNext
  \/ Others("usb") /\ UsbNext

\* Every task that can run runs in the end.  Nothing is assumed of the engines of
\* the display, whose waits are limited; the audio stream does go on for ever,
\* which wakes the HLS player.  A host goes on with its requests.
Fairness ==
  /\ WF_vars(Others("render") /\ RenderTask)
  /\ WF_vars(Others("mp3") /\ PlayTask)
  /\ WF_vars(Others("mp3") /\ WaveTask)
  /\ WF_vars(Others("hls") /\ LoaderTask)
  /\ WF_vars(Others("hls") /\ SpeakerTask)
  /\ WF_vars(Others("usb") /\ UsbTransfer)

Spec == Init /\ [][Next]_vars /\ Fairness

\* The types of all parts.
TypeOK ==
  /\ part \in Parts
  /\ RenderTypeOK /\ LinesTypeOK /\ Mp3TypeOK /\ AudioTypeOK /\ HlsTypeOK /\ EthTypeOK
  /\ UsbTypeOK

\* RenderGoesOn of LcdRender and PlayGoesOn of Mp3Player, each of the runs that follow
\* its part: no task stays in a wait.
TasksGoOn ==
  /\ part = "render" => RenderGoesOn
  /\ part = "mp3" => PlayGoesOn

\* LoaderServes of HlsPlayer: the loader takes up every change of the channel and
\* every segment that is missing.
LoaderGoesOn == part = "hls" => LoaderServes

\* RequestsAnswered of UsbCore: the host gets an answer to every request but those that
\* the code overlooks.
HostGoesOn == part = "usb" => RequestsAnswered
=============================================================================
