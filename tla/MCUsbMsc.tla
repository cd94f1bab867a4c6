------------------------------ MODULE MCUsbMsc ------------------------------
(* An instance of UsbMsc. *)
EXTENDS UsbMsc

\* From block 1 on there are three blocks: a transfer of three takes two packets, one
\* of four is out of range.
FirstBlock == { 1 }
ThreeOrFour == { 3, 4 }
=============================================================================
