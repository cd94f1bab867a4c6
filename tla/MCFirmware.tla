----------------------------- MODULE MCFirmware -----------------------------
(* An instance of Firmware. *)
EXTENDS Firmware

CONSTANTS t1, t2

TwoLoggers == { t1, t2 }
OneOrTwo == { 1, 2 }
=============================================================================
