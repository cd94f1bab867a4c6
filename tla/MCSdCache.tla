------------------------------ MODULE MCSdCache ------------------------------
(* Instances of SdCache. *)
EXTENDS SdCache

CONSTANTS d1, d2

TwoContents == { d1, d2 }
Removed == { "removed" }
ReadErrors == { "readError" }
NoFaults == {}
=============================================================================
