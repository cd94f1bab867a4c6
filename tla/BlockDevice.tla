----------------------------- MODULE BlockDevice -----------------------------
(***************************************************************************)
(* What the SD layer (src/Bsp/cSd.cpp) promises its clients, the USB mass  *)
(* storage class and the FAT file system: a disk of numbered blocks that   *)
(* serves one request at a time.  An answered read shows the disk as it    *)
(* is, an answered write has replaced the blocks it names and no other,    *)
(* and a request that is refused has changed nothing.  There is no cache.  *)
(***************************************************************************)
EXTENDS Naturals

CONSTANTS
  Capacity,  \* the number of blocks of the card
  MaxCount,  \* the largest number of blocks in one request
  Data       \* the contents a block may have

VARIABLES
  disk,      \* the contents of every block
  request,   \* the request being served
  answer     \* the last answer

vars == << disk, request, answer >>

Blocks == 0 .. Capacity - 1

Silence == [ ok |-> FALSE, data |-> << >> ]
Idle == [ at |-> "idle", op |-> "none", block |-> 0, count |-> 0, data |-> << >> ]

\* The disk after a write of count blocks from block on.
Replaced(d, block, count, data) ==
  [ b \in Blocks |-> IF b \in block .. block + count - 1 THEN data[b - block] ELSE d[b] ]

Init ==
  /\ disk \in [ Blocks -> Data ]
  /\ request = Idle
  /\ answer = Silence

AskRead(block, count) ==
  /\ request.at = "idle"
  /\ request' = [ at |-> "asked", op |-> "read", block |-> block, count |-> count, data |-> << >> ]
  /\ answer' = Silence
  /\ UNCHANGED disk

AskWrite(block, count, data) ==
  /\ request.at = "idle"
  /\ request' = [ at |-> "asked", op |-> "write", block |-> block, count |-> count, data |-> data ]
  /\ answer' = Silence
  /\ UNCHANGED disk

Read ==
  /\ request.at = "asked" /\ request.op = "read"
  /\ answer' = [ ok |-> TRUE,
                 data |-> [ i \in 0 .. request.count - 1 |-> disk[request.block + i] ] ]
  /\ request' = Idle
  /\ UNCHANGED disk

Write ==
  /\ request.at = "asked" /\ request.op = "write"
  /\ disk' = Replaced(disk, request.block, request.count, request.data)
  /\ request' = [ request EXCEPT !.at = "done" ]
  /\ UNCHANGED answer

Written ==
  /\ request.at = "done"
  /\ answer' = [ ok |-> TRUE, data |-> << >> ]
  /\ request' = Idle
  /\ UNCHANGED disk

Refuse ==
  /\ request.at = "asked"
  /\ request' = Idle
  /\ answer' = Silence
  /\ UNCHANGED disk

Next ==
  \/ \E block \in Blocks, count \in 1 .. MaxCount :
       /\ block + count <= Capacity
       /\ \/ AskRead(block, count)
          \/ \E data \in [ 0 .. count - 1 -> Data ] : AskWrite(block, count, data)
  \/ Read \/ Write \/ Written \/ Refuse

Spec == Init /\ [][Next]_vars

=============================================================================
