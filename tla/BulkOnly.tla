------------------------------ MODULE BulkOnly ------------------------------
(***************************************************************************)
(* What the USB mass storage class (src/USB_Device/usbd_msc.c) promises    *)
(* the computer it is plugged into, one command at a time: blocks move in  *)
(* order, each to or from its own place, and the status that ends the      *)
(* command names the command, counts the bytes that did not move, and says *)
(* "passed" of a read or a write only when every block has moved.  A       *)
(* command may be lost, when the host gives up and resets the device.      *)
(* There are no endpoints, buffers or stalls.                              *)
(***************************************************************************)
EXTENDS Naturals, Sequences

CONSTANTS
  Commands,   \* the commands of the host
  BlockSize,  \* bytes in a block
  Packet      \* the most bytes that move in one step

VARIABLES
  job,        \* the command being served, or NoCommand
  moved,      \* what has moved: pairs of a block of the card and its place in the transfer
  reply       \* the status of the last command

vars == << job, moved, reply >>

NoCommand == [ op |-> "none" ]
NoReply == [ status |-> "none" ]
Tags == { 0, 1 }
Statuses == { "passed", "failed" }

MovesBlocks(c) == c.op \in { "READ10", "WRITE10" }

\* The bytes that have moved; the reply to another command is counted by the byte.
Bytes(c, m) == Len(m) * (IF MovesBlocks(c) THEN BlockSize ELSE 1)

\* Block k of the transfer is block lba + k - 1 of the card.
InPlace(c, m) == MovesBlocks(c) => \A k \in DOMAIN m : m[k] = << c.lba + k - 1, k >>

Init == job = NoCommand /\ moved = << >> /\ reply = NoReply

Issue ==
  /\ job = NoCommand
  /\ \E c \in Commands, tag \in Tags : job' = [ command |-> c, tag |-> tag ]
  /\ moved' = << >> /\ reply' = NoReply

Move ==
  /\ job # NoCommand
  /\ moved' # moved
  /\ SubSeq(moved', 1, Len(moved)) = moved
  /\ Bytes(job.command, moved') <= job.command.len
  /\ Bytes(job.command, moved') <= Bytes(job.command, moved) + Packet
  /\ InPlace(job.command, moved')
  /\ UNCHANGED << job, reply >>

Answer ==
  /\ job # NoCommand
  /\ \E status \in Statuses :
       /\ reply' = [ status |-> status, tag |-> job.tag,
                     residue |-> job.command.len - Bytes(job.command, moved) ]
       /\ (status = "passed" /\ MovesBlocks(job.command)) =>
            Bytes(job.command, moved) = job.command.len
  /\ job' = NoCommand
  /\ UNCHANGED moved

Lose ==
  /\ job # NoCommand
  /\ job' = NoCommand
  /\ UNCHANGED << moved, reply >>

Next == Issue \/ Move \/ Answer \/ Lose

Spec == Init /\ [][Next]_vars

=============================================================================
