------------------------------- MODULE UsbMsc -------------------------------
(***************************************************************************)
(* The USB mass storage class, src/USB_Device/usbd_msc.c: the bulk-only    *)
(* transport with its two bulk endpoints and stalls, and the SCSI commands *)
(* it serves, from the end of USBD_MSC_Init on, together with a host that  *)
(* keeps to the bulk-only protocol.                                        *)
(*                                                                         *)
(* A step is one transfer on the bus and the handler it runs in the USB    *)
(* interrupt.  They are one step because the device answers NAK until the  *)
(* handler has armed the endpoint again.  The host may run out of patience *)
(* at any moment and start a reset recovery.  Each call of the SD layer    *)
(* may fail, as the card comes and goes.                                   *)
(*                                                                         *)
(* Lengths are in bytes, as in the code, but a reply that is not a block   *)
(* of the card (INQUIRY and the like) is one byte long.                    *)
(***************************************************************************)
EXTENDS Naturals, Sequences

CONSTANTS
  BlockSize,         \* scsi_blk_size
  Blocks,            \* scsi_blk_nbr, as READ CAPACITY reports it
  MSC_MEDIA_PACKET,  \* the size of bot_data, a number of blocks
  SENSE_LIST_DEPTH,  \* the size of the ring of sense codes
  Word,              \* 2^32: addresses have 32 bits
  HalfWord,          \* 2^16: the blocks of a READ or WRITE, and of a range, have 16
  Lbas,              \* the first blocks that the host asks for
  Counts             \* the numbers of blocks that the host asks for

ASSUME MscAssumption ==
  /\ BlockSize \in Nat \ {0} /\ Blocks \in Nat \ {0}
  /\ MSC_MEDIA_PACKET \in Nat \ {0} /\ MSC_MEDIA_PACKET % BlockSize = 0
  /\ SENSE_LIST_DEPTH \in Nat \ {0, 1}
  /\ Word \in Nat \ {0} /\ HalfWord \in Nat \ {0}
  /\ Lbas \subseteq 0 .. Word - 1
  /\ Counts \subseteq 1 .. HalfWord - 1   \* a READ of no blocks would send an empty packet before the status

VARIABLES
  dev,        \* hmsc, the two endpoints, and as a history the last failure not asked about
  phase,      \* what the host is doing
  cmd,        \* its command
  moved,      \* the blocks of the command that have arrived: at the host, or on the card
  sent,       \* the blocks that the host has sent
  reply,      \* the last status the host has received
  disturbed   \* history: the host has given up, or the card has gone during a transfer

vars == << dev, phase, cmd, moved, sent, reply, disturbed >>

-----------------------------------------------------------------------------
(* Commands: a direction and a length for the transport, an operation, a first *)
(* block and a number of blocks for SCSI.                                      *)

Command(op, dir, len, lba, n) == [ op |-> op, dir |-> dir, len |-> len, lba |-> lba, n |-> n ]

MovesBlocks(c) == c.op \in { "READ10", "WRITE10" }

NoDataCommands ==
  { Command(op, "out", 0, 0, 0) : op \in { "TEST_UNIT_READY", "START_STOP_UNIT", "VERIFY10", "OTHER" } }

\* The host allows for as much as the device has, or for more.
ReplyCommands ==
  { Command(op, "in", len, 0, 0) :
      op \in { "INQUIRY", "REQUEST_SENSE", "READ_CAPACITY10", "READ_FORMAT_CAPACITIES" }, len \in { 1, 2 } }

\* Operations that the device does not know, with data to send or to receive.
UnknownCommands == { Command("OTHER", dir, 1, 0, 0) : dir \in { "in", "out" } }

\* The length of the transport may exceed that of the SCSI command.
BlockCommands ==
  { Command(op, IF op = "READ10" THEN "in" ELSE "out", (n + more) * BlockSize, lba, n) :
      op \in { "READ10", "WRITE10" }, lba \in Lbas, n \in Counts, more \in { 0, 1 } }

Commands == NoDataCommands \cup ReplyCommands \cup UnknownCommands \cup BlockCommands

Tags == { 0, 1 }
SenseCodes ==
  { "INVALID_CDB", "MEDIUM_NOT_PRESENT", "ADDRESS_OUT_OF_RANGE", "UNRECOVERED_READ_ERROR", "WRITE_FAULT" }

\* What a packet of data leaves in memory where a command should be.
Stray == Command("OTHER", "out", 1, 0, 0)
StrayTag == 2

\* Packets on their way to the host.
Nothing == [ kind |-> "nothing" ]
Data(content) == [ kind |-> "data", content |-> content ]
Csw(tag, residue, status) == [ kind |-> "csw", tag |-> tag, residue |-> residue, status |-> status ]

AtMost(a, limit) == IF a < limit THEN a ELSE limit

-----------------------------------------------------------------------------
(* The handlers of the device, as functions of dev.  Those that return a result *)
(* code give a record: ok, and dev as they leave it.                            *)

Fails(d) == [ ok |-> FALSE, dev |-> d ]
Succeeds(d) == [ ok |-> TRUE, dev |-> d ]

BOT_SendCSW(d, status) ==
  [ d EXCEPT !.bot_state = "IDLE", !.in = Csw(d.tag, d.residue, status), !.out = "cbw" ]

\* Mutant: the tail does not wrap round.
SCSI_SenseCodeLinear(d, code) == [ d EXCEPT !.sense = Append(@, code), !.why = code ]

\* The ring of sense codes, from head to tail.  When it is full it looks empty.
SCSI_SenseCode(d, code) ==
  [ d EXCEPT !.sense = IF Len(@) = SENSE_LIST_DEPTH - 1 THEN << >> ELSE Append(@, code),
             !.why = code ]

FailsWith(d, code) == Fails(SCSI_SenseCode(d, code))

\* SCSI_CheckAddressRange takes the number of blocks as a uint16_t.
OutOfRange(d, blk_offset, blk_nbr) ==
  (blk_offset + (blk_nbr % HalfWord)) % Word > d.scsi_blk_nbr

\* Mutant: the address is not moved on.
SCSI_ProcessReadSame(d, media) ==
  LET len == AtMost(d.scsi_blk_len, MSC_MEDIA_PACKET)
      first == d.scsi_blk_addr \div BlockSize
  IN IF ~media THEN FailsWith(d, "UNRECOVERED_READ_ERROR")
     ELSE Succeeds([ d EXCEPT
            !.in = Data([ k \in 1 .. len \div BlockSize |-> first + k - 1 ]),
            !.scsi_blk_len = @ - len,
            !.residue = @ - len,
            !.bot_state = IF d.scsi_blk_len = len THEN "LAST_DATA_IN" ELSE @ ])

\* Mutant: the last packet is not noticed as such.
SCSI_ProcessReadOneMore(d, media) ==
  LET len == AtMost(d.scsi_blk_len, MSC_MEDIA_PACKET)
      first == d.scsi_blk_addr \div BlockSize
  IN IF ~media THEN FailsWith(d, "UNRECOVERED_READ_ERROR")
     ELSE Succeeds([ d EXCEPT
            !.in = Data([ k \in 1 .. len \div BlockSize |-> first + k - 1 ]),
            !.scsi_blk_addr = (@ + len) % Word,
            !.scsi_blk_len = @ - len,
            !.residue = @ - len,
            !.bot_state = IF d.scsi_blk_len = 0 THEN "LAST_DATA_IN" ELSE @ ])

SCSI_ProcessRead(d, media) ==
  LET len == AtMost(d.scsi_blk_len, MSC_MEDIA_PACKET)
      first == d.scsi_blk_addr \div BlockSize
  IN IF ~media THEN FailsWith(d, "UNRECOVERED_READ_ERROR")
     ELSE Succeeds([ d EXCEPT
            !.in = Data([ k \in 1 .. len \div BlockSize |-> first + k - 1 ]),
            !.scsi_blk_addr = (@ + len) % Word,
            !.scsi_blk_len = @ - len,
            !.residue = @ - len,
            !.bot_state = IF d.scsi_blk_len = len THEN "LAST_DATA_IN" ELSE @ ])

\* Mutant: the status goes out, and the endpoint waits for a command, one packet early.
SCSI_ProcessWriteEarly(d, media) ==
  LET len == AtMost(d.scsi_blk_len, MSC_MEDIA_PACKET)
      moving == [ d EXCEPT !.scsi_blk_addr = (@ + len) % Word,
                           !.scsi_blk_len = @ - len,
                           !.residue = @ - len ]
  IN IF ~media THEN FailsWith(d, "WRITE_FAULT")
     ELSE IF moving.scsi_blk_len <= MSC_MEDIA_PACKET THEN Succeeds(BOT_SendCSW(moving, "passed"))
     ELSE Succeeds([ moving EXCEPT !.out = "data" ])

SCSI_ProcessWrite(d, media) ==
  LET len == AtMost(d.scsi_blk_len, MSC_MEDIA_PACKET)
      moving == [ d EXCEPT !.scsi_blk_addr = (@ + len) % Word,
                           !.scsi_blk_len = @ - len,
                           !.residue = @ - len ]
  IN IF ~media THEN FailsWith(d, "WRITE_FAULT")
     ELSE IF moving.scsi_blk_len = 0 THEN Succeeds(BOT_SendCSW(moving, "passed"))
     ELSE Succeeds([ moving EXCEPT !.out = "data" ])

SCSI_TestUnitReady(d, ready) ==
  IF d.cbw.len # 0 THEN FailsWith(d, "INVALID_CDB")
  ELSE IF ~ready THEN FailsWith([ d EXCEPT !.bot_state = "NO_DATA" ], "MEDIUM_NOT_PRESENT")
  ELSE Succeeds([ d EXCEPT !.bot_data = << >> ])

SCSI_ReadCapacity10(d, ready) ==
  IF ready THEN Succeeds([ d EXCEPT !.scsi_blk_nbr = Blocks, !.bot_data = << "capacity" >> ])
  ELSE FailsWith(d, "MEDIUM_NOT_PRESENT")

SCSI_ReadFormatCapacity(d, ready) ==
  IF ready THEN Succeeds([ d EXCEPT !.bot_data = << "capacity" >> ])
  ELSE FailsWith(d, "MEDIUM_NOT_PRESENT")

\* Mutant: the code stays in the ring.
SCSI_RequestSenseKeep(d) ==
  Succeeds([ d EXCEPT !.bot_data = << IF d.sense = << >> THEN "NO_SENSE" ELSE Head(d.sense) >>,
                      !.why = "NO_SENSE" ])

\* The oldest code leaves the ring.
SCSI_RequestSense(d) ==
  Succeeds([ d EXCEPT !.bot_data = << IF d.sense = << >> THEN "NO_SENSE" ELSE Head(d.sense) >>,
                      !.sense = IF @ = << >> THEN @ ELSE Tail(@),
                      !.why = "NO_SENSE" ])

SCSI_Read10(d, ready, media) ==
  LET c == d.cbw
      asked == [ d EXCEPT !.scsi_blk_addr = c.lba, !.scsi_blk_len = c.n ]
      started == [ asked EXCEPT !.bot_state = "DATA_IN",
                                !.scsi_blk_addr = (c.lba * BlockSize) % Word,
                                !.scsi_blk_len = c.n * BlockSize ]
  IN IF d.bot_state # "IDLE" THEN SCSI_ProcessRead(d, media)
     ELSE IF c.dir # "in" THEN FailsWith(d, "INVALID_CDB")
     ELSE IF ~ready THEN FailsWith(d, "MEDIUM_NOT_PRESENT")
     ELSE IF OutOfRange(d, c.lba, c.n) THEN FailsWith(asked, "ADDRESS_OUT_OF_RANGE")
     ELSE IF c.len # started.scsi_blk_len THEN FailsWith(started, "INVALID_CDB")
     ELSE SCSI_ProcessRead(started, media)

SCSI_Write10(d, ready, media) ==
  LET c == d.cbw
      asked == [ d EXCEPT !.scsi_blk_addr = c.lba, !.scsi_blk_len = c.n ]
      started == [ asked EXCEPT !.scsi_blk_addr = (c.lba * BlockSize) % Word,
                                !.scsi_blk_len = c.n * BlockSize ]
  IN IF d.bot_state # "IDLE" THEN SCSI_ProcessWrite(d, media)
     ELSE IF c.dir = "in" THEN FailsWith(d, "INVALID_CDB")
     ELSE IF ~ready THEN FailsWith(d, "MEDIUM_NOT_PRESENT")
     ELSE IF OutOfRange(d, c.lba, c.n) THEN FailsWith(asked, "ADDRESS_OUT_OF_RANGE")
     ELSE IF c.len # started.scsi_blk_len THEN FailsWith(started, "INVALID_CDB")
     ELSE Succeeds([ started EXCEPT !.bot_state = "DATA_OUT", !.out = "data" ])

\* The range checked is not the one of the command but what the last transfer left: a
\* number of bytes, cut to 16 bits.
SCSI_Verify10(d) ==
  IF OutOfRange(d, d.scsi_blk_addr, d.scsi_blk_len) THEN FailsWith(d, "ADDRESS_OUT_OF_RANGE")
  ELSE Succeeds([ d EXCEPT !.bot_data = << >> ])

\* INQUIRY stands for MODE SENSE as well, START STOP UNIT for ALLOW MEDIUM REMOVAL.
SCSI_ProcessCmd(d, ready, media) ==
  CASE d.cbw.op = "TEST_UNIT_READY" -> SCSI_TestUnitReady(d, ready)
    [] d.cbw.op = "REQUEST_SENSE" -> SCSI_RequestSense(d)
    [] d.cbw.op = "INQUIRY" -> Succeeds([ d EXCEPT !.bot_data = << "inquiry" >> ])
    [] d.cbw.op = "START_STOP_UNIT" -> Succeeds([ d EXCEPT !.bot_data = << >> ])
    [] d.cbw.op = "READ_FORMAT_CAPACITIES" -> SCSI_ReadFormatCapacity(d, ready)
    [] d.cbw.op = "READ_CAPACITY10" -> SCSI_ReadCapacity10(d, ready)
    [] d.cbw.op = "READ10" -> SCSI_Read10(d, ready, media)
    [] d.cbw.op = "WRITE10" -> SCSI_Write10(d, ready, media)
    [] d.cbw.op = "VERIFY10" -> SCSI_Verify10(d)
    [] OTHER -> FailsWith(d, "INVALID_CDB")

\* Mutant: only the IN endpoint is stalled.
BOT_AbortIn(d) ==
  [ d EXCEPT !.inStall = TRUE,
             !.out = IF d.bot_status = "ERROR" THEN "cbw" ELSE @ ]

BOT_Abort(d) ==
  [ d EXCEPT !.outStall = @ \/ (d.cbw.dir = "out" /\ d.cbw.len # 0 /\ d.bot_status = "NORMAL"),
             !.inStall = TRUE,
             !.out = IF d.bot_status = "ERROR" THEN "cbw" ELSE @ ]

BOT_SendData(d) ==
  LET len == AtMost(d.cbw.len, Len(d.bot_data))
  IN [ d EXCEPT !.residue = @ - len, !.bot_state = "SEND_DATA",
                !.in = Data(SubSeq(d.bot_data, 1, len)) ]

\* A packet has arrived where a command is expected: the command c, or data.
BOT_CBW_Decode(d, c, tag, valid, ready, media) ==
  LET got == [ d EXCEPT !.cbw = c, !.tag = tag, !.residue = c.len ]
      done == SCSI_ProcessCmd(got, ready, media)
  IN IF ~valid THEN BOT_Abort([ SCSI_SenseCode(got, "INVALID_CDB") EXCEPT !.bot_status = "ERROR" ])
     ELSE IF ~done.ok THEN
       IF done.dev.bot_state = "NO_DATA" THEN BOT_SendCSW(done.dev, "failed") ELSE BOT_Abort(done.dev)
     ELSE IF done.dev.bot_state \in { "DATA_IN", "DATA_OUT", "LAST_DATA_IN" } THEN done.dev
     ELSE IF done.dev.bot_data # << >> THEN BOT_SendData(done.dev)
     ELSE BOT_SendCSW(done.dev, "passed")

BOT_CplClrFeature(d, endpoint) ==
  IF d.bot_status = "ERROR" THEN [ d EXCEPT !.inStall = TRUE, !.bot_status = "NORMAL" ]
  ELSE IF endpoint = "in" /\ d.bot_status # "RECOVERY" THEN BOT_SendCSW(d, "failed")
  ELSE d

\* CLEAR_FEATURE of an endpoint: the stall is cleared, the endpoint flushed.
ClearFeature(d, endpoint) ==
  BOT_CplClrFeature(IF endpoint = "in" THEN [ d EXCEPT !.inStall = FALSE, !.in = Nothing ]
                    ELSE [ d EXCEPT !.outStall = FALSE ], endpoint)

\* Mutant: the endpoint is not armed for the next command.
BotResetUnarmed(d) == [ d EXCEPT !.bot_state = "IDLE", !.bot_status = "RECOVERY" ]

\* The class request BOT_RESET.
BotReset(d) == [ d EXCEPT !.bot_state = "IDLE", !.bot_status = "RECOVERY", !.out = "cbw" ]

\* A command block wrapper has arrived.
CommandOut(d, c, tag, ready, media) ==
  LET taken == [ d EXCEPT !.out = "off" ]
  IN IF d.bot_state = "IDLE" THEN BOT_CBW_Decode(taken, c, tag, TRUE, ready, media) ELSE taken

\* A packet of data has arrived in bot_data.
DataOut(d, ready, media) ==
  LET done == SCSI_ProcessCmd([ d EXCEPT !.out = "off" ], ready, media)
  IN IF done.ok THEN done.dev ELSE BOT_SendCSW(done.dev, "failed")

\* A packet of data has arrived in cbw.  It is longer than cbw: at full speed, with
\* packets of 64 bytes, it ends in the ring of sense codes.
DataAstray(d, ready, media) ==
  BOT_CBW_Decode([ d EXCEPT !.out = "off", !.sense = [ k \in DOMAIN @ |-> "stray" ] ],
                 Stray, StrayTag, FALSE, ready, media)

\* The host has taken a packet.
USBD_MSC_DataIn(d, ready, media) ==
  LET taken == [ d EXCEPT !.in = Nothing ]
      done == SCSI_ProcessCmd(taken, ready, media)
  IN CASE d.bot_state = "DATA_IN" -> IF done.ok THEN done.dev ELSE BOT_SendCSW(done.dev, "failed")
       [] d.bot_state \in { "SEND_DATA", "LAST_DATA_IN" } -> BOT_SendCSW(taken, "passed")
       [] OTHER -> taken

-----------------------------------------------------------------------------
(* The host. *)

Busy == phase \in { "data", "status", "retry" }
Receiving == phase = "data" /\ cmd.command.dir = "in"
Sending == phase = "data" /\ cmd.command.dir = "out"
WantsStatus == phase \in { "status", "retry" }

NoReply == [ status |-> "none" ]

\* Whether all the data of the command has moved when n units of it have.
Complete(n) == n * (IF MovesBlocks(cmd.command) THEN BlockSize ELSE 1) = cmd.command.len

\* The card fails while more packets of the transfer are due.
CutShort(media) ==
  /\ ~media
  /\ \/ dev.bot_state = "DATA_IN"
     \/ dev.bot_state = "DATA_OUT" /\ dev.scsi_blk_len > MSC_MEDIA_PACKET

\* The host asks for the capacity before it asks for blocks, and for the reason
\* whenever a command fails.
MayIssue(c) ==
  /\ c.op \in { "READ10", "WRITE10", "VERIFY10" } => dev.scsi_blk_nbr # 0
  /\ reply.status = "failed" => c.op = "REQUEST_SENSE"

Issue ==
  /\ phase = "idle" /\ dev.out = "cbw" /\ ~dev.outStall
  /\ \E c \in Commands, ready, media \in BOOLEAN :
       /\ MayIssue(c)
       /\ cmd' = [ command |-> c, tag |-> 1 - cmd.tag ]
       /\ phase' = IF c.len = 0 THEN "status" ELSE "data"
       /\ dev' = CommandOut(dev, c, 1 - cmd.tag, ready, media)
  /\ moved' = << >> /\ sent' = 0 /\ reply' = NoReply
  /\ UNCHANGED disturbed

ReceiveData ==
  /\ Receiving /\ ~dev.inStall /\ dev.in.kind = "data"
  /\ LET content == dev.in.content
     IN /\ moved' = moved \o [ k \in DOMAIN content |-> << content[k], Len(moved) + k >> ]
        /\ phase' = IF content = << >> \/ ~MovesBlocks(cmd.command) \/ Complete(Len(moved'))
                    THEN "status" ELSE "data"
  /\ \E ready, media \in BOOLEAN :
       /\ dev' = USBD_MSC_DataIn(dev, ready, media)
       /\ disturbed' = (disturbed \/ CutShort(media))
  /\ UNCHANGED << cmd, sent, reply >>

\* The host cannot tell a short packet of data from the status.
ReceiveStatusAsData ==
  /\ Receiving /\ ~dev.inStall /\ dev.in.kind = "csw"
  /\ \E ready, media \in BOOLEAN : dev' = USBD_MSC_DataIn(dev, ready, media)
  /\ phase' = "status"
  /\ UNCHANGED << cmd, moved, sent, reply, disturbed >>

SendData ==
  /\ Sending /\ ~dev.outStall /\ dev.out = "data"
  /\ \E ready, media \in BOOLEAN :
       LET n == AtMost(dev.scsi_blk_len, MSC_MEDIA_PACKET) \div BlockSize
           first == dev.scsi_blk_addr \div BlockSize
       IN /\ sent' = sent + n
          /\ moved' = IF media THEN moved \o [ k \in 1 .. n |-> << first + k - 1, sent + k >> ]
                      ELSE moved
          /\ dev' = DataOut(dev, ready, media)
          /\ disturbed' = (disturbed \/ CutShort(media))
  /\ phase' = IF Complete(sent') THEN "status" ELSE "data"
  /\ UNCHANGED << cmd, reply >>

\* One packet, which may or may not be the last of a block.
SendDataAstray ==
  /\ Sending /\ ~dev.outStall /\ dev.out = "cbw"
  /\ sent' \in { sent, sent + 1 }
  /\ \E ready, media \in BOOLEAN : dev' = DataAstray(dev, ready, media)
  /\ phase' = IF Complete(sent') THEN "status" ELSE "data"
  /\ UNCHANGED << cmd, moved, reply, disturbed >>

\* Data where the status should be makes the host start over.
ReceiveStatus ==
  /\ WantsStatus /\ ~dev.inStall /\ dev.in # Nothing
  /\ \E ready, media \in BOOLEAN : dev' = USBD_MSC_DataIn(dev, ready, media)
  /\ IF dev.in.kind = "csw"
     THEN /\ reply' = [ status |-> dev.in.status, tag |-> dev.in.tag, residue |-> dev.in.residue ]
          /\ phase' = "idle"
     ELSE phase' = "reset" /\ UNCHANGED reply
  /\ UNCHANGED << cmd, moved, sent, disturbed >>

\* A stall ends the data phase; the host clears it and asks for the status.  It asks
\* for the status once more when that is stalled, and then starts over.
InStalled ==
  /\ (Receiving \/ WantsStatus) /\ dev.inStall
  /\ IF phase = "retry" THEN phase' = "reset" /\ UNCHANGED dev
     ELSE /\ phase' = IF phase = "data" THEN "status" ELSE "retry"
          /\ dev' = ClearFeature(dev, "in")
  /\ UNCHANGED << cmd, moved, sent, reply, disturbed >>

OutStalled ==
  /\ Sending /\ dev.outStall
  /\ phase' = "status"
  /\ dev' = ClearFeature(dev, "out")
  /\ UNCHANGED << cmd, moved, sent, reply, disturbed >>

\* The host runs out of patience, at any time.
GiveUp ==
  /\ Busy
  /\ phase' = "reset" /\ disturbed' = TRUE
  /\ UNCHANGED << dev, cmd, moved, sent, reply >>

\* Reset recovery: BOT_RESET, then CLEAR_FEATURE of either endpoint.
Recover ==
  /\ \/ phase = "reset" /\ dev' = BotReset(dev) /\ phase' = "clear_in"
     \/ phase = "clear_in" /\ dev' = ClearFeature(dev, "in") /\ phase' = "clear_out"
     \/ phase = "clear_out" /\ dev' = ClearFeature(dev, "out") /\ phase' = "idle"
  /\ UNCHANGED << cmd, moved, sent, reply, disturbed >>

-----------------------------------------------------------------------------
\* hmsc as USBD_MSC_Init leaves it; malloc does not clear the address and the length.
Init ==
  /\ dev \in { [ bot_state |-> "IDLE", bot_status |-> "NORMAL", bot_data |-> << >>,
                 cbw |-> Stray, tag |-> StrayTag, residue |-> 0, sense |-> << >>,
                 scsi_blk_nbr |-> 0, scsi_blk_addr |-> addr, scsi_blk_len |-> 0,
                 in |-> Nothing, inStall |-> FALSE, out |-> "cbw", outStall |-> FALSE,
                 why |-> "NO_SENSE" ] : addr \in { 0, Word - 1 } }
  /\ phase = "idle"
  /\ cmd = [ command |-> Stray, tag |-> 0 ]
  /\ moved = << >> /\ sent = 0
  /\ reply = NoReply
  /\ disturbed = FALSE

Transfer ==
  \/ ReceiveData \/ ReceiveStatusAsData \/ SendData \/ SendDataAstray
  \/ ReceiveStatus \/ InStalled \/ OutStalled \/ Recover

Next == Issue \/ Transfer \/ GiveUp

Spec == Init /\ [][Next]_vars

\* The host controller repeats a transfer until the device takes part in it.
FairSpec == Spec /\ WF_vars(Transfer)

-----------------------------------------------------------------------------
(* Properties. *)

\* The types of the state.
TypeOK ==
  /\ dev.bot_state \in { "IDLE", "DATA_OUT", "DATA_IN", "LAST_DATA_IN", "SEND_DATA", "NO_DATA" }
  /\ dev.bot_status \in { "NORMAL", "RECOVERY", "ERROR" }
  /\ dev.tag \in Tags \cup { StrayTag }
  /\ dev.residue \in Nat /\ dev.scsi_blk_len \in Nat
  /\ dev.scsi_blk_addr \in 0 .. Word - 1
  /\ dev.sense \in Seq(SenseCodes \cup { "stray" }) /\ Len(dev.sense) < SENSE_LIST_DEPTH
  /\ dev.in.kind \in { "nothing", "data", "csw" }
  /\ dev.out \in { "off", "cbw", "data" }
  /\ dev.inStall \in BOOLEAN /\ dev.outStall \in BOOLEAN
  /\ phase \in { "idle", "data", "status", "retry", "reset", "clear_in", "clear_out" }
  /\ cmd.command \in Commands \cup { Stray } /\ cmd.tag \in Tags
  /\ reply.status \in { "none", "passed", "failed" }

\* Whenever the host is about to send a command the device is waiting for one, with
\* nothing left over from the last: after every way a command can end, and after a
\* reset recovery from any state.
InStep ==
  phase = "idle" =>
    /\ dev.bot_state = "IDLE" /\ dev.out = "cbw" /\ ~dev.outStall
    /\ dev.in = Nothing /\ ~dev.inStall

\* Only a host that lost patience or a card that went during a transfer leads to a
\* reset: by itself the device never sends data for a status, nor stalls twice.
NoResetUndisturbed == phase \in { "reset", "clear_in", "clear_out" } => disturbed

\* While the host has data to send, it is not taken for a command.
DataIsNoCommand == Sending /\ dev.out = "cbw" => disturbed

\* A host that asks for the reason after every failure is told the reason of that
\* failure, and is told that there is none when nothing has failed.
SenseIsTheReason ==
  [][ (Issue /\ cmd'.command.op = "REQUEST_SENSE" /\ ~disturbed) =>
        dev'.in = Data(<< dev.why >>) ]_vars

BulkOnlyDevice == INSTANCE BulkOnly WITH
  Packet <- MSC_MEDIA_PACKET,
  job <- IF Busy THEN cmd ELSE [ op |-> "none" ]

\* To the host the class is a bulk-only device: blocks in their places, tags, residues
\* and the meaning of "passed" are right, with stalls, resets and a failing card.
IsBulkOnly == BulkOnlyDevice!Spec

\* The device and the host do not wait for each other for ever.
Answered == Busy ~> (phase = "idle" \/ disturbed)

=============================================================================
