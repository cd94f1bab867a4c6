---------------------------- MODULE UsbMscProofs ----------------------------
(***************************************************************************)
(* What is proved of UsbMsc, for any card, packet, ring of sense codes and *)
(* commands: its types, that the device and the host are in step, who      *)
(* causes a reset, that data is not taken for a command, that the sense    *)
(* data is the reason, and that the class implements BulkOnly.             *)
(***************************************************************************)
EXTENDS UsbMsc, SequenceTheorems, TLAPS

-----------------------------------------------------------------------------
(* The values of the device. *)

Rings == { s \in Seq(SenseCodes \cup { "stray" }) : Len(s) < SENSE_LIST_DEPTH }
Replies == SenseCodes \cup { "NO_SENSE", "stray", "inquiry", "capacity" }
Statuses == { "passed", "failed" }

\* What a packet on its way to the host holds: a reply, blocks of the card, or a status.
ReplyPackets == { Data(x) : x \in { << code >> : code \in Replies } }
BlockPackets == { Data(x) : x \in Seq(Nat) }
StatusPackets ==
  { Csw(tag, residue, status) : tag \in Tags \cup { StrayTag }, residue \in Nat, status \in Statuses }
Packets == { Nothing } \cup ReplyPackets \cup BlockPackets \cup StatusPackets

Devices ==
  [ bot_state : { "IDLE", "DATA_OUT", "DATA_IN", "LAST_DATA_IN", "SEND_DATA", "NO_DATA" },
    bot_status : { "NORMAL", "RECOVERY", "ERROR" },
    bot_data : { << >> } \cup { << code >> : code \in Replies },
    cbw : Commands \cup { Stray }, tag : Tags \cup { StrayTag }, residue : Nat,
    sense : Rings, scsi_blk_nbr : { 0, Blocks }, scsi_blk_addr : 0 .. Word - 1,
    scsi_blk_len : Nat, in : Packets, inStall : BOOLEAN,
    out : { "off", "cbw", "data" }, outStall : BOOLEAN,
    why : SenseCodes \cup { "NO_SENSE" } ]

\* The sense data: nothing to tell, or the last failure.
NothingToTell(d) == d.sense = << >> /\ d.why = "NO_SENSE"
ReasonToTell(d) == d.sense = << d.why >> /\ d.why \in SenseCodes

-----------------------------------------------------------------------------
(* Where the device can be in a command c with tag t of which m has moved. *)

\* The card ends below 4 GB, and no sum of an address and a count wraps.
Fits ==
  /\ Blocks * BlockSize <= Word
  /\ \A lba \in Lbas, n \in Counts : lba + n < Word

BytesOf(c, m) == Len(m) * (IF MovesBlocks(c) THEN BlockSize ELSE 1)

\* It serves this command.
Serves(d, c, t) == d.cbw = c /\ d.tag = t
Unstalled(d) == ~d.inStall /\ ~d.outStall

\* It waits for a command.
Waits(d) == d.bot_state = "IDLE" /\ d.out = "cbw" /\ d.in = Nothing /\ Unstalled(d)

\* The status is on its way, and another command may come.
Answers(d, c, t, m) ==
  /\ d.bot_state = "IDLE" /\ d.out = "cbw" /\ ~d.outStall
  /\ \E status \in Statuses :
       /\ d.in = Csw(t, c.len - BytesOf(c, m), status)
       /\ status = "passed" /\ MovesBlocks(c) => BytesOf(c, m) = c.len

\* A reply that is not a block is on its way.
Tells(d, c, t, m) ==
  /\ Serves(d, c, t) /\ d.bot_state = "SEND_DATA" /\ d.out = "off" /\ Unstalled(d)
  /\ ~MovesBlocks(c) /\ c.dir = "in" /\ m = << >> /\ c.len # 0 /\ d.residue = c.len - 1
  /\ \E code \in Replies : d.in = Data(<< code >>)

\* What moves: a reply or a block of the card, and its place in the transfer.
Moves == (Nat \cup Replies) \X Nat

\* q blocks of the card, from the first on.
Run(first, q) == [ k \in 1 .. q |-> first + k - 1 ]

\* The packet on its way holds the next q blocks of the command.
Carries(d, c, m, q) ==
  /\ Len(m) + q <= c.n
  /\ q * BlockSize <= MSC_MEDIA_PACKET
  /\ \E first \in Nat :
       /\ d.in = Data(Run(first, q))
       /\ Fits => first = c.lba + Len(m)
  /\ d.residue = (c.n - (Len(m) + q)) * BlockSize
  /\ d.scsi_blk_len = d.residue
  /\ d.bot_state = IF Len(m) + q = c.n THEN "LAST_DATA_IN" ELSE "DATA_IN"
  /\ Fits /\ Len(m) + q < c.n => d.scsi_blk_addr = (c.lba + Len(m) + q) * BlockSize

Reads(d, c, t, m) ==
  /\ Serves(d, c, t) /\ d.out = "off" /\ Unstalled(d)
  /\ c.op = "READ10" /\ c.len = c.n * BlockSize /\ (Fits => c.lba + c.n <= Blocks)
  /\ \E q \in 1 .. c.n : Carries(d, c, m, q)

\* It expects the next blocks of the command.
Writes(d, c, t, m) ==
  /\ Serves(d, c, t) /\ d.bot_state = "DATA_OUT" /\ d.out = "data" /\ Unstalled(d)
  /\ d.in = Nothing
  /\ c.op = "WRITE10" /\ c.len = c.n * BlockSize /\ Len(m) < c.n
  /\ Fits => c.lba + c.n <= Blocks
  /\ d.residue = (c.n - Len(m)) * BlockSize
  /\ d.scsi_blk_len = d.residue
  /\ Fits => d.scsi_blk_addr = (c.lba + Len(m)) * BlockSize

\* It has refused the command before anything moved.
Aborts(d, c, t, m) ==
  /\ Serves(d, c, t) /\ d.bot_state \in { "IDLE", "DATA_IN" } /\ d.out = "off"
  /\ d.in = Nothing /\ d.inStall
  /\ d.bot_status # "ERROR" /\ m = << >> /\ d.residue = c.len

\* It sends nothing: only a reset helps.
IsMute(d) == d.bot_state \in { "IDLE", "DATA_IN" } /\ d.in = Nothing /\ ~d.outStall

Answering == Answers(dev, cmd.command, cmd.tag, moved)
Telling == Tells(dev, cmd.command, cmd.tag, moved)
Reading == Reads(dev, cmd.command, cmd.tag, moved)
Writing == Writes(dev, cmd.command, cmd.tag, moved)
Aborting == Aborts(dev, cmd.command, cmd.tag, moved)

\* Data has come where a command was expected.
Astray == dev.bot_status = "ERROR"

\* What each phase of the host means for the device.
ReceivingInv ==
  /\ ~Astray
  /\ Telling \/ Reading \/ (Aborting /\ ~dev.outStall) \/ (disturbed /\ Answering /\ ~dev.inStall)

SendingInv ==
  \/ Writing /\ sent = Len(moved) /\ ~Astray
  \/ Aborting /\ (disturbed \/ dev.outStall)
  \/ disturbed /\ Answering /\ (dev.inStall <=> Astray)

StatusInv ==
  \/ Answering /\ ~dev.inStall /\ ~Astray
  \/ Aborting /\ ~dev.outStall
  \/ disturbed /\ IsMute(dev) /\ ~dev.inStall /\ ~Astray
  \/ disturbed /\ Answering /\ dev.inStall /\ Astray

RetryInv ==
  \/ Answering /\ ~dev.inStall /\ ~Astray
  \/ disturbed /\ IsMute(dev)

ResetInv ==
  /\ disturbed
  /\ phase # "reset" => dev.bot_state = "IDLE" /\ dev.out = "cbw" /\ dev.bot_status = "RECOVERY"
  /\ phase = "clear_out" => dev.in = Nothing /\ ~dev.inStall

PhaseInv ==
  /\ phase = "idle" => Waits(dev) /\ ~Astray
  /\ Receiving => ReceivingInv
  /\ Sending => SendingInv
  /\ phase = "status" => StatusInv
  /\ phase = "retry" => RetryInv
  /\ phase \in { "reset", "clear_in", "clear_out" } => ResetInv
  /\ disturbed \/ dev.bot_status = "NORMAL"

\* An undisturbed host that has not been told of a failure has nothing to ask.
Failing(d) == d.inStall \/ (d.in.kind = "csw" /\ d.in.status = "failed")
SenseInv ==
  ~disturbed =>
    /\ phase = "idle" => IF reply.status = "failed" THEN ReasonToTell(dev) ELSE NothingToTell(dev)
    /\ Busy => IF Failing(dev) THEN ReasonToTell(dev) ELSE NothingToTell(dev)

\* The types of the host, and every block in its place.
PlacesInv ==
  Fits /\ Busy /\ MovesBlocks(cmd.command) =>
    \A k \in DOMAIN moved : moved[k] = << cmd.command.lba + k - 1, k >>

Phases == { "idle", "data", "status", "retry", "reset", "clear_in", "clear_out" }
HostTypes ==
  /\ phase \in Phases
  /\ cmd \in [ command : Commands \cup { Stray }, tag : Tags ]
  /\ Busy => cmd.command \in Commands
  /\ moved \in Seq(Moves) /\ sent \in Nat
  /\ reply.status \in { "none" } \cup Statuses
  /\ disturbed \in BOOLEAN

MscInv == dev \in Devices /\ HostTypes /\ PhaseInv /\ SenseInv /\ PlacesInv

-----------------------------------------------------------------------------
(* Packets, replies and the ring of sense codes. *)

LEMMA PacketTypes ==
  /\ Nothing \in Packets
  /\ \A code \in Replies : Data(<< code >>) \in Packets
  /\ \A content \in Seq(Nat) : Data(content) \in Packets
  /\ \A tag \in Tags \cup { StrayTag }, residue \in Nat, status \in Statuses :
       Csw(tag, residue, status) \in Packets
<1>1. Nothing \in Packets
  BY DEF Packets
<1>2. \A code \in Replies : Data(<< code >>) \in Packets
  BY DEF Packets, ReplyPackets
<1>3. \A content \in Seq(Nat) : Data(content) \in Packets
  BY DEF Packets, BlockPackets
<1>4. \A tag \in Tags \cup { StrayTag }, residue \in Nat, status \in Statuses :
        Csw(tag, residue, status) \in Packets
  BY DEF Packets, StatusPackets
<1> QED
  BY <1>1, <1>2, <1>3, <1>4

LEMMA StatusTypes == "passed" \in Statuses /\ "failed" \in Statuses
BY DEF Statuses

LEMMA PacketKinds ==
  /\ Nothing.kind = "nothing"
  /\ \A content : Data(content).kind = "data" /\ Data(content).content = content
  /\ \A tag, residue, status :
       /\ Csw(tag, residue, status).kind = "csw" /\ Csw(tag, residue, status).tag = tag
       /\ Csw(tag, residue, status).residue = residue /\ Csw(tag, residue, status).status = status
  /\ \A packet \in Packets : packet.kind \in { "nothing", "data", "csw" }
  /\ \A content : Data(content) # Nothing
  /\ \A tag, residue, status : Csw(tag, residue, status) # Nothing
<1>1. Nothing.kind = "nothing"
  BY DEF Nothing
<1>2. \A content : Data(content).kind = "data" /\ Data(content).content = content
  BY DEF Data
<1>3. \A tag, residue, status :
        /\ Csw(tag, residue, status).kind = "csw" /\ Csw(tag, residue, status).tag = tag
        /\ Csw(tag, residue, status).residue = residue /\ Csw(tag, residue, status).status = status
  BY DEF Csw
<1>4. \A packet \in Packets : packet.kind \in { "nothing", "data", "csw" }
  BY <1>1, <1>2, <1>3 DEF Packets, ReplyPackets, BlockPackets, StatusPackets
<1>5. \A content : Data(content) # Nothing
  BY <1>1, <1>2
<1>6. \A tag, residue, status : Csw(tag, residue, status) # Nothing
  BY <1>1, <1>3
<1> QED
  BY <1>1, <1>2, <1>3, <1>4, <1>5, <1>6

\* A failure is added to the ring, and nothing else of the device changes.
LEMMA SenseCodeEffect ==
  ASSUME NEW d \in Devices, NEW code \in SenseCodes
  PROVE  /\ SCSI_SenseCode(d, code) \in Devices
         /\ SCSI_SenseCode(d, code)
              = [ d EXCEPT !.sense = SCSI_SenseCode(d, code).sense, !.why = code ]
         /\ NothingToTell(d) => ReasonToTell(SCSI_SenseCode(d, code))
<1> DEFINE ring == IF Len(d.sense) = SENSE_LIST_DEPTH - 1 THEN << >> ELSE Append(d.sense, code)
<1>1. d.sense \in Seq(SenseCodes \cup { "stray" }) /\ Len(d.sense) < SENSE_LIST_DEPTH
  BY DEF Devices, Rings
<1>2. SENSE_LIST_DEPTH \in Nat /\ SENSE_LIST_DEPTH > 1
  BY MscAssumption
<1>3. ring \in Rings
  BY <1>1, <1>2 DEF Rings
<1>4. SCSI_SenseCode(d, code) = [ d EXCEPT !.sense = ring, !.why = code ]
  BY DEF SCSI_SenseCode
<1>5. d.sense = << >> => ring = << code >>
  BY <1>2
<1> HIDE DEF ring
<1>6. /\ SCSI_SenseCode(d, code) \in Devices
      /\ SCSI_SenseCode(d, code).sense = ring /\ SCSI_SenseCode(d, code).why = code
  BY <1>3, <1>4 DEF Devices
<1> QED
  BY <1>4, <1>5, <1>6 DEF NothingToTell, ReasonToTell

-----------------------------------------------------------------------------
(* Numbers of blocks and of bytes. *)

LEMMA TimesMonotone ==
  ASSUME NEW a \in Nat, NEW b \in Nat, NEW c \in Nat, a <= b
  PROVE  a * c <= b * c
OBVIOUS

LEMMA TimesCancel ==
  ASSUME NEW a \in Nat, NEW b \in Nat, NEW c \in Nat \ {0}
  PROVE  a * c = b * c <=> a = b
OBVIOUS

LEMMA DivTimes ==
  ASSUME NEW x \in Nat, NEW b \in Nat \ {0}
  PROVE  (x * b) \div b = x
<1> DEFINE q == (x * b) \div b
<1>1. q \in Nat /\ b * q <= x * b /\ x * b < b * (q + 1)
  OBVIOUS
<1>2. CASE q < x
  <2>1. (q + 1) * b <= x * b
    BY <1>1, <1>2, TimesMonotone
  <2> QED
    BY <1>1, <2>1
<1>3. CASE x < q
  <2>1. (x + 1) * b <= q * b
    BY <1>1, <1>3, TimesMonotone
  <2> QED
    BY <1>1, <2>1
<1> QED
  BY <1>1, <1>2, <1>3

\* A packet is a number of blocks; what is sent of l blocks is a number q of blocks.
LEMMA PacketOfBlocks ==
  ASSUME NEW l \in Nat \ {0}
  PROVE  \E q \in 1 .. l : /\ AtMost(l * BlockSize, MSC_MEDIA_PACKET) = q * BlockSize
                          /\ q * BlockSize <= MSC_MEDIA_PACKET
                          /\ (q * BlockSize) \div BlockSize = q
                          /\ l * BlockSize - q * BlockSize = (l - q) * BlockSize
                          /\ (l - q) * BlockSize \in Nat
                          /\ (l * BlockSize = q * BlockSize <=> l = q)
                          /\ ((l - q) * BlockSize = 0 <=> l = q)
<1> DEFINE P == MSC_MEDIA_PACKET \div BlockSize
           q == IF l < P THEN l ELSE P
<1>1. BlockSize \in Nat \ {0} /\ MSC_MEDIA_PACKET \in Nat \ {0} /\ MSC_MEDIA_PACKET % BlockSize = 0
  BY MscAssumption
<1>2. P \in Nat \ {0} /\ MSC_MEDIA_PACKET = P * BlockSize
  BY <1>1
<1> HIDE DEF P
<1>3. q \in 1 .. l /\ q <= P
  BY <1>2
<1>4. q * BlockSize <= MSC_MEDIA_PACKET
  BY <1>1, <1>2, <1>3, TimesMonotone
<1>5. l * BlockSize \in Nat /\ (l - q) * BlockSize \in Nat
  BY <1>1, <1>3
<1>6. AtMost(l * BlockSize, MSC_MEDIA_PACKET) = q * BlockSize
  <2>1. CASE l < P
    <3>1. q = l
      BY <2>1
    <3> HIDE DEF q
    <3> QED
      BY <3>1, <1>1, <1>4, <1>5 DEF AtMost
  <2>2. CASE ~(l < P)
    <3>1. P * BlockSize <= l * BlockSize /\ q = P
      BY <1>1, <1>2, <2>2, TimesMonotone
    <3> HIDE DEF q
    <3> QED
      BY <1>1, <1>2, <1>5, <2>2, <3>1 DEF AtMost
  <2> QED
    BY <2>1, <2>2
<1> HIDE DEF q
<1>7. (q * BlockSize) \div BlockSize = q
  BY <1>1, <1>3, DivTimes
<1>8. l * BlockSize - q * BlockSize = (l - q) * BlockSize
  BY <1>1, <1>3
<1>9. (l - q) * BlockSize = 0 <=> l = q
  BY <1>1, <1>3
<1> QED
  BY <1>1, <1>3, <1>4, <1>5, <1>6, <1>7, <1>8, <1>9

\* On a card that ends below 4 GB no address of a block within it wraps.
LEMMA NoWrap ==
  ASSUME Fits, NEW lba \in Nat, lba < Blocks
  PROVE  lba * BlockSize \in 0 .. Word - 1 /\ (lba * BlockSize) % Word = lba * BlockSize
<1>1. BlockSize \in Nat \ {0} /\ Blocks \in Nat \ {0} /\ Word \in Nat \ {0}
  BY MscAssumption
<1>2. (lba + 1) * BlockSize <= Blocks * BlockSize
  BY <1>1, TimesMonotone
<1>3. (lba + 1) * BlockSize = lba * BlockSize + BlockSize
  BY <1>1
<1>4. Blocks * BlockSize <= Word
  BY DEF Fits
<1>5. lba * BlockSize \in Nat /\ Blocks * BlockSize \in Nat
  BY <1>1
<1>6. lba * BlockSize < Word
  BY <1>1, <1>2, <1>3, <1>4, <1>5
<1> QED
  BY <1>1, <1>5, <1>6

-----------------------------------------------------------------------------
(* The commands. *)

Operations ==
  { "TEST_UNIT_READY", "START_STOP_UNIT", "VERIFY10", "OTHER", "INQUIRY", "REQUEST_SENSE",
    "READ_CAPACITY10", "READ_FORMAT_CAPACITIES", "READ10", "WRITE10" }

LEMMA CommandCases ==
  ASSUME NEW c \in Commands \cup { Stray }
  PROVE  /\ c.op \in Operations /\ c.dir \in { "in", "out" }
         /\ c.len \in Nat /\ c.lba \in 0 .. Word - 1 /\ c.n \in Nat
         /\ MovesBlocks(c) => /\ c.len # 0 /\ c.lba \in Lbas /\ c.n \in Counts
                              /\ c.dir = (IF c.op = "READ10" THEN "in" ELSE "out")
                              /\ c.n \in Nat \ {0}
         /\ c.op \in { "INQUIRY", "REQUEST_SENSE", "READ_CAPACITY10", "READ_FORMAT_CAPACITIES" } =>
              c.dir = "in" /\ c.len # 0
         /\ c.op \in { "TEST_UNIT_READY", "START_STOP_UNIT", "VERIFY10" } => c.len = 0
         /\ c.len = 0 => c.dir = "out"
<1>1. /\ BlockSize \in Nat \ {0} /\ Word \in Nat \ {0} /\ Lbas \subseteq 0 .. Word - 1
      /\ Counts \subseteq Nat \ {0}
  <2>1. /\ HalfWord \in Nat \ {0} /\ Counts \subseteq 1 .. HalfWord - 1
        /\ BlockSize \in Nat \ {0} /\ Word \in Nat \ {0} /\ Lbas \subseteq 0 .. Word - 1
    BY MscAssumption
  <2> QED
    BY <2>1
<1>2. CASE c \in NoDataCommands
  BY <1>1, <1>2 DEF NoDataCommands, Command, Operations, MovesBlocks
<1>3. CASE c \in ReplyCommands
  BY <1>1, <1>3 DEF ReplyCommands, Command, Operations, MovesBlocks
<1>4. CASE c \in UnknownCommands \cup { Stray }
  BY <1>1, <1>4 DEF UnknownCommands, Stray, Command, Operations, MovesBlocks
<1>5. CASE c \in BlockCommands
  <2>1. PICK op \in { "READ10", "WRITE10" }, lba \in Lbas, n \in Counts, more \in { 0, 1 } :
          c = Command(op, IF op = "READ10" THEN "in" ELSE "out", (n + more) * BlockSize, lba, n)
    BY <1>5 DEF BlockCommands
  <2>2. (n + more) * BlockSize \in Nat \ {0}
    BY <1>1
  <2> QED
    BY <1>1, <2>1, <2>2 DEF Command, Operations, MovesBlocks
<1> QED
  BY <1>2, <1>3, <1>4, <1>5 DEF Commands

-----------------------------------------------------------------------------
(* A packet of blocks to the host, and one from it. *)

\* l blocks of the command c have moved; the next are to be read, or written.
ReadPending(d, c, t, l) ==
  /\ Serves(d, c, t) /\ d.bot_state = "DATA_IN" /\ d.out = "off" /\ Unstalled(d)
  /\ c.op = "READ10" /\ c.len = c.n * BlockSize /\ (Fits => c.lba + c.n <= Blocks)
  /\ l < c.n
  /\ d.residue = (c.n - l) * BlockSize
  /\ d.scsi_blk_len = d.residue
  /\ Fits => d.scsi_blk_addr = (c.lba + l) * BlockSize

\* What the device knows of the command, the card and the failures has not changed.
SameElse(d, r) ==
  /\ r.sense = d.sense /\ r.why = d.why
  /\ r.bot_status = d.bot_status /\ r.scsi_blk_nbr = d.scsi_blk_nbr

\* The next blocks are on their way to the host.
LEMMA ReadStep ==
  ASSUME NEW d \in Devices, NEW c \in Commands, NEW t, NEW l \in Nat, ReadPending(d, c, t, l)
  PROVE  LET r == SCSI_ProcessRead(d, TRUE)
         IN /\ r.ok /\ r.dev \in Devices /\ SameElse(d, r.dev)
            /\ \A m : Len(m) = l => Reads(r.dev, c, t, m)
<1> DEFINE first == d.scsi_blk_addr \div BlockSize
           len == AtMost(d.scsi_blk_len, MSC_MEDIA_PACKET)
           content == [ k \in 1 .. len \div BlockSize |-> first + k - 1 ]
           r == SCSI_ProcessRead(d, TRUE)
<1>1. /\ c.n \in Nat \ {0} /\ c.lba \in 0 .. Word - 1 /\ c.len \in Nat
      /\ BlockSize \in Nat \ {0} /\ Word \in Nat \ {0} /\ Blocks \in Nat \ {0}
  BY CommandCases, MscAssumption DEF ReadPending, MovesBlocks
<1>2. /\ d.scsi_blk_len = (c.n - l) * BlockSize /\ d.residue = (c.n - l) * BlockSize
      /\ c.n - l \in Nat \ {0}
  BY <1>1 DEF ReadPending
<1>n. c.n \in Nat /\ l < c.n
  BY <1>1 DEF ReadPending
<1>3. PICK q \in 1 .. (c.n - l) :
        /\ len = q * BlockSize /\ q * BlockSize <= MSC_MEDIA_PACKET
        /\ (q * BlockSize) \div BlockSize = q
        /\ (c.n - l) * BlockSize - q * BlockSize = (c.n - l - q) * BlockSize
        /\ (c.n - l - q) * BlockSize \in Nat
        /\ ((c.n - l) * BlockSize = q * BlockSize <=> c.n - l = q)
  BY <1>2, PacketOfBlocks
<1> HIDE DEF len
<1>4. q \in Nat /\ c.n - l - q = c.n - (l + q) /\ len \in Nat /\ (c.n - l = q <=> l + q = c.n)
  <2>1. q \in Nat /\ c.n - l - q = c.n - (l + q) /\ (c.n - l = q <=> l + q = c.n)
    BY <1>n
  <2>2. q * BlockSize \in Nat
    BY <1>1, <2>1
  <2> QED
    BY <1>3, <2>1, <2>2
<1>5. first \in Nat /\ d.scsi_blk_addr \in 0 .. Word - 1
  <2>1. d.scsi_blk_addr \in 0 .. Word - 1
    BY DEF Devices
  <2> QED
    BY <1>1, <2>1
<1>6. content = Run(first, q) /\ content \in Seq(Nat)
  BY <1>3, <1>4, <1>5 DEF Run
<1>7. Fits => first = c.lba + l
  <2>1. ASSUME Fits PROVE d.scsi_blk_addr = (c.lba + l) * BlockSize
    BY <2>1 DEF ReadPending
  <2>2. c.lba + l \in Nat
    BY <1>1, <1>2
  <2> QED
    BY <1>1, <2>1, <2>2, DivTimes
<1>8. (d.scsi_blk_addr + len) % Word \in 0 .. Word - 1
  BY <1>1, <1>4, <1>5
<1>9. ASSUME Fits, l + q < c.n
      PROVE  (d.scsi_blk_addr + len) % Word = (c.lba + (l + q)) * BlockSize
  <2>1. c.lba + (l + q) \in Nat /\ c.lba + (l + q) < Blocks
    BY <1>1, <1>2, <1>4, <1>9 DEF ReadPending
  <2>2. d.scsi_blk_addr = (c.lba + l) * BlockSize
    BY <1>9 DEF ReadPending
  <2>3. (c.lba + l) * BlockSize + q * BlockSize = (c.lba + (l + q)) * BlockSize
    BY <1>1, <1>2, <1>4
  <2> QED
    BY <1>3, <1>9, <2>1, <2>2, <2>3, NoWrap
<1> HIDE DEF first, content
<1>10. r = Succeeds([ d EXCEPT
             !.in = Data(content),
             !.scsi_blk_addr = (@ + len) % Word,
             !.scsi_blk_len = @ - len,
             !.residue = @ - len,
             !.bot_state = IF d.scsi_blk_len = len THEN "LAST_DATA_IN" ELSE @ ])
  BY DEF SCSI_ProcessRead, first, len, content
<1> HIDE DEF r
<1>11. Data(content) \in Packets
  BY <1>6, PacketTypes
<1>12. r.ok /\ r.dev \in Devices /\ SameElse(d, r.dev)
  BY <1>2, <1>3, <1>8, <1>10, <1>11 DEF Devices, Succeeds, SameElse
<1>13. /\ r.dev.cbw = d.cbw /\ r.dev.tag = d.tag /\ r.dev.out = d.out
       /\ r.dev.inStall = d.inStall /\ r.dev.outStall = d.outStall
       /\ r.dev.in = Data(content)
       /\ r.dev.scsi_blk_addr = (d.scsi_blk_addr + len) % Word
       /\ r.dev.scsi_blk_len = (c.n - (l + q)) * BlockSize
       /\ r.dev.residue = (c.n - (l + q)) * BlockSize
       /\ r.dev.bot_state = IF l + q = c.n THEN "LAST_DATA_IN" ELSE "DATA_IN"
  BY <1>2, <1>3, <1>4, <1>10 DEF Devices, Succeeds, ReadPending
<1>14. ASSUME NEW m, Len(m) = l PROVE Reads(r.dev, c, t, m)
  <2>1. q \in 1 .. c.n /\ l + q <= c.n
    BY <1>n, <1>4
  <2>2. Serves(r.dev, c, t) /\ r.dev.out = "off" /\ Unstalled(r.dev)
    BY <1>13 DEF ReadPending, Serves, Unstalled
  <2>3. c.op = "READ10" /\ c.len = c.n * BlockSize /\ (Fits => c.lba + c.n <= Blocks)
    BY DEF ReadPending
  <2>4. \E f \in Nat : r.dev.in = Data(Run(f, q)) /\ (Fits => f = c.lba + Len(m))
    BY <1>5, <1>6, <1>7, <1>13, <1>14
  <2>5. Fits /\ Len(m) + q < c.n => r.dev.scsi_blk_addr = (c.lba + Len(m) + q) * BlockSize
    BY <1>1, <1>4, <1>9, <1>13, <1>14
  <2>6. /\ Len(m) + q <= c.n /\ q * BlockSize <= MSC_MEDIA_PACKET
        /\ r.dev.residue = (c.n - (Len(m) + q)) * BlockSize
        /\ r.dev.scsi_blk_len = r.dev.residue
        /\ r.dev.bot_state = IF Len(m) + q = c.n THEN "LAST_DATA_IN" ELSE "DATA_IN"
    BY <1>3, <1>13, <1>14, <2>1
  <2>7. Carries(r.dev, c, m, q)
    BY <2>4, <2>5, <2>6 DEF Carries
  <2> QED
    BY <2>1, <2>2, <2>3, <2>7 DEF Reads
<1> QED
  BY <1>12, <1>14 DEF r

\* q blocks have gone to the card; then the device expects the next, or reports success.
Stores(d, r, c, t, m, q) ==
  /\ q = AtMost(d.scsi_blk_len, MSC_MEDIA_PACKET) \div BlockSize
  /\ q * BlockSize <= MSC_MEDIA_PACKET /\ Len(m) + q <= c.n
  /\ Fits => d.scsi_blk_addr \div BlockSize = c.lba + Len(m)
  /\ r.ok /\ r.dev \in Devices /\ SameElse(d, r.dev) /\ ~r.dev.inStall
  /\ \A m2 : Len(m2) = Len(m) + q =>
       IF Len(m2) = c.n
       THEN Answers(r.dev, c, t, m2) /\ r.dev.in.status = "passed"
       ELSE Writes(r.dev, c, t, m2)

LEMMA WriteStep ==
  ASSUME NEW d \in Devices, NEW c \in Commands, NEW t, NEW m,
         Writes([ d EXCEPT !.out = "data" ], c, t, m)
  PROVE  \E q \in Nat \ {0} : Stores(d, SCSI_ProcessWrite(d, TRUE), c, t, m, q)
<1> DEFINE len == AtMost(d.scsi_blk_len, MSC_MEDIA_PACKET)
           r == SCSI_ProcessWrite(d, TRUE)
           l == Len(m)
           moving == [ d EXCEPT !.scsi_blk_addr = (@ + len) % Word,
                                !.scsi_blk_len = @ - len,
                                !.residue = @ - len ]
<1>1. /\ c.n \in Nat \ {0} /\ c.lba \in 0 .. Word - 1 /\ c.len \in Nat
      /\ BlockSize \in Nat \ {0} /\ Word \in Nat \ {0} /\ Blocks \in Nat \ {0}
  BY CommandCases, MscAssumption DEF Writes, MovesBlocks
<1>2. /\ Serves(d, c, t) /\ d.bot_state = "DATA_OUT" /\ Unstalled(d) /\ d.in = Nothing
      /\ c.op = "WRITE10" /\ c.len = c.n * BlockSize /\ l < c.n
      /\ Fits => c.lba + c.n <= Blocks
      /\ d.residue = (c.n - l) * BlockSize /\ d.scsi_blk_len = (c.n - l) * BlockSize
      /\ Fits => d.scsi_blk_addr = (c.lba + l) * BlockSize
  BY DEF Writes, Serves, Unstalled, Devices
<1>3. l \in Nat /\ c.n - l \in Nat \ {0}
  BY <1>1, <1>2
<1> HIDE DEF l
<1>4. PICK q \in 1 .. (c.n - l) :
        /\ len = q * BlockSize /\ q * BlockSize <= MSC_MEDIA_PACKET
        /\ (q * BlockSize) \div BlockSize = q
        /\ (c.n - l) * BlockSize - q * BlockSize = (c.n - l - q) * BlockSize
        /\ (c.n - l - q) * BlockSize \in Nat
        /\ ((c.n - l - q) * BlockSize = 0 <=> c.n - l = q)
  BY <1>2, <1>3, PacketOfBlocks
<1> HIDE DEF len
<1>5. q \in Nat \ {0} /\ c.n - l - q = c.n - (l + q) /\ len \in Nat /\ (c.n - l = q <=> l + q = c.n)
  <2>1. q * BlockSize \in Nat
    BY <1>1, <1>3
  <2> QED
    BY <1>1, <1>3, <1>4, <2>1
<1>6. d.scsi_blk_addr \in 0 .. Word - 1 /\ (d.scsi_blk_addr + len) % Word \in 0 .. Word - 1
  BY <1>1, <1>5 DEF Devices
<1>7. Fits => d.scsi_blk_addr \div BlockSize = c.lba + l
  <2>1. c.lba + l \in Nat
    BY <1>1, <1>3
  <2> QED
    BY <1>1, <1>2, <2>1, DivTimes
<1>8. ASSUME Fits, l + q < c.n
      PROVE  (d.scsi_blk_addr + len) % Word = (c.lba + (l + q)) * BlockSize
  <2>1. c.lba + (l + q) \in Nat /\ c.lba + (l + q) < Blocks
    BY <1>1, <1>2, <1>3, <1>5, <1>8
  <2>2. (c.lba + l) * BlockSize + q * BlockSize = (c.lba + (l + q)) * BlockSize
    BY <1>1, <1>3, <1>5
  <2> QED
    BY <1>2, <1>4, <1>8, <2>1, <2>2, NoWrap
<1>9. /\ moving \in Devices
      /\ moving.scsi_blk_len = (c.n - (l + q)) * BlockSize
      /\ moving.residue = (c.n - (l + q)) * BlockSize
      /\ moving.scsi_blk_addr = (d.scsi_blk_addr + len) % Word
      /\ moving.cbw = d.cbw /\ moving.tag = d.tag /\ moving.bot_state = d.bot_state
      /\ moving.inStall = d.inStall /\ moving.outStall = d.outStall /\ moving.in = d.in
      /\ SameElse(d, moving)
  BY <1>2, <1>4, <1>5, <1>6 DEF Devices, SameElse
<1>10. r = IF moving.scsi_blk_len = 0 THEN Succeeds(BOT_SendCSW(moving, "passed"))
           ELSE Succeeds([ moving EXCEPT !.out = "data" ])
  BY DEF SCSI_ProcessWrite, len
<1>11. moving.scsi_blk_len = 0 <=> l + q = c.n
  BY <1>4, <1>5, <1>9
<1> HIDE DEF moving, r
<1>12. q = len \div BlockSize /\ q * BlockSize <= MSC_MEDIA_PACKET /\ l + q <= c.n
  BY <1>1, <1>3, <1>4, <1>5
<1>13. CASE l + q = c.n
  <2>1. r = Succeeds(BOT_SendCSW(moving, "passed"))
    BY <1>10, <1>11, <1>13
  <2>2. Csw(moving.tag, moving.residue, "passed") \in Packets
    BY <1>9, PacketTypes DEF Devices, Statuses
  <2>3. /\ r.ok /\ r.dev \in Devices /\ SameElse(moving, r.dev)
        /\ r.dev.inStall = moving.inStall /\ r.dev.outStall = moving.outStall
        /\ r.dev.bot_state = "IDLE" /\ r.dev.out = "cbw"
        /\ r.dev.in = Csw(moving.tag, moving.residue, "passed")
    BY <1>9, <2>1, <2>2 DEF Devices, Succeeds, SameElse, BOT_SendCSW
  <2>4. moving.residue = 0
    BY <1>9, <1>11, <1>13
  <2>5. ASSUME NEW m2, Len(m2) = c.n PROVE Answers(r.dev, c, t, m2) /\ r.dev.in.status = "passed"
    <3>1. BytesOf(c, m2) = c.len
      BY <1>2, <2>5 DEF BytesOf, MovesBlocks
    <3>2. c.len - BytesOf(c, m2) = 0 /\ moving.tag = t
      BY <1>1, <1>2, <1>9, <3>1 DEF Serves
    <3> QED
      BY <1>2, <1>9, <2>3, <2>4, <3>1, <3>2, PacketKinds DEF Answers, Unstalled, Statuses
  <2>6. SameElse(d, r.dev) /\ ~r.dev.inStall
    BY <1>2, <1>9, <2>3 DEF SameElse, Unstalled
  <2> QED
    BY <1>5, <1>7, <1>12, <1>13, <2>3, <2>5, <2>6 DEF Stores, r, l, len
<1>14. CASE l + q # c.n
  <2>1. r = Succeeds([ moving EXCEPT !.out = "data" ])
    BY <1>10, <1>11, <1>14
  <2>2. /\ r.ok /\ r.dev \in Devices /\ SameElse(moving, r.dev)
        /\ r.dev.inStall = moving.inStall /\ r.dev.outStall = moving.outStall
        /\ r.dev.bot_state = moving.bot_state /\ r.dev.out = "data"
        /\ r.dev.in = moving.in /\ r.dev.cbw = moving.cbw /\ r.dev.tag = moving.tag
        /\ r.dev.residue = moving.residue /\ r.dev.scsi_blk_len = moving.scsi_blk_len
        /\ r.dev.scsi_blk_addr = moving.scsi_blk_addr
    BY <1>9, <2>1 DEF Devices, Succeeds, SameElse
  <2>3. ASSUME NEW m2, Len(m2) = l + q PROVE Writes(r.dev, c, t, m2)
    <3>1. l + q < c.n
      BY <1>1, <1>3, <1>5, <1>12, <1>14
    <3>2. Fits => r.dev.scsi_blk_addr = (c.lba + Len(m2)) * BlockSize
      BY <1>8, <1>9, <2>2, <2>3, <3>1
    <3> QED
      BY <1>2, <1>9, <2>2, <2>3, <3>1, <3>2 DEF Writes, Serves, Unstalled
  <2>4. SameElse(d, r.dev) /\ ~r.dev.inStall
    BY <1>2, <1>9, <2>2 DEF SameElse, Unstalled
  <2> QED
    BY <1>5, <1>7, <1>12, <1>14, <2>2, <2>3, <2>4 DEF Stores, r, l, len
<1> QED
  BY <1>13, <1>14

-----------------------------------------------------------------------------
(* What the SCSI layer makes of a new command. *)

\* The device has taken the command c with tag t, and both endpoints are at rest.
Started(d, c, t) ==
  /\ Serves(d, c, t) /\ d.bot_state = "IDLE" /\ d.out = "off" /\ d.in = Nothing
  /\ Unstalled(d) /\ d.residue = c.len /\ d.bot_status # "ERROR"

\* The command and the endpoints have not changed.
SameLine(d, r) ==
  /\ r.cbw = d.cbw /\ r.tag = d.tag /\ r.residue = d.residue
  /\ r.in = d.in /\ r.out = d.out /\ r.inStall = d.inStall /\ r.outStall = d.outStall
  /\ r.bot_status = d.bot_status

\* The command is refused, with a reason.
Refused(d, r, c) ==
  /\ c.op # "REQUEST_SENSE"
  /\ ~r.ok /\ SameLine(d, r.dev)
  /\ r.dev.bot_state \in { "IDLE", "DATA_IN" } \/ (r.dev.bot_state = "NO_DATA" /\ c.len = 0)
  /\ NothingToTell(d) => ReasonToTell(r.dev)

\* It is done.
Done(d, r, c) ==
  /\ r.ok /\ SameLine(d, r.dev) /\ SameElse(d, r.dev)
  /\ r.dev.bot_state = "IDLE" /\ r.dev.bot_data = << >> /\ c.len = 0

\* There is a reply to send.  If it is the sense data, it is the reason, if there is one.
Replied(d, r, c) ==
  /\ r.ok /\ SameLine(d, r.dev) /\ r.dev.bot_state = "IDLE"
  /\ ~MovesBlocks(c) /\ c.dir = "in" /\ c.len # 0
  /\ \E code \in Replies : r.dev.bot_data = << code >>
  /\ IF c.op = "REQUEST_SENSE"
     THEN NothingToTell(d) \/ ReasonToTell(d) =>
            NothingToTell(r.dev) /\ r.dev.bot_data = << d.why >>
     ELSE r.dev.sense = d.sense /\ r.dev.why = d.why

\* Blocks are on their way, or expected.
Begun(d, r, c, t) ==
  /\ r.ok /\ SameElse(d, r.dev)
  /\ Reads(r.dev, c, t, << >>) \/ Writes(r.dev, c, t, << >>)

Outcome(d, r, c, t) ==
  /\ r.dev \in Devices /\ r.dev.bot_status = d.bot_status
  /\ Refused(d, r, c) \/ Done(d, r, c) \/ Replied(d, r, c) \/ Begun(d, r, c, t)

LEMMA FailureStep ==
  ASSUME NEW d \in Devices, NEW code \in SenseCodes
  PROVE  LET r == FailsWith(d, code)
         IN /\ ~r.ok /\ r.dev \in Devices /\ SameLine(d, r.dev)
            /\ r.dev.bot_state = d.bot_state
            /\ NothingToTell(d) => ReasonToTell(r.dev)
<1> DEFINE r == FailsWith(d, code)
<1>1. ~r.ok /\ r.dev = SCSI_SenseCode(d, code)
  BY DEF FailsWith, Fails
<1>2. r.dev \in Devices /\ (NothingToTell(d) => ReasonToTell(r.dev))
  BY <1>1, SenseCodeEffect
<1>3. r.dev = [ d EXCEPT !.sense = SCSI_SenseCode(d, code).sense, !.why = code ]
  BY <1>1, SenseCodeEffect
<1>4. SameLine(d, r.dev) /\ r.dev.bot_state = d.bot_state
  BY <1>3 DEF Devices, SameLine
<1> QED
  BY <1>1, <1>2, <1>4

\* A command refused by a device that differs from d only in the fields of a transfer.
LEMMA RefusedStep ==
  ASSUME NEW d \in Devices, NEW e \in Devices, NEW code \in SenseCodes, NEW c, NEW t,
         c.op # "REQUEST_SENSE", SameLine(d, e), SameElse(d, e),
         e.bot_state \in { "IDLE", "DATA_IN" } \/ (e.bot_state = "NO_DATA" /\ c.len = 0)
  PROVE  Outcome(d, FailsWith(e, code), c, t)
<1>1. NothingToTell(d) => NothingToTell(e)
  BY DEF NothingToTell, SameElse
<1>2. SameLine(e, FailsWith(e, code).dev) => SameLine(d, FailsWith(e, code).dev)
  BY DEF SameLine
<1> QED
  BY <1>1, <1>2, FailureStep DEF Outcome, Refused, SameLine

\* A range found to be in range is, if the sum does not wrap.
LEMMA InRange ==
  ASSUME NEW d \in Devices, NEW c \in Commands, MovesBlocks(c), d.scsi_blk_nbr = Blocks,
         ~OutOfRange(d, c.lba, c.n), Fits
  PROVE  c.lba + c.n <= Blocks /\ (c.lba * BlockSize) % Word = c.lba * BlockSize
<1>1. c.lba \in Nat /\ c.lba \in Lbas /\ c.n \in Counts /\ c.n \in Nat \ {0}
  BY CommandCases, MscAssumption
<1>2. Blocks \in Nat /\ Word \in Nat \ {0}
  BY MscAssumption
<1>3. c.lba + c.n < Word
  BY <1>1 DEF Fits
<1>4. (c.lba + (c.n % HalfWord)) % Word = c.lba + c.n
  <2>1. HalfWord \in Nat \ {0} /\ c.n < HalfWord
    BY <1>1, MscAssumption
  <2>2. c.n % HalfWord = c.n
    BY <1>1, <2>1
  <2> QED
    BY <1>1, <1>2, <1>3, <2>2
<1>5. c.lba + c.n <= Blocks
  BY <1>1, <1>2, <1>4 DEF OutOfRange
<1>6. c.lba < Blocks
  BY <1>1, <1>2, <1>5
<1> QED
  BY <1>1, <1>5, <1>6, NoWrap

LEMMA Read10Step ==
  ASSUME NEW d \in Devices, NEW c \in Commands, NEW t, Started(d, c, t), c.op = "READ10",
         d.scsi_blk_nbr = Blocks, NEW ready \in BOOLEAN, NEW media \in BOOLEAN
  PROVE  Outcome(d, SCSI_Read10(d, ready, media), c, t)
<1> DEFINE asked == [ d EXCEPT !.scsi_blk_addr = c.lba, !.scsi_blk_len = c.n ]
           started == [ asked EXCEPT !.bot_state = "DATA_IN",
                                     !.scsi_blk_addr = (c.lba * BlockSize) % Word,
                                     !.scsi_blk_len = c.n * BlockSize ]
           r == SCSI_Read10(d, ready, media)
<1>1. MovesBlocks(c) /\ c.dir = "in" /\ c.lba \in 0 .. Word - 1 /\ c.n \in Nat \ {0} /\ c.len \in Nat
  BY CommandCases DEF MovesBlocks
<1>2. BlockSize \in Nat \ {0} /\ Word \in Nat \ {0}
  BY MscAssumption
<1>3. c.n * BlockSize \in Nat /\ (c.lba * BlockSize) % Word \in 0 .. Word - 1
  BY <1>1, <1>2
<1>4. asked \in Devices /\ SameLine(d, asked) /\ SameElse(d, asked) /\ asked.bot_state = "IDLE"
  BY <1>1 DEF Devices, SameLine, SameElse, Started
<1>5. /\ started \in Devices /\ SameLine(d, started) /\ SameElse(d, started)
      /\ started.bot_state = "DATA_IN" /\ started.scsi_blk_len = c.n * BlockSize
      /\ started.scsi_blk_addr = (c.lba * BlockSize) % Word
  BY <1>3 DEF Devices, SameLine, SameElse
<1>6. SameLine(d, d) /\ SameElse(d, d) /\ d.bot_state = "IDLE" /\ d.cbw = c
  BY DEF SameLine, SameElse, Started, Serves
<1>7. r = IF ~ready THEN FailsWith(d, "MEDIUM_NOT_PRESENT")
          ELSE IF OutOfRange(d, c.lba, c.n) THEN FailsWith(asked, "ADDRESS_OUT_OF_RANGE")
          ELSE IF c.len # started.scsi_blk_len THEN FailsWith(started, "INVALID_CDB")
          ELSE SCSI_ProcessRead(started, media)
  BY <1>1, <1>6 DEF SCSI_Read10
<1> HIDE DEF asked, started, r
<1>8. CASE ~ready
  BY <1>6, <1>7, <1>8, RefusedStep DEF SenseCodes, r
<1>9. CASE ready /\ OutOfRange(d, c.lba, c.n)
  BY <1>4, <1>7, <1>9, RefusedStep DEF SenseCodes, r
<1>10. CASE ready /\ ~OutOfRange(d, c.lba, c.n) /\ c.len # started.scsi_blk_len
  BY <1>5, <1>7, <1>10, RefusedStep DEF SenseCodes, r
<1>11. CASE ready /\ ~OutOfRange(d, c.lba, c.n) /\ c.len = started.scsi_blk_len /\ ~media
  <2>1. r = FailsWith(started, "UNRECOVERED_READ_ERROR")
    BY <1>7, <1>11 DEF SCSI_ProcessRead
  <2> QED
    BY <1>5, <2>1, RefusedStep DEF SenseCodes, r
<1>12. CASE ready /\ ~OutOfRange(d, c.lba, c.n) /\ c.len = started.scsi_blk_len /\ media
  <2>1. r = SCSI_ProcessRead(started, TRUE)
    BY <1>7, <1>12
  <2>2. Fits => c.lba + c.n <= Blocks /\ started.scsi_blk_addr = (c.lba + 0) * BlockSize
    BY <1>1, <1>5, <1>12, InRange
  <2>3. started.residue = (c.n - 0) * BlockSize /\ started.scsi_blk_len = started.residue /\ 0 < c.n
    BY <1>1, <1>5, <1>12 DEF Started, SameLine
  <2>4. Serves(started, c, t) /\ started.out = "off" /\ Unstalled(started)
    BY <1>5 DEF Started, SameLine, Serves, Unstalled
  <2>5. c.len = c.n * BlockSize
    BY <1>5, <1>12
  <2>6. ReadPending(started, c, t, 0)
    BY <1>5, <2>2, <2>3, <2>4, <2>5 DEF ReadPending
  <2>7. r.ok /\ r.dev \in Devices /\ SameElse(started, r.dev) /\ Reads(r.dev, c, t, << >>)
    BY <1>5, <2>1, <2>6, ReadStep, Len(<< >>) = 0
  <2> QED
    BY <1>5, <2>7 DEF Outcome, Begun, SameElse, r
<1> QED
  BY <1>8, <1>9, <1>10, <1>11, <1>12 DEF r

LEMMA Write10Step ==
  ASSUME NEW d \in Devices, NEW c \in Commands, NEW t, Started(d, c, t), c.op = "WRITE10",
         d.scsi_blk_nbr = Blocks, NEW ready \in BOOLEAN, NEW media \in BOOLEAN
  PROVE  Outcome(d, SCSI_Write10(d, ready, media), c, t)
<1> DEFINE asked == [ d EXCEPT !.scsi_blk_addr = c.lba, !.scsi_blk_len = c.n ]
           started == [ asked EXCEPT !.scsi_blk_addr = (c.lba * BlockSize) % Word,
                                     !.scsi_blk_len = c.n * BlockSize ]
           begun == [ started EXCEPT !.bot_state = "DATA_OUT", !.out = "data" ]
           r == SCSI_Write10(d, ready, media)
<1>1. MovesBlocks(c) /\ c.dir = "out" /\ c.lba \in 0 .. Word - 1 /\ c.n \in Nat \ {0} /\ c.len \in Nat
  BY CommandCases DEF MovesBlocks
<1>2. BlockSize \in Nat \ {0} /\ Word \in Nat \ {0}
  BY MscAssumption
<1>3. c.n * BlockSize \in Nat /\ (c.lba * BlockSize) % Word \in 0 .. Word - 1
  BY <1>1, <1>2
<1>4. asked \in Devices /\ SameLine(d, asked) /\ SameElse(d, asked) /\ asked.bot_state = "IDLE"
  BY <1>1 DEF Devices, SameLine, SameElse, Started
<1>5. /\ started \in Devices /\ SameLine(d, started) /\ SameElse(d, started)
      /\ started.bot_state = "IDLE" /\ started.scsi_blk_len = c.n * BlockSize
      /\ started.scsi_blk_addr = (c.lba * BlockSize) % Word
  BY <1>3 DEF Devices, SameLine, SameElse, Started
<1>6. SameLine(d, d) /\ SameElse(d, d) /\ d.bot_state = "IDLE" /\ d.cbw = c
  BY DEF SameLine, SameElse, Started, Serves
<1>7. r = IF ~ready THEN FailsWith(d, "MEDIUM_NOT_PRESENT")
          ELSE IF OutOfRange(d, c.lba, c.n) THEN FailsWith(asked, "ADDRESS_OUT_OF_RANGE")
          ELSE IF c.len # started.scsi_blk_len THEN FailsWith(started, "INVALID_CDB")
          ELSE Succeeds(begun)
  BY <1>1, <1>6 DEF SCSI_Write10
<1>8. /\ begun \in Devices /\ SameElse(d, begun) /\ begun.bot_state = "DATA_OUT" /\ begun.out = "data"
      /\ begun.scsi_blk_len = c.n * BlockSize /\ begun.scsi_blk_addr = (c.lba * BlockSize) % Word
      /\ begun.cbw = d.cbw /\ begun.tag = d.tag /\ begun.residue = d.residue /\ begun.in = d.in
      /\ begun.inStall = d.inStall /\ begun.outStall = d.outStall
  BY <1>5 DEF Devices, SameElse, SameLine
<1> HIDE DEF asked, started, begun, r
<1>9. CASE ~ready
  BY <1>6, <1>7, <1>9, RefusedStep DEF SenseCodes, r
<1>10. CASE ready /\ OutOfRange(d, c.lba, c.n)
  BY <1>4, <1>7, <1>10, RefusedStep DEF SenseCodes, r
<1>11. CASE ready /\ ~OutOfRange(d, c.lba, c.n) /\ c.len # started.scsi_blk_len
  BY <1>5, <1>7, <1>11, RefusedStep DEF SenseCodes, r
<1>12. CASE ready /\ ~OutOfRange(d, c.lba, c.n) /\ c.len = started.scsi_blk_len
  <2>1. r = Succeeds(begun)
    BY <1>7, <1>12
  <2>2. Fits => c.lba + c.n <= Blocks /\ begun.scsi_blk_addr = (c.lba + 0) * BlockSize
    BY <1>1, <1>8, <1>12, InRange
  <2>3. begun.residue = (c.n - 0) * BlockSize /\ begun.scsi_blk_len = begun.residue /\ 0 < c.n
    BY <1>1, <1>5, <1>8, <1>12 DEF Started
  <2>4. Serves(begun, c, t) /\ begun.in = Nothing /\ Unstalled(begun)
    BY <1>8 DEF Started, Serves, Unstalled
  <2>5. c.len = c.n * BlockSize /\ Len(<< >>) = 0
    BY <1>5, <1>12
  <2>6. Writes(begun, c, t, << >>)
    BY <1>8, <2>2, <2>3, <2>4, <2>5 DEF Writes
  <2> QED
    BY <1>8, <2>1, <2>6 DEF Outcome, Begun, SameElse, Succeeds, r
<1> QED
  BY <1>9, <1>10, <1>11, <1>12 DEF r

\* A command that is done, or has a reply, without a change to the endpoints.
LEMMA DoneStep ==
  ASSUME NEW d \in Devices, NEW c \in Commands, NEW t, Started(d, c, t), c.len = 0
  PROVE  Outcome(d, Succeeds([ d EXCEPT !.bot_data = << >> ]), c, t)
<1> DEFINE e == [ d EXCEPT !.bot_data = << >> ]
<1>1. /\ e \in Devices /\ SameLine(d, e) /\ SameElse(d, e)
      /\ e.bot_state = "IDLE" /\ e.bot_data = << >>
  BY DEF Devices, SameLine, SameElse, Started
<1> HIDE DEF e
<1>2. Done(d, Succeeds(e), c) /\ Succeeds(e).dev = e
  BY <1>1 DEF Done, Succeeds
<1> QED
  BY <1>1, <1>2 DEF Outcome, SameLine, e

LEMMA ReplyStep ==
  ASSUME NEW d \in Devices, NEW c \in Commands, NEW t, Started(d, c, t),
         c.op \in { "INQUIRY", "READ_CAPACITY10", "READ_FORMAT_CAPACITIES" },
         NEW code \in Replies, NEW e \in Devices,
         SameLine(d, e), e.sense = d.sense, e.why = d.why,
         e.bot_state = "IDLE", e.bot_data = << code >>
  PROVE  Outcome(d, Succeeds(e), c, t)
<1>1. ~MovesBlocks(c) /\ c.dir = "in" /\ c.len # 0 /\ c.op # "REQUEST_SENSE"
  BY CommandCases DEF MovesBlocks
<1>2. Succeeds(e).ok /\ Succeeds(e).dev = e
  BY DEF Succeeds
<1>3. Replied(d, Succeeds(e), c)
  BY <1>1, <1>2 DEF Replied
<1> QED
  BY <1>2, <1>3 DEF Outcome, SameLine

\* The oldest reason is the only one.
LEMMA SenseStep ==
  ASSUME NEW d \in Devices, NEW c \in Commands, NEW t, Started(d, c, t), c.op = "REQUEST_SENSE"
  PROVE  Outcome(d, SCSI_RequestSense(d), c, t)
<1> DEFINE code == IF d.sense = << >> THEN "NO_SENSE" ELSE Head(d.sense)
           rest == IF d.sense = << >> THEN << >> ELSE Tail(d.sense)
           e == [ d EXCEPT !.bot_data = << code >>, !.sense = rest, !.why = "NO_SENSE" ]
<1>1. ~MovesBlocks(c) /\ c.dir = "in" /\ c.len # 0
  BY CommandCases DEF MovesBlocks
<1>2. d.sense \in Seq(SenseCodes \cup { "stray" }) /\ Len(d.sense) < SENSE_LIST_DEPTH
  BY DEF Devices, Rings
<1>3. code \in Replies
  BY <1>2 DEF Replies
<1>4. rest \in Rings
  <2>1. CASE d.sense = << >>
    BY <1>2, <2>1 DEF Rings
  <2>2. CASE d.sense # << >>
    <3>1. Tail(d.sense) \in Seq(SenseCodes \cup { "stray" }) /\ Len(Tail(d.sense)) = Len(d.sense) - 1
      BY <1>2, <2>2
    <3>2. Len(d.sense) \in Nat /\ SENSE_LIST_DEPTH \in Nat
      BY <1>2, MscAssumption
    <3> QED
      BY <1>2, <2>2, <3>1, <3>2 DEF Rings
  <2> QED
    BY <2>1, <2>2
<1>5. NothingToTell(d) => code = d.why /\ rest = << >>
  BY DEF NothingToTell
<1>6. ReasonToTell(d) => code = d.why /\ rest = << >>
  <2>1. ASSUME NEW x PROVE Head(<< x >>) = x /\ Tail(<< x >>) = << >> /\ << x >> # << >>
    OBVIOUS
  <2> QED
    BY <2>1 DEF ReasonToTell
<1>7. SCSI_RequestSense(d) = Succeeds(e)
  BY DEF SCSI_RequestSense
<1> HIDE DEF code, rest
<1>8. e \in Devices
  BY <1>3, <1>4 DEF Devices
<1>9. SameLine(d, e) /\ e.bot_state = "IDLE" /\ e.bot_data = << code >>
      /\ e.sense = rest /\ e.why = "NO_SENSE"
  BY DEF Devices, SameLine, Started
<1> HIDE DEF e
<1>10. Succeeds(e).ok /\ Succeeds(e).dev = e
  BY DEF Succeeds
<1>11. NothingToTell(d) \/ ReasonToTell(d) => NothingToTell(e) /\ e.bot_data = << d.why >>
  BY <1>5, <1>6, <1>9 DEF NothingToTell
<1>12. Replied(d, Succeeds(e), c)
  BY <1>1, <1>3, <1>9, <1>10, <1>11 DEF Replied
<1> QED
  BY <1>7, <1>8, <1>9, <1>10, <1>12 DEF Outcome, SameLine

LEMMA CommandStep ==
  ASSUME NEW d \in Devices, NEW c \in Commands, NEW t, Started(d, c, t),
         MovesBlocks(c) => d.scsi_blk_nbr = Blocks,
         NEW ready \in BOOLEAN, NEW media \in BOOLEAN
  PROVE  Outcome(d, SCSI_ProcessCmd(d, ready, media), c, t)
<1> DEFINE r == SCSI_ProcessCmd(d, ready, media)
<1>1. c.op \in Operations /\ d.cbw = c
  BY CommandCases DEF Started, Serves
<1>2. SameLine(d, d) /\ SameElse(d, d) /\ d.bot_state = "IDLE"
  BY DEF SameLine, SameElse, Started
<1>3. CASE c.op = "TEST_UNIT_READY"
  <2>1. c.len = 0 /\ r = SCSI_TestUnitReady(d, ready)
    BY <1>1, <1>3, CommandCases DEF SCSI_ProcessCmd
  <2>2. CASE ready
    <3>1. r = Succeeds([ d EXCEPT !.bot_data = << >> ])
      BY <1>1, <2>1, <2>2 DEF SCSI_TestUnitReady
    <3> QED
      BY <2>1, <3>1, DoneStep
  <2>3. CASE ~ready
    <3> DEFINE e == [ d EXCEPT !.bot_state = "NO_DATA" ]
    <3>1. r = FailsWith(e, "MEDIUM_NOT_PRESENT")
      BY <1>1, <2>1, <2>3 DEF SCSI_TestUnitReady
    <3>2. e \in Devices /\ SameLine(d, e) /\ SameElse(d, e) /\ e.bot_state = "NO_DATA"
      BY DEF Devices, SameLine, SameElse
    <3> HIDE DEF e
    <3> QED
      BY <2>1, <1>3, <3>1, <3>2, RefusedStep DEF SenseCodes
  <2> QED
    BY <2>2, <2>3
<1>4. CASE c.op = "REQUEST_SENSE"
  <2>1. r = SCSI_RequestSense(d)
    BY <1>1, <1>4 DEF SCSI_ProcessCmd
  <2> QED
    BY <1>4, <2>1, SenseStep
<1>5. CASE c.op = "INQUIRY"
  <2> DEFINE e == [ d EXCEPT !.bot_data = << "inquiry" >> ]
  <2>1. r = Succeeds(e)
    BY <1>1, <1>5 DEF SCSI_ProcessCmd
  <2>2. e \in Devices
    BY DEF Devices, Replies
  <2>3. /\ SameLine(d, e) /\ e.sense = d.sense /\ e.why = d.why /\ e.bot_state = "IDLE"
        /\ e.bot_data = << "inquiry" >>
    BY DEF Devices, SameLine, Started
  <2>4. "inquiry" \in Replies
    BY DEF Replies
  <2> HIDE DEF e
  <2> QED
    BY <1>5, <2>1, <2>2, <2>3, <2>4, ReplyStep
<1>6. CASE c.op \in { "START_STOP_UNIT", "VERIFY10" }
  <2>1. c.len = 0
    BY <1>6, CommandCases
  <2>2. CASE c.op = "START_STOP_UNIT" \/ ~OutOfRange(d, d.scsi_blk_addr, d.scsi_blk_len)
    <3>1. r = Succeeds([ d EXCEPT !.bot_data = << >> ])
      BY <1>1, <1>6, <2>2 DEF SCSI_ProcessCmd, SCSI_Verify10
    <3> QED
      BY <2>1, <3>1, DoneStep
  <2>3. CASE c.op = "VERIFY10" /\ OutOfRange(d, d.scsi_blk_addr, d.scsi_blk_len)
    <3>1. r = FailsWith(d, "ADDRESS_OUT_OF_RANGE")
      BY <1>1, <2>3 DEF SCSI_ProcessCmd, SCSI_Verify10
    <3> QED
      BY <1>2, <2>3, <3>1, RefusedStep DEF SenseCodes
  <2> QED
    BY <1>6, <2>2, <2>3
<1>7. CASE c.op \in { "READ_CAPACITY10", "READ_FORMAT_CAPACITIES" }
  <2>1. CASE ~ready
    <3>1. r = FailsWith(d, "MEDIUM_NOT_PRESENT")
      BY <1>1, <1>7, <2>1 DEF SCSI_ProcessCmd, SCSI_ReadCapacity10, SCSI_ReadFormatCapacity
    <3> QED
      BY <1>2, <1>7, <3>1, RefusedStep DEF SenseCodes
  <2>2. CASE ready
    <3> DEFINE e == IF c.op = "READ_CAPACITY10"
                    THEN [ d EXCEPT !.scsi_blk_nbr = Blocks, !.bot_data = << "capacity" >> ]
                    ELSE [ d EXCEPT !.bot_data = << "capacity" >> ]
    <3>1. r = Succeeds(e)
      BY <1>1, <1>7, <2>2 DEF SCSI_ProcessCmd, SCSI_ReadCapacity10, SCSI_ReadFormatCapacity
    <3>2. e \in Devices
      BY DEF Devices, Replies
    <3>3. /\ SameLine(d, e) /\ e.sense = d.sense /\ e.why = d.why /\ e.bot_state = "IDLE"
          /\ e.bot_data = << "capacity" >>
      BY DEF Devices, SameLine, Started
    <3>4. "capacity" \in Replies
      BY DEF Replies
    <3> HIDE DEF e
    <3> QED
      BY <1>7, <3>1, <3>2, <3>3, <3>4, ReplyStep
  <2> QED
    BY <2>1, <2>2
<1>8. CASE c.op = "READ10"
  <2>1. r = SCSI_Read10(d, ready, media)
    BY <1>1, <1>8 DEF SCSI_ProcessCmd
  <2> QED
    BY <1>8, <2>1, Read10Step DEF MovesBlocks
<1>9. CASE c.op = "WRITE10"
  <2>1. r = SCSI_Write10(d, ready, media)
    BY <1>1, <1>9 DEF SCSI_ProcessCmd
  <2> QED
    BY <1>9, <2>1, Write10Step DEF MovesBlocks
<1>10. CASE c.op = "OTHER"
  <2>1. r = FailsWith(d, "INVALID_CDB")
    BY <1>1, <1>10 DEF SCSI_ProcessCmd
  <2> QED
    BY <1>2, <1>10, <2>1, RefusedStep DEF SenseCodes
<1> QED
  BY <1>1, <1>3, <1>4, <1>5, <1>6, <1>7, <1>8, <1>9, <1>10 DEF Operations

-----------------------------------------------------------------------------
(* What the transport makes of a new command. *)

\* Whatever fails has a reason from then on.
Explained(d, r) == NothingToTell(d) => IF Failing(r) THEN ReasonToTell(r) ELSE NothingToTell(r)

\* The reply to the sense request is the reason.
Accounts(d, r, c) ==
  IF c.op = "REQUEST_SENSE"
  THEN NothingToTell(d) \/ ReasonToTell(d) =>
         ~Failing(r) /\ NothingToTell(r) /\ r.in = Data(<< d.why >>)
  ELSE Explained(d, r)

Taken(d, r, c, t) ==
  /\ r \in Devices /\ r.bot_status = d.bot_status
  /\ \/ c.len = 0 /\ Answers(r, c, t, << >>) /\ ~r.inStall
     \/ Tells(r, c, t, << >>)
     \/ Reads(r, c, t, << >>)
     \/ Writes(r, c, t, << >>)
     \/ /\ Aborts(r, c, t, << >>)
        /\ r.outStall <=> (c.dir = "out" /\ c.len # 0 /\ r.bot_status = "NORMAL")
  /\ Accounts(d, r, c)

\* A status that answers a command of which nothing has moved.
LEMMA CswStep ==
  ASSUME NEW d \in Devices, NEW status \in Statuses
  PROVE  /\ BOT_SendCSW(d, status) \in Devices
         /\ SameElse(d, BOT_SendCSW(d, status))
         /\ BOT_SendCSW(d, status).bot_state = "IDLE" /\ BOT_SendCSW(d, status).out = "cbw"
         /\ BOT_SendCSW(d, status).in = Csw(d.tag, d.residue, status)
         /\ BOT_SendCSW(d, status).inStall <=> d.inStall
         /\ BOT_SendCSW(d, status).outStall <=> d.outStall
<1>1. Csw(d.tag, d.residue, status) \in Packets
  BY PacketTypes DEF Devices
<1> QED
  BY <1>1 DEF Devices, SameElse, BOT_SendCSW

LEMMA AbortStep ==
  ASSUME NEW d \in Devices, d.bot_status # "ERROR"
  PROVE  /\ BOT_Abort(d) \in Devices /\ SameElse(d, BOT_Abort(d))
         /\ BOT_Abort(d).cbw = d.cbw /\ BOT_Abort(d).tag = d.tag /\ BOT_Abort(d).residue = d.residue
         /\ BOT_Abort(d).in = d.in /\ BOT_Abort(d).out = d.out /\ BOT_Abort(d).bot_state = d.bot_state
         /\ BOT_Abort(d).inStall
         /\ BOT_Abort(d).outStall
              <=> (d.outStall \/ (d.cbw.dir = "out" /\ d.cbw.len # 0 /\ d.bot_status = "NORMAL"))
BY DEF Devices, SameElse, BOT_Abort

LEMMA DecodeStep ==
  ASSUME NEW d \in Devices, Waits(d), d.bot_status # "ERROR",
         NEW c \in Commands, NEW t \in Tags, MovesBlocks(c) => d.scsi_blk_nbr = Blocks,
         NEW ready \in BOOLEAN, NEW media \in BOOLEAN
  PROVE  Taken(d, CommandOut(d, c, t, ready, media), c, t)
<1> DEFINE off == [ d EXCEPT !.out = "off" ]
           got == [ off EXCEPT !.cbw = c, !.tag = t, !.residue = c.len ]
           done == SCSI_ProcessCmd(got, ready, media)
           r == CommandOut(d, c, t, ready, media)
           e == done.dev
<1>1. c.len \in Nat /\ c \in Commands \cup { Stray }
  BY CommandCases
<1>2. got \in Devices /\ Started(got, c, t) /\ SameElse(d, got)
  BY <1>1 DEF Devices, Started, SameElse, Serves, Unstalled, Waits
<1>3. r = IF ~done.ok THEN
            IF e.bot_state = "NO_DATA" THEN BOT_SendCSW(e, "failed") ELSE BOT_Abort(e)
          ELSE IF e.bot_state \in { "DATA_IN", "DATA_OUT", "LAST_DATA_IN" } THEN e
          ELSE IF e.bot_data # << >> THEN BOT_SendData(e)
          ELSE BOT_SendCSW(e, "passed")
  BY DEF CommandOut, BOT_CBW_Decode, Waits
<1> HIDE DEF got
<1>4. Outcome(got, done, c, t)
  BY <1>2, CommandStep DEF SameElse
<1> HIDE DEF done, r
<1>5. e \in Devices /\ e.bot_status = d.bot_status
  BY <1>2, <1>4 DEF Outcome, SameElse
<1>6. BytesOf(c, << >>) = 0
  BY MscAssumption DEF BytesOf
<1>7. /\ NothingToTell(d) <=> NothingToTell(got)
      /\ ReasonToTell(d) <=> ReasonToTell(got)
      /\ got.why = d.why
  BY <1>2 DEF NothingToTell, ReasonToTell, SameElse
<1>8. CASE Refused(got, done, c)
  <2>1. /\ e.cbw = c /\ e.tag = t /\ e.residue = c.len /\ e.in = Nothing /\ e.out = "off"
        /\ ~e.inStall /\ ~e.outStall
    BY <1>2, <1>8 DEF Refused, SameLine, Started, Serves, Unstalled
  <2>2. NothingToTell(d) => ReasonToTell(e)
    BY <1>7, <1>8 DEF Refused
  <2>3. CASE e.bot_state = "NO_DATA"
    <3>1. r = BOT_SendCSW(e, "failed") /\ c.len = 0
      BY <1>3, <1>8, <2>3 DEF Refused
    <3>2. /\ r \in Devices /\ SameElse(e, r) /\ r.bot_state = "IDLE" /\ r.out = "cbw"
          /\ r.in = Csw(t, c.len, "failed") /\ ~r.inStall /\ ~r.outStall
      BY <1>5, <2>1, <3>1, StatusTypes, CswStep
    <3>3. Answers(r, c, t, << >>)
      BY <1>1, <1>6, <3>1, <3>2 DEF Answers, Statuses
    <3>4. Accounts(d, r, c)
      BY <1>8, <2>2, <3>2, PacketKinds DEF Accounts, Explained, Failing, ReasonToTell, SameElse, Refused
    <3> QED
      BY <1>5, <3>1, <3>2, <3>3, <3>4 DEF Taken, SameElse, r
  <2>4. CASE e.bot_state # "NO_DATA"
    <3>1. r = BOT_Abort(e) /\ e.bot_state \in { "IDLE", "DATA_IN" }
      BY <1>3, <1>8, <2>4 DEF Refused
    <3>2. /\ r \in Devices /\ SameElse(e, r) /\ r.bot_state = e.bot_state /\ r.out = "off"
          /\ r.in = Nothing /\ r.inStall /\ r.cbw = c /\ r.tag = t /\ r.residue = c.len
          /\ r.outStall <=> (c.dir = "out" /\ c.len # 0 /\ r.bot_status = "NORMAL")
      BY <1>5, <2>1, <3>1, AbortStep DEF SameElse
    <3>3. Aborts(r, c, t, << >>)
      BY <1>5, <3>1, <3>2 DEF Aborts, Serves, SameElse
    <3>4. Accounts(d, r, c)
      BY <1>8, <2>2, <3>2 DEF Accounts, Explained, Failing, ReasonToTell, SameElse, Refused
    <3> QED
      BY <1>5, <3>2, <3>3, <3>4 DEF Taken, SameElse, r
  <2> QED
    BY <2>3, <2>4
<1>9. CASE Done(got, done, c)
  <2>1. /\ e.tag = t /\ e.residue = c.len /\ ~e.inStall /\ ~e.outStall
        /\ SameElse(got, e) /\ c.len = 0
    BY <1>2, <1>9 DEF Done, SameLine, Started, Serves, Unstalled
  <2>2. r = BOT_SendCSW(e, "passed")
    BY <1>3, <1>9 DEF Done
  <2>3. /\ r \in Devices /\ SameElse(e, r) /\ r.bot_state = "IDLE" /\ r.out = "cbw"
        /\ r.in = Csw(t, c.len, "passed") /\ ~r.inStall /\ ~r.outStall
    BY <1>5, <2>1, <2>2, StatusTypes, CswStep
  <2>4. ~MovesBlocks(c) /\ c.op # "REQUEST_SENSE"
    BY <2>1, CommandCases
  <2>5. Answers(r, c, t, << >>)
    BY <1>1, <1>6, <2>1, <2>3, <2>4 DEF Answers, Statuses
  <2>6. Accounts(d, r, c)
    BY <1>7, <2>1, <2>3, <2>4, PacketKinds DEF Accounts, Explained, Failing, NothingToTell, SameElse
  <2> QED
    BY <1>5, <2>1, <2>3, <2>5, <2>6 DEF Taken, SameElse, r
<1>10. CASE Replied(got, done, c)
  <2>1. /\ e.cbw = c /\ e.tag = t /\ e.residue = c.len /\ e.in = Nothing /\ e.out = "off"
        /\ ~e.inStall /\ ~e.outStall /\ c.len # 0 /\ ~MovesBlocks(c)
    BY <1>2, <1>10 DEF Replied, SameLine, Started, Serves, Unstalled
  <2>2. PICK code \in Replies : e.bot_data = << code >>
    BY <1>10 DEF Replied
  <2>3. /\ r = BOT_SendData(e) /\ Len(e.bot_data) = 1 /\ SubSeq(e.bot_data, 1, 1) = << code >>
        /\ AtMost(c.len, 1) = 1
    <3>1. << code >> # << >> /\ Len(<< code >>) = 1 /\ SubSeq(<< code >>, 1, 1) = << code >>
      <4>1. << code >> \in Seq(Replies) /\ Len(<< code >>) = 1
        OBVIOUS
      <4>2. SubSeq(<< code >>, 1, 1) = << code >>
        BY <4>1, SubSeqFull
      <4> QED
        BY <4>1, <4>2
    <3>2. AtMost(c.len, 1) = 1
      BY <1>1, <2>1 DEF AtMost
    <3>3. r = BOT_SendData(e)
      BY <1>3, <1>10, <2>2, <3>1 DEF Replied
    <3> QED
      BY <2>2, <3>1, <3>2, <3>3
  <2>4. r = [ e EXCEPT !.residue = c.len - 1, !.bot_state = "SEND_DATA", !.in = Data(<< code >>) ]
    BY <2>1, <2>3 DEF BOT_SendData
  <2>5. Data(<< code >>) \in Packets /\ c.len - 1 \in Nat
    BY <1>1, <2>1, PacketTypes
  <2>6. /\ r \in Devices /\ SameElse(e, r) /\ r.bot_state = "SEND_DATA" /\ r.out = "off"
        /\ r.in = Data(<< code >>) /\ r.residue = c.len - 1 /\ r.cbw = c /\ r.tag = t
        /\ ~r.inStall /\ ~r.outStall
    BY <1>5, <2>1, <2>4, <2>5 DEF Devices, SameElse
  <2>7. Tells(r, c, t, << >>)
    BY <1>10, <2>1, <2>6 DEF Replied, Tells, Serves, Unstalled
  <2>8. Accounts(d, r, c)
    <3>1. ~Failing(r)
      BY <2>6, PacketKinds DEF Failing
    <3>2. code = e.bot_data[1]
      BY <2>2
    <3> QED
      BY <1>7, <1>10, <2>2, <2>6, <3>1 DEF Replied, Accounts, Explained, NothingToTell, SameElse
  <2> QED
    BY <1>5, <2>6, <2>7, <2>8 DEF Taken, SameElse, r
<1>11. CASE Begun(got, done, c, t)
  <2>1. r = e
    BY <1>3, <1>11 DEF Begun, Reads, Carries, Writes
  <2>2. c.op # "REQUEST_SENSE" /\ ~Failing(r)
    BY <1>11, <2>1, PacketKinds DEF Begun, Reads, Carries, Writes, Failing, Unstalled
  <2>3. Accounts(d, r, c)
    BY <1>7, <1>11, <2>1, <2>2 DEF Accounts, Explained, Begun, NothingToTell, SameElse
  <2> QED
    BY <1>5, <1>11, <2>1, <2>3 DEF Taken, Begun, r
<1> QED
  BY <1>4, <1>8, <1>9, <1>10, <1>11 DEF Outcome

-----------------------------------------------------------------------------
(* What the device does when the host has taken a packet. *)

\* The status, when what is left of the command is what has not moved.
LEMMA AnswerStep ==
  ASSUME NEW d \in Devices, NEW c, NEW m, NEW status \in Statuses,
         ~d.outStall, d.residue = c.len - BytesOf(c, m),
         status = "passed" /\ MovesBlocks(c) => BytesOf(c, m) = c.len
  PROVE  Answers(BOT_SendCSW(d, status), c, d.tag, m)
BY CswStep DEF Answers

\* The device has nothing more to say, and waits for a command.
LEMMA AnswerTaken ==
  ASSUME NEW d \in Devices, NEW c, NEW t, NEW m, Answers(d, c, t, m),
         NEW ready \in BOOLEAN, NEW media \in BOOLEAN
  PROVE  LET r == USBD_MSC_DataIn(d, ready, media)
         IN /\ r \in Devices /\ SameElse(d, r) /\ (r.inStall <=> d.inStall) /\ ~r.outStall
            /\ r.bot_state = "IDLE" /\ r.out = "cbw" /\ r.in = Nothing
<1> DEFINE r == USBD_MSC_DataIn(d, ready, media)
<1>1. r = [ d EXCEPT !.in = Nothing ]
  BY DEF USBD_MSC_DataIn, Answers
<1>2. Nothing \in Packets
  BY PacketTypes
<1> HIDE DEF r
<1>3. /\ r \in Devices /\ SameElse(d, r) /\ (r.inStall <=> d.inStall) /\ ~r.outStall
      /\ r.bot_state = "IDLE" /\ r.out = "cbw" /\ r.in = Nothing
  BY <1>1, <1>2 DEF Devices, SameElse, Answers
<1> QED
  BY <1>3 DEF r

\* The reply has arrived: the status follows.
LEMMA ReplyTaken ==
  ASSUME NEW d \in Devices, NEW c \in Commands, NEW t, NEW m, NEW m2,
         Tells(d, c, t, m), Len(m2) = 1, NEW ready \in BOOLEAN, NEW media \in BOOLEAN
  PROVE  LET r == USBD_MSC_DataIn(d, ready, media)
         IN /\ r \in Devices /\ SameElse(d, r) /\ ~r.inStall
            /\ Answers(r, c, t, m2) /\ r.in.status = "passed"
<1> DEFINE r == USBD_MSC_DataIn(d, ready, media)
           taken == [ d EXCEPT !.in = Nothing ]
<1>1. r = BOT_SendCSW(taken, "passed")
  BY DEF USBD_MSC_DataIn, Tells
<1>2. /\ taken \in Devices /\ SameElse(d, taken) /\ taken.tag = t /\ taken.residue = c.len - 1
      /\ ~taken.inStall /\ ~taken.outStall
  BY PacketTypes DEF Devices, SameElse, Tells, Serves, Unstalled
<1>3. BytesOf(c, m2) = 1 /\ ~MovesBlocks(c)
  BY DEF BytesOf, Tells
<1> HIDE DEF r, taken
<1>4. /\ r \in Devices /\ SameElse(taken, r) /\ ~r.inStall
      /\ r.in = Csw(taken.tag, taken.residue, "passed")
  BY <1>1, <1>2, StatusTypes, CswStep
<1>5. Answers(r, c, t, m2)
  BY <1>1, <1>2, <1>3, StatusTypes, AnswerStep
<1> QED
  BY <1>2, <1>4, <1>5, PacketKinds DEF SameElse, r

\* The transfer ends with a failure; what has not moved is counted.
LEMMA CutOff ==
  ASSUME NEW d \in Devices, NEW code \in SenseCodes, NEW c, NEW m,
         Unstalled(d), d.residue = c.len - BytesOf(c, m)
  PROVE  LET r == BOT_SendCSW(FailsWith(d, code).dev, "failed")
         IN /\ r \in Devices /\ r.bot_status = d.bot_status /\ r.scsi_blk_nbr = d.scsi_blk_nbr
            /\ ~r.inStall
            /\ Answers(r, c, d.tag, m) /\ r.in.status = "failed" /\ Explained(d, r)
<1> DEFINE e == FailsWith(d, code).dev
           r == BOT_SendCSW(e, "failed")
<1>1. e \in Devices /\ SameLine(d, e) /\ (NothingToTell(d) => ReasonToTell(e))
  BY FailureStep
<1>2. e.scsi_blk_nbr = d.scsi_blk_nbr
  <2>1. e = [ d EXCEPT !.sense = SCSI_SenseCode(d, code).sense, !.why = code ]
    BY SenseCodeEffect DEF FailsWith, Fails
  <2> QED
    BY <2>1 DEF Devices
<1> HIDE DEF e
<1>3. ~e.inStall /\ ~e.outStall /\ e.residue = c.len - BytesOf(c, m) /\ e.tag = d.tag
  BY <1>1 DEF SameLine, Unstalled
<1>4. /\ r \in Devices /\ SameElse(e, r) /\ ~r.inStall
      /\ r.in = Csw(e.tag, e.residue, "failed")
  BY <1>1, <1>3, StatusTypes, CswStep
<1>5. Answers(r, c, d.tag, m)
  BY <1>1, <1>3, StatusTypes, AnswerStep
<1> HIDE DEF r
<1>6. Failing(r) /\ r.in.status = "failed"
  BY <1>4, PacketKinds DEF Failing
<1> QED
  BY <1>1, <1>2, <1>4, <1>5, <1>6 DEF SameLine, SameElse, Explained, ReasonToTell, r, e

\* The blocks have arrived: the next ones follow, or the status.
LEMMA BlocksTaken ==
  ASSUME NEW d \in Devices, NEW c \in Commands, NEW t, NEW m, NEW q \in 1 .. c.n,
         Len(m) \in Nat, Reads(d, c, t, m), Carries(d, c, m, q), NEW m2, Len(m2) = Len(m) + q,
         NEW ready \in BOOLEAN, NEW media \in BOOLEAN
  PROVE  LET r == USBD_MSC_DataIn(d, ready, media)
         IN /\ r \in Devices /\ r.bot_status = d.bot_status /\ ~r.inStall /\ Explained(d, r)
            /\ IF Len(m2) = c.n THEN Answers(r, c, t, m2)
               ELSE IF media THEN Reads(r, c, t, m2)
               ELSE Answers(r, c, t, m2) /\ d.bot_state = "DATA_IN"
<1> DEFINE r == USBD_MSC_DataIn(d, ready, media)
           l == Len(m2)
           taken == [ d EXCEPT !.in = Nothing ]
<1>1. /\ c.n \in Nat \ {0} /\ c.len \in Nat /\ MovesBlocks(c) /\ c.len = c.n * BlockSize
      /\ BlockSize \in Nat \ {0}
  BY CommandCases, MscAssumption DEF Reads, MovesBlocks
<1>2. l \in Nat /\ l <= c.n
  BY <1>1 DEF Carries
<1>3. BytesOf(c, m2) = l * BlockSize /\ c.len - BytesOf(c, m2) = (c.n - l) * BlockSize
  BY <1>1, <1>2 DEF BytesOf
<1>4. /\ taken \in Devices /\ SameElse(d, taken) /\ Serves(taken, c, t) /\ taken.out = "off"
      /\ Unstalled(taken) /\ taken.bot_state = d.bot_state /\ taken.residue = d.residue
      /\ taken.scsi_blk_len = d.scsi_blk_len /\ taken.scsi_blk_addr = d.scsi_blk_addr
  BY PacketTypes DEF Devices, SameElse, Reads, Serves, Unstalled
<1>5. /\ d.residue = (c.n - l) * BlockSize /\ d.scsi_blk_len = d.residue
      /\ d.bot_state = IF l = c.n THEN "LAST_DATA_IN" ELSE "DATA_IN"
      /\ Fits /\ l < c.n => d.scsi_blk_addr = (c.lba + l) * BlockSize
  <2>1. c.lba \in Nat /\ c.lba + Len(m) + q = c.lba + l
    BY CommandCases, MscAssumption
  <2> QED
    BY <1>1, <2>1 DEF Carries
<1> HIDE DEF l, taken, r
<1>6. CASE l = c.n
  <2>1. r = BOT_SendCSW(taken, "passed")
    BY <1>5, <1>6 DEF USBD_MSC_DataIn, r, taken
  <2>2. BytesOf(c, m2) = c.len /\ ~taken.outStall /\ taken.residue = c.len - BytesOf(c, m2) /\ taken.tag = t
    BY <1>1, <1>3, <1>4, <1>5, <1>6 DEF Unstalled, Serves
  <2>3. r \in Devices /\ SameElse(taken, r) /\ ~r.inStall /\ r.in = Csw(t, taken.residue, "passed")
    BY <1>4, <2>1, <2>2, StatusTypes, CswStep DEF Unstalled
  <2>4. Answers(r, c, t, m2)
    BY <1>4, <2>1, <2>2, StatusTypes, AnswerStep
  <2>5. Explained(d, r)
    BY <1>4, <2>3, PacketKinds DEF Explained, Failing, NothingToTell, SameElse
  <2> QED
    BY <1>4, <1>6, <2>3, <2>4, <2>5 DEF SameElse, r, l
<1>7. CASE l # c.n
  <2>1. l < c.n /\ d.bot_state = "DATA_IN" /\ c.op = "READ10" /\ taken.cbw = c
    BY <1>1, <1>2, <1>4, <1>5, <1>7 DEF Reads, Serves
  <2> DEFINE done == SCSI_ProcessRead(taken, media)
  <2>2. r = IF done.ok THEN done.dev ELSE BOT_SendCSW(done.dev, "failed")
    <3>1. SCSI_ProcessCmd(taken, ready, media) = done
      BY <1>4, <2>1 DEF SCSI_ProcessCmd, SCSI_Read10
    <3> QED
      BY <2>1, <3>1 DEF USBD_MSC_DataIn, r, taken
  <2>3. CASE media
    <3>1. c.op = "READ10" /\ c.len = c.n * BlockSize /\ (Fits => c.lba + c.n <= Blocks)
      BY DEF Reads
    <3>2. ReadPending(taken, c, t, l)
      BY <1>4, <1>5, <2>1, <3>1 DEF ReadPending
    <3>3. done.ok /\ done.dev \in Devices /\ SameElse(taken, done.dev) /\ Reads(done.dev, c, t, m2)
      BY <1>2, <1>4, <2>3, <3>2, ReadStep DEF l
    <3>4. r = done.dev
      BY <2>2, <3>3
    <3>5. ~Failing(r) /\ ~r.inStall
      BY <3>3, <3>4, PacketKinds DEF Failing, Reads, Carries, Unstalled
    <3> HIDE DEF done
    <3>6. r \in Devices /\ SameElse(d, r) /\ Reads(r, c, t, m2)
      BY <1>4, <3>3, <3>4 DEF SameElse
    <3> QED
      BY <1>7, <2>3, <3>5, <3>6 DEF SameElse, Explained, NothingToTell, r, l
  <2>4. CASE ~media
    <3>1. done = FailsWith(taken, "UNRECOVERED_READ_ERROR") /\ ~done.ok
      BY <2>4 DEF SCSI_ProcessRead, FailsWith, Fails
    <3>2. r = BOT_SendCSW(FailsWith(taken, "UNRECOVERED_READ_ERROR").dev, "failed")
      BY <2>2, <3>1
    <3>3. taken.residue = c.len - BytesOf(c, m2) /\ taken.tag = t
      BY <1>3, <1>4, <1>5 DEF Serves
    <3>4. "UNRECOVERED_READ_ERROR" \in SenseCodes
      BY DEF SenseCodes
    <3>5. /\ r \in Devices /\ r.bot_status = taken.bot_status /\ ~r.inStall
          /\ Answers(r, c, t, m2) /\ Explained(taken, r)
      BY <1>4, <3>2, <3>3, <3>4, CutOff
    <3> QED
      BY <1>4, <1>7, <2>1, <2>4, <3>5 DEF SameElse, Explained, NothingToTell, r, l
  <2> QED
    BY <2>3, <2>4
<1> QED
  BY <1>6, <1>7

-----------------------------------------------------------------------------
(* What it does with data from the host. *)

\* The card has taken q blocks, or the transfer ends with a failure.
Accepts(d, r, c, t, m, media, q) ==
  /\ q = AtMost(d.scsi_blk_len, MSC_MEDIA_PACKET) \div BlockSize
  /\ q * BlockSize <= MSC_MEDIA_PACKET /\ Len(m) + q <= c.n
  /\ Fits => d.scsi_blk_addr \div BlockSize = c.lba + Len(m)
  /\ r \in Devices /\ r.bot_status = d.bot_status /\ ~r.inStall /\ Explained(d, r)
  /\ ~media => Answers(r, c, t, m)
  /\ media => \A m2 : Len(m2) = Len(m) + q =>
       IF Len(m2) = c.n THEN Answers(r, c, t, m2) ELSE Writes(r, c, t, m2)

LEMMA DataTaken ==
  ASSUME NEW d \in Devices, NEW c \in Commands, NEW t, NEW m, Len(m) \in Nat,
         Writes(d, c, t, m), NEW ready \in BOOLEAN, NEW media \in BOOLEAN
  PROVE  \E q \in Nat \ {0} : Accepts(d, DataOut(d, ready, media), c, t, m, media, q)
<1> DEFINE off == [ d EXCEPT !.out = "off" ]
           done == SCSI_ProcessWrite(off, media)
           r == DataOut(d, ready, media)
<1>1. /\ off \in Devices /\ SameElse(d, off) /\ Serves(off, c, t) /\ off.bot_state = "DATA_OUT"
      /\ Unstalled(off) /\ off.residue = d.residue
      /\ off.scsi_blk_len = d.scsi_blk_len /\ off.scsi_blk_addr = d.scsi_blk_addr
      /\ [ off EXCEPT !.out = "data" ] = d
  BY DEF Devices, SameElse, Writes, Serves, Unstalled
<1>2. c.op = "WRITE10" /\ c.dir = "out"
  BY CommandCases DEF Writes, MovesBlocks
<1>3. r = IF done.ok THEN done.dev ELSE BOT_SendCSW(done.dev, "failed")
  <2>1. SCSI_ProcessCmd(off, ready, media) = done
    BY <1>1, <1>2 DEF SCSI_ProcessCmd, SCSI_Write10, Serves
  <2> QED
    BY <2>1 DEF DataOut
<1> HIDE DEF off, r
<1>4. PICK q \in Nat \ {0} : Stores(off, SCSI_ProcessWrite(off, TRUE), c, t, m, q)
  <2>1. Writes([ off EXCEPT !.out = "data" ], c, t, m) /\ off \in Devices
    BY <1>1
  <2> QED
    BY <2>1, WriteStep
<1>5. /\ q = AtMost(off.scsi_blk_len, MSC_MEDIA_PACKET) \div BlockSize
      /\ q * BlockSize <= MSC_MEDIA_PACKET /\ Len(m) + q <= c.n
      /\ Fits => off.scsi_blk_addr \div BlockSize = c.lba + Len(m)
  BY <1>4 DEF Stores
<1>6. CASE media
  <2>1. done = SCSI_ProcessWrite(off, TRUE)
    BY <1>6
  <2>2. r = done.dev /\ r \in Devices /\ SameElse(off, r) /\ ~r.inStall
    BY <1>3, <1>4, <2>1 DEF Stores
  <2>3. \A m2 : Len(m2) = Len(m) + q =>
          IF Len(m2) = c.n THEN Answers(r, c, t, m2) /\ r.in.status = "passed" ELSE Writes(r, c, t, m2)
    BY <1>4, <2>1, <2>2 DEF Stores
  <2>4. ~Failing(r)
    <3>1. PICK m2 : Len(m2) = Len(m) + q
      <4> DEFINE m2 == [ k \in 1 .. Len(m) + q |-> 0 ]
      <4>1. Len(m2) = Len(m) + q
        OBVIOUS
      <4> QED
        BY <4>1
    <3> QED
      BY <2>2, <2>3, <3>1, PacketKinds DEF Failing, Writes
  <2>5. SameElse(d, r) /\ Explained(d, r)
    BY <1>1, <2>2, <2>4 DEF SameElse, Explained, NothingToTell
  <2> QED
    BY <1>1, <1>5, <1>6, <2>2, <2>3, <2>5 DEF SameElse, Accepts, r
<1>7. CASE ~media
  <2>1. done = FailsWith(off, "WRITE_FAULT") /\ ~done.ok
    BY <1>7 DEF SCSI_ProcessWrite, FailsWith, Fails
  <2>2. r = BOT_SendCSW(FailsWith(off, "WRITE_FAULT").dev, "failed")
    BY <1>3, <2>1
  <2>3. off.residue = c.len - BytesOf(c, m) /\ off.tag = t
    <3>1. c.n \in Nat /\ BlockSize \in Nat /\ Len(m) < c.n /\ c.len = c.n * BlockSize
      BY CommandCases, MscAssumption DEF Writes
    <3>2. BytesOf(c, m) = Len(m) * BlockSize
      BY <1>2 DEF BytesOf, MovesBlocks
    <3>3. off.residue = (c.n - Len(m)) * BlockSize /\ off.tag = t
      BY <1>1 DEF Writes, Serves
    <3> QED
      BY <3>1, <3>2, <3>3
  <2>4. "WRITE_FAULT" \in SenseCodes
    BY DEF SenseCodes
  <2>5. /\ r \in Devices /\ r.bot_status = off.bot_status /\ ~r.inStall
        /\ Answers(r, c, t, m) /\ Explained(off, r)
    BY <1>1, <2>2, <2>3, <2>4, CutOff
  <2>6. r.bot_status = d.bot_status /\ Explained(d, r)
    BY <1>1, <2>5 DEF SameElse, Explained, NothingToTell
  <2> QED
    BY <1>1, <1>5, <1>7, <2>5, <2>6 DEF Accepts, r
<1> QED
  BY <1>6, <1>7

\* Data where a command is expected: the endpoint to the host is stalled until a reset.
LEMMA AstrayTaken ==
  ASSUME NEW d \in Devices, NEW c, NEW t, NEW m, Answers(d, c, t, m),
         NEW ready \in BOOLEAN, NEW media \in BOOLEAN
  PROVE  LET r == DataAstray(d, ready, media)
         IN r \in Devices /\ Answers(r, c, t, m) /\ r.inStall /\ r.bot_status = "ERROR"
<1> DEFINE ring == [ k \in DOMAIN d.sense |-> "stray" ]
           off == [ d EXCEPT !.out = "off", !.sense = ring ]
           got == [ off EXCEPT !.cbw = Stray, !.tag = StrayTag, !.residue = Stray.len ]
           told == SCSI_SenseCode(got, "INVALID_CDB")
           bad == [ told EXCEPT !.bot_status = "ERROR" ]
           r == DataAstray(d, ready, media)
<1>1. r = BOT_Abort(bad)
  BY DEF DataAstray, BOT_CBW_Decode
<1>2. ring \in Rings
  <2>1. d.sense \in Seq(SenseCodes \cup { "stray" }) /\ Len(d.sense) < SENSE_LIST_DEPTH
    BY DEF Devices, Rings
  <2>2. DOMAIN d.sense = 1 .. Len(d.sense) /\ Len(d.sense) \in Nat
    BY <2>1
  <2>3. ring \in Seq(SenseCodes \cup { "stray" }) /\ Len(ring) = Len(d.sense)
    BY <2>2
  <2> QED
    BY <2>1, <2>3 DEF Rings
<1> HIDE DEF ring
<1>3. off \in Devices
  BY <1>2 DEF Devices
<1>4. got \in Devices
  BY <1>3 DEF Devices, Stray, Command
<1>5. got.bot_state = "IDLE" /\ ~got.outStall /\ got.in = d.in
  BY DEF Devices, Answers
<1> HIDE DEF off, got
<1>6. "INVALID_CDB" \in SenseCodes
  BY DEF SenseCodes
<1>7. told \in Devices /\ told = [ got EXCEPT !.sense = told.sense, !.why = "INVALID_CDB" ]
  BY <1>4, <1>6, SenseCodeEffect
<1> HIDE DEF told
<1>8. told.bot_state = "IDLE" /\ ~told.outStall /\ told.in = d.in
  BY <1>4, <1>5, <1>7 DEF Devices
<1>9. /\ bad \in Devices /\ bad.bot_state = "IDLE" /\ ~bad.outStall /\ bad.in = d.in
      /\ bad.bot_status = "ERROR"
  BY <1>7, <1>8 DEF Devices
<1> HIDE DEF bad, r
<1>10. /\ r \in Devices /\ r.bot_state = "IDLE" /\ ~r.outStall /\ r.in = d.in
       /\ r.bot_status = "ERROR" /\ r.inStall /\ r.out = "cbw"
  BY <1>1, <1>9 DEF Devices, BOT_Abort
<1>11. Answers(r, c, t, m)
  BY <1>10 DEF Answers
<1> QED
  BY <1>10, <1>11 DEF r

-----------------------------------------------------------------------------
(* What it does when the host clears a stall. *)

LEMMA InCleared ==
  ASSUME NEW d \in Devices
  PROVE  LET r == ClearFeature(d, "in")
         IN /\ r \in Devices /\ r.sense = d.sense /\ r.why = d.why /\ (r.outStall <=> d.outStall)
            /\ d.bot_status = "ERROR" =>
                 /\ r.bot_status = "NORMAL" /\ r.in = Nothing /\ r.inStall
                 /\ r.bot_state = d.bot_state /\ r.out = d.out
            /\ d.bot_status = "RECOVERY" =>
                 /\ r.bot_status = "RECOVERY" /\ r.in = Nothing /\ ~r.inStall
                 /\ r.bot_state = d.bot_state /\ r.out = d.out
            /\ d.bot_status = "NORMAL" =>
                 /\ r.bot_status = "NORMAL" /\ ~r.inStall
                 /\ ~d.outStall => \A c, m : d.residue = c.len - BytesOf(c, m) => Answers(r, c, d.tag, m)
                 /\ r.in.kind = "csw" /\ r.in.status = "failed"
<1> DEFINE e == [ d EXCEPT !.inStall = FALSE, !.in = Nothing ]
           r == ClearFeature(d, "in")
<1>1. r = IF d.bot_status = "ERROR" THEN [ e EXCEPT !.inStall = TRUE, !.bot_status = "NORMAL" ]
          ELSE IF d.bot_status # "RECOVERY" THEN BOT_SendCSW(e, "failed")
          ELSE e
  BY DEF ClearFeature, BOT_CplClrFeature, Devices
<1>2. /\ e \in Devices /\ SameElse(d, e) /\ ~e.inStall /\ (e.outStall <=> d.outStall)
      /\ e.in = Nothing /\ e.bot_state = d.bot_state /\ e.out = d.out /\ e.tag = d.tag
      /\ e.residue = d.residue
  BY PacketTypes DEF Devices, SameElse
<1> HIDE DEF e, r
<1>3. CASE d.bot_status = "ERROR"
  <2>1. r = [ e EXCEPT !.inStall = TRUE, !.bot_status = "NORMAL" ]
    BY <1>1, <1>3
  <2>2. /\ r \in Devices /\ r.sense = e.sense /\ r.why = e.why /\ (r.outStall <=> e.outStall)
        /\ r.bot_status = "NORMAL" /\ r.in = e.in /\ r.inStall
        /\ r.bot_state = e.bot_state /\ r.out = e.out
    BY <1>2, <2>1 DEF Devices
  <2> QED
    BY <1>2, <1>3, <2>2 DEF SameElse, r
<1>4. CASE d.bot_status = "RECOVERY"
  BY <1>1, <1>2, <1>4 DEF SameElse, r
<1>5. CASE d.bot_status = "NORMAL"
  <2>1. r = BOT_SendCSW(e, "failed")
    BY <1>1, <1>5
  <2>2. /\ r \in Devices /\ SameElse(e, r) /\ ~r.inStall /\ (r.outStall <=> d.outStall)
        /\ r.in = Csw(e.tag, e.residue, "failed")
    BY <1>2, <2>1, StatusTypes, CswStep
  <2>3. ASSUME ~d.outStall, NEW c, NEW m, d.residue = c.len - BytesOf(c, m)
        PROVE  Answers(r, c, d.tag, m)
    BY <1>2, <2>1, <2>3, StatusTypes, AnswerStep
  <2> QED
    BY <1>2, <1>5, <2>2, <2>3, PacketKinds DEF SameElse, r
<1> QED
  BY <1>3, <1>4, <1>5 DEF Devices

LEMMA OutCleared ==
  ASSUME NEW d \in Devices, d.bot_status # "ERROR"
  PROVE  ClearFeature(d, "out") = [ d EXCEPT !.outStall = FALSE ]
BY DEF ClearFeature, BOT_CplClrFeature, Devices

-----------------------------------------------------------------------------
(* What has moved. *)

\* q blocks of the card, from the first on, at their places in the transfer, after l.
Placed(first, l, q) == [ k \in 1 .. q |-> << first + k - 1, l + k >> ]

\* What a packet holds, at its places.
Numbered(content, l) == [ k \in DOMAIN content |-> << content[k], l + k >> ]

LEMMA PlacedTypes ==
  ASSUME NEW first \in Nat, NEW l \in Nat, NEW q \in Nat
  PROVE  /\ Placed(first, l, q) \in Seq(Moves) /\ Len(Placed(first, l, q)) = q
         /\ \A k \in 1 .. q : Placed(first, l, q)[k] = << first + k - 1, l + k >>
         /\ Run(first, q) \in Seq(Nat) /\ Len(Run(first, q)) = q
         /\ Numbered(Run(first, q), l) = Placed(first, l, q)
<1>1. \A k \in 1 .. q : first + k - 1 \in Nat /\ l + k \in Nat
  OBVIOUS
<1>2. \A k \in 1 .. q : << first + k - 1, l + k >> \in Moves
  BY <1>1 DEF Moves
<1>3. /\ Placed(first, l, q) \in Seq(Moves) /\ Len(Placed(first, l, q)) = q
      /\ \A k \in 1 .. q : Placed(first, l, q)[k] = << first + k - 1, l + k >>
  BY <1>2 DEF Placed
<1>4. /\ Run(first, q) \in Seq(Nat) /\ Len(Run(first, q)) = q /\ DOMAIN Run(first, q) = 1 .. q
      /\ \A k \in 1 .. q : Run(first, q)[k] = first + k - 1
  BY <1>1 DEF Run
<1> QED
  BY <1>3, <1>4 DEF Placed, Numbered

\* What moves next comes after what has moved.
LEMMA Grown ==
  ASSUME NEW m \in Seq(Moves), NEW x \in Seq(Moves), Len(x) # 0
  PROVE  /\ m \o x \in Seq(Moves) /\ Len(m \o x) = Len(m) + Len(x) /\ m \o x # m
         /\ SubSeq(m \o x, 1, Len(m)) = m
<1>1. m \o x \in Seq(Moves) /\ Len(m \o x) = Len(m) + Len(x) /\ Len(m) \in Nat /\ Len(x) \in Nat
  OBVIOUS
<1>2. m \o x # m
  BY <1>1
<1>3. SubSeq(m \o x, 1, Len(m)) = m
  <2>1. \A k \in 1 .. Len(m) : (m \o x)[k] = m[k]
    OBVIOUS
  <2>2. /\ SubSeq(m \o x, 1, Len(m)) \in Seq(Moves) /\ Len(SubSeq(m \o x, 1, Len(m))) = Len(m)
        /\ \A k \in 1 .. Len(m) : SubSeq(m \o x, 1, Len(m))[k] = (m \o x)[k]
    BY <1>1
  <2> QED
    BY <1>1, <2>1, <2>2, SeqEqual
<1> QED
  BY <1>1, <1>2, <1>3

LEMMA StayInPlace ==
  ASSUME NEW m \in Seq(Moves), NEW lba \in Nat, NEW q \in Nat,
         \A k \in DOMAIN m : m[k] = << lba + k - 1, k >>
  PROVE  LET m2 == m \o Placed(lba + Len(m), Len(m), q)
         IN \A k \in DOMAIN m2 : m2[k] = << lba + k - 1, k >>
<1> DEFINE x == Placed(lba + Len(m), Len(m), q)
           m2 == m \o x
<1>1. Len(m) \in Nat /\ DOMAIN m = 1 .. Len(m) /\ lba + Len(m) \in Nat
  OBVIOUS
<1>2. /\ x \in Seq(Moves) /\ Len(x) = q
      /\ \A k \in 1 .. q : x[k] = << lba + Len(m) + k - 1, Len(m) + k >>
  BY <1>1, PlacedTypes
<1> HIDE DEF x
<1>3. /\ DOMAIN m2 = 1 .. Len(m) + q
      /\ \A k \in 1 .. Len(m) + q : m2[k] = IF k <= Len(m) THEN m[k] ELSE x[k - Len(m)]
  <2>1. m2 \in Seq(Moves) /\ Len(m2) = Len(m) + q
    BY <1>2, ConcatProperties
  <2>2. \A k \in 1 .. Len(m) + Len(x) : m2[k] = IF k <= Len(m) THEN m[k] ELSE x[k - Len(m)]
    BY <1>2, ConcatProperties
  <2> QED
    BY <1>2, <2>1, <2>2
<1>4. ASSUME NEW k \in 1 .. Len(m) + q, ~(k <= Len(m)) PROVE m2[k] = << lba + k - 1, k >>
  <2>1. k - Len(m) \in 1 .. q /\ m2[k] = x[k - Len(m)]
    BY <1>1, <1>3, <1>4
  <2>2. lba + Len(m) + (k - Len(m)) - 1 = lba + k - 1 /\ Len(m) + (k - Len(m)) = k
    BY <1>1
  <2> QED
    BY <1>2, <2>1, <2>2
<1>5. ASSUME NEW k \in 1 .. Len(m) + q, k <= Len(m) PROVE m2[k] = << lba + k - 1, k >>
  BY <1>1, <1>3, <1>5
<1> QED
  BY <1>3, <1>4, <1>5 DEF x

-----------------------------------------------------------------------------
(* Every action keeps the invariant. *)

LEMMA IssueKeeps ==
  ASSUME MscInv, Issue
  PROVE  MscInv' /\ Taken(dev, dev', cmd'.command, cmd'.tag)
<1>1. PICK c \in Commands, ready \in BOOLEAN, media \in BOOLEAN :
        /\ MayIssue(c)
        /\ cmd' = [ command |-> c, tag |-> 1 - cmd.tag ]
        /\ phase' = IF c.len = 0 THEN "status" ELSE "data"
        /\ dev' = CommandOut(dev, c, 1 - cmd.tag, ready, media)
  BY DEF Issue
<1>2. phase = "idle" /\ moved' = << >> /\ sent' = 0 /\ reply' = NoReply /\ disturbed' = disturbed
  BY DEF Issue
<1> DEFINE t == 1 - cmd.tag
<1>3. t \in Tags
  BY DEF MscInv, HostTypes, Tags
<1>4. dev \in Devices /\ Waits(dev) /\ dev.bot_status # "ERROR"
  BY <1>2 DEF MscInv, PhaseInv, Astray
<1>5. MovesBlocks(c) => dev.scsi_blk_nbr = Blocks
  BY <1>1, <1>4 DEF MayIssue, MovesBlocks, Devices
<1> HIDE DEF t
<1>6. Taken(dev, dev', c, t)
  BY <1>1, <1>3, <1>4, <1>5, DecodeStep DEF t
<1>7. cmd'.command = c /\ cmd'.tag = t
  BY <1>1 DEF t
<1>8. /\ dev' \in Devices /\ dev'.bot_status = dev.bot_status
      /\ c.dir \in { "in", "out" } /\ c.len \in Nat
  BY <1>6, CommandCases DEF Taken
<1>9. HostTypes'
  BY <1>1, <1>2, <1>3, <1>7, <1>8 DEF MscInv, HostTypes, Phases, NoReply, t
<1>10. disturbed \/ dev'.bot_status = "NORMAL"
  BY <1>8 DEF MscInv, PhaseInv
<1>11. PhaseInv'
  <2>1. CASE c.len = 0
    <3>1. phase' = "status"
      BY <1>1, <2>1
    <3>2. \/ Answers(dev', c, t, << >>) /\ ~dev'.inStall
          \/ Aborts(dev', c, t, << >>) /\ ~dev'.outStall
      BY <1>6, <2>1, CommandCases DEF Taken, Tells, Reads, Writes, MovesBlocks
    <3> QED
      BY <1>2, <1>4, <1>7, <1>8, <1>10, <3>1, <3>2
         DEF PhaseInv, StatusInv, Answering, Aborting, Astray, Receiving, Sending
  <2>2. CASE c.len # 0 /\ c.dir = "in"
    <3>1. phase' = "data"
      BY <1>1, <2>2
    <3>2. \/ Tells(dev', c, t, << >>) \/ Reads(dev', c, t, << >>)
          \/ Aborts(dev', c, t, << >>) /\ ~dev'.outStall
      BY <1>6, <2>2, CommandCases DEF Taken, Writes, MovesBlocks
    <3> QED
      BY <1>2, <1>4, <1>7, <1>8, <1>10, <2>2, <3>1, <3>2
         DEF PhaseInv, ReceivingInv, Telling, Reading, Aborting, Astray, Receiving, Sending
  <2>3. CASE c.len # 0 /\ c.dir = "out"
    <3>1. phase' = "data"
      BY <1>1, <2>3
    <3>2. \/ Writes(dev', c, t, << >>)
          \/ Aborts(dev', c, t, << >>) /\ (disturbed \/ dev'.outStall)
      BY <1>6, <1>10, <2>3, CommandCases DEF Taken, Tells, Reads, MovesBlocks
    <3> QED
      BY <1>2, <1>4, <1>7, <1>8, <1>10, <2>3, <3>1, <3>2
         DEF PhaseInv, SendingInv, Writing, Aborting, Astray, Receiving, Sending
  <2> QED
    BY <1>8, <2>1, <2>2, <2>3
<1>12. SenseInv'
  <2>1. SUFFICES ASSUME ~disturbed
                 PROVE  IF Failing(dev') THEN ReasonToTell(dev') ELSE NothingToTell(dev')
    BY <1>1, <1>2 DEF SenseInv
  <2>2. Accounts(dev, dev', c)
    BY <1>6 DEF Taken
  <2>3. IF reply.status = "failed" THEN ReasonToTell(dev) ELSE NothingToTell(dev)
    BY <1>2, <2>1 DEF MscInv, SenseInv
  <2> QED
    BY <1>1, <2>2, <2>3 DEF Accounts, Explained, MayIssue
<1>13. PlacesInv'
  BY <1>2 DEF PlacesInv
<1> QED
  BY <1>6, <1>7, <1>8, <1>9, <1>11, <1>12, <1>13 DEF MscInv

\* More has moved, no more than a packet, and no more than the command has.
Advances ==
  /\ moved' # moved /\ SubSeq(moved', 1, Len(moved)) = moved
  /\ BytesOf(cmd.command, moved') <= cmd.command.len
  /\ BytesOf(cmd.command, moved') <= BytesOf(cmd.command, moved) + MSC_MEDIA_PACKET

\* q more blocks of a command for n of them.
LEMMA AdvanceOfBlocks ==
  ASSUME NEW c \in Commands, MovesBlocks(c), c.len = c.n * BlockSize,
         NEW m \in Seq(Moves), NEW x \in Seq(Moves), Len(x) # 0,
         Len(x) * BlockSize <= MSC_MEDIA_PACKET, Len(m) + Len(x) <= c.n
  PROVE  /\ BytesOf(c, m \o x) <= c.len
         /\ BytesOf(c, m \o x) <= BytesOf(c, m) + MSC_MEDIA_PACKET
         /\ ((Len(m) + Len(x)) * BlockSize = c.len) <=> (Len(m) + Len(x) = c.n)
<1>1. Len(m) \in Nat /\ Len(x) \in Nat /\ c.n \in Nat /\ BlockSize \in Nat \ {0} /\ MSC_MEDIA_PACKET \in Nat
  BY CommandCases, MscAssumption
<1>2. BytesOf(c, m \o x) = (Len(m) + Len(x)) * BlockSize /\ BytesOf(c, m) = Len(m) * BlockSize
  BY Grown DEF BytesOf
<1>3. (Len(m) + Len(x)) * BlockSize <= c.n * BlockSize
  BY <1>1, TimesMonotone
<1>4. (Len(m) + Len(x)) * BlockSize = Len(m) * BlockSize + Len(x) * BlockSize
  BY <1>1
<1>5. Len(m) * BlockSize \in Nat /\ Len(x) * BlockSize \in Nat
  BY <1>1
<1>6. (Len(m) + Len(x)) * BlockSize = c.n * BlockSize <=> Len(m) + Len(x) = c.n
  BY <1>1
<1> QED
  BY <1>1, <1>2, <1>3, <1>4, <1>5, <1>6

LEMMA ReceiveDataKeeps ==
  ASSUME MscInv, ReceiveData
  PROVE  MscInv' /\ Advances
<1> DEFINE c == cmd.command
           t == cmd.tag
           content == dev.in.content
           more == Numbered(content, Len(moved))
<1>1. PICK ready \in BOOLEAN, media \in BOOLEAN :
        /\ dev' = USBD_MSC_DataIn(dev, ready, media)
        /\ disturbed' = (disturbed \/ CutShort(media))
  BY DEF ReceiveData
<1>2. /\ phase = "data" /\ c.dir = "in" /\ ~dev.inStall /\ dev.in.kind = "data"
      /\ moved' = moved \o more
      /\ phase' = IF content = << >> \/ ~MovesBlocks(c) \/ Complete(Len(moved')) THEN "status" ELSE "data"
      /\ cmd' = cmd /\ sent' = sent /\ reply' = reply
  BY DEF ReceiveData, Receiving, Numbered
<1>3. /\ dev \in Devices /\ c \in Commands /\ t \in Tags /\ moved \in Seq(Moves)
      /\ Len(moved) \in Nat /\ disturbed \in BOOLEAN
  BY <1>2 DEF MscInv, HostTypes, Busy
<1>4. Tells(dev, c, t, moved) \/ Reads(dev, c, t, moved)
  <2>1. ReceivingInv
    BY <1>2 DEF MscInv, PhaseInv, Receiving
  <2>2. ~Answering
    BY <1>2, PacketKinds DEF Answering, Answers
  <2>3. ~Aborting
    BY <1>2, PacketKinds DEF Aborting, Aborts
  <2> QED
    BY <2>1, <2>2, <2>3 DEF ReceivingInv, Telling, Reading
<1>5. ~Astray /\ ~Failing(dev) /\ (disturbed \/ dev.bot_status = "NORMAL")
  BY <1>2 DEF MscInv, PhaseInv, ReceivingInv, Receiving, Failing
<1>6. disturbed' \in BOOLEAN /\ (disturbed => disturbed')
  BY <1>1, <1>3 DEF CutShort
<1>7. ASSUME dev'.bot_status = dev.bot_status, Explained(dev, dev'), phase' \in { "status", "data" }
      PROVE  /\ ~Astray' /\ (disturbed' \/ dev'.bot_status = "NORMAL") /\ SenseInv'
  <2>1. ~disturbed => NothingToTell(dev)
    BY <1>2, <1>5 DEF MscInv, SenseInv, Busy
  <2> QED
    BY <1>5, <1>6, <1>7, <2>1 DEF Astray, SenseInv, Explained
<1> HIDE DEF content, more
<1>8. CASE Tells(dev, c, t, moved)
  <2>1. PICK code \in Replies : dev.in = Data(<< code >>)
    BY <1>8 DEF Tells
  <2>2. content = << code >> /\ moved = << >> /\ ~MovesBlocks(c) /\ c.len # 0 /\ c.len \in Nat
    BY <1>3, <1>8, <2>1, PacketKinds, CommandCases DEF Tells, content
  <2>3. more \in Seq(Moves) /\ Len(more) = 1
    <3>1. DOMAIN << code >> = 1 .. 1 /\ << code >>[1] = code /\ Len(moved) = 0
      BY <2>2
    <3>2. more = [ k \in 1 .. 1 |-> << code, k >> ]
      BY <2>2, <3>1 DEF more, Numbered
    <3>3. \A k \in 1 .. 1 : << code, k >> \in Moves
      BY DEF Moves
    <3> QED
      BY <3>2, <3>3
  <2>4. moved' \in Seq(Moves) /\ Len(moved') = 1 /\ moved' # moved /\ SubSeq(moved', 1, Len(moved)) = moved
    <3>1. Len(more) # 0 /\ Len(moved) = 0
      BY <2>2, <2>3
    <3>2. /\ moved' \in Seq(Moves) /\ Len(moved') = Len(moved) + Len(more) /\ moved' # moved
          /\ SubSeq(moved', 1, Len(moved)) = moved
      BY <1>2, <1>3, <2>3, <3>1, Grown
    <3> QED
      BY <2>3, <3>1, <3>2
  <2>5. phase' = "status"
    BY <1>2, <2>2
  <2>6. /\ dev' \in Devices /\ SameElse(dev, dev') /\ ~dev'.inStall
        /\ Answers(dev', c, t, moved') /\ dev'.in.status = "passed"
    BY <1>1, <1>3, <1>8, <2>4, ReplyTaken
  <2>7. Explained(dev, dev')
    BY <2>6 DEF Explained, Failing, NothingToTell, SameElse
  <2>8. ~Astray' /\ (disturbed' \/ dev'.bot_status = "NORMAL") /\ SenseInv'
    BY <1>7, <2>5, <2>6, <2>7 DEF SameElse
  <2>9. PhaseInv'
    BY <1>2, <2>5, <2>6, <2>8 DEF PhaseInv, StatusInv, Answering, Receiving, Sending
  <2>10. HostTypes'
    BY <1>2, <1>3, <1>6, <2>4, <2>5 DEF MscInv, HostTypes, Phases
  <2>11. PlacesInv'
    BY <1>2, <2>2 DEF PlacesInv
  <2>12. BytesOf(c, moved') = 1 /\ BytesOf(c, moved) = 0 /\ MSC_MEDIA_PACKET \in Nat \ {0}
    BY <2>2, <2>4, MscAssumption DEF BytesOf
  <2> QED
    BY <2>2, <2>4, <2>6, <2>8, <2>9, <2>10, <2>11, <2>12 DEF MscInv, Advances
<1>9. CASE Reads(dev, c, t, moved)
  <2>1. PICK q \in 1 .. c.n : Carries(dev, c, moved, q)
    BY <1>9 DEF Reads
  <2>2. PICK first \in Nat : dev.in = Data(Run(first, q)) /\ (Fits => first = c.lba + Len(moved))
    BY <2>1 DEF Carries
  <2>3. /\ q * BlockSize <= MSC_MEDIA_PACKET /\ Len(moved) + q <= c.n
        /\ q \in Nat \ {0} /\ c.n \in Nat /\ c.lba \in Nat /\ MovesBlocks(c) /\ c.len = c.n * BlockSize
    BY <1>3, <1>9, <2>1, CommandCases DEF Carries, Reads, MovesBlocks
  <2>4. content = Run(first, q)
    BY <2>2, PacketKinds DEF content
  <2>5. more = Placed(first, Len(moved), q) /\ more \in Seq(Moves) /\ Len(more) = q /\ content # << >>
    <3>1. Len(content) = q /\ content # << >>
      BY <1>3, <2>3, <2>4, PlacedTypes
    <3>2. more = Numbered(Run(first, q), Len(moved))
      BY <2>4 DEF more
    <3>3. Len(moved) \in Nat /\ q \in Nat
      BY <1>3, <2>3
    <3>4. /\ Placed(first, Len(moved), q) \in Seq(Moves) /\ Len(Placed(first, Len(moved), q)) = q
          /\ Numbered(Run(first, q), Len(moved)) = Placed(first, Len(moved), q)
      BY <3>3, PlacedTypes
    <3> QED
      BY <3>1, <3>2, <3>4
  <2>6. /\ moved' \in Seq(Moves) /\ Len(moved') = Len(moved) + q /\ moved' # moved
        /\ SubSeq(moved', 1, Len(moved)) = moved
    BY <1>2, <1>3, <2>3, <2>5, Grown
  <2>7. /\ BytesOf(c, moved') <= c.len
        /\ BytesOf(c, moved') <= BytesOf(c, moved) + MSC_MEDIA_PACKET
        /\ Len(moved') * BlockSize = c.len <=> Len(moved') = c.n
    <3>1. c \in Commands /\ moved \in Seq(Moves) /\ Len(more) # 0 /\ Len(more) * BlockSize <= MSC_MEDIA_PACKET
      BY <1>3, <2>3, <2>5
    <3>2. Len(moved) + Len(more) <= c.n
      BY <2>3, <2>5
    <3>3. /\ BytesOf(c, moved \o more) <= c.len
          /\ BytesOf(c, moved \o more) <= BytesOf(c, moved) + MSC_MEDIA_PACKET
          /\ (Len(moved) + Len(more)) * BlockSize = c.len <=> Len(moved) + Len(more) = c.n
      BY <2>3, <2>5, <3>1, <3>2, AdvanceOfBlocks
    <3> QED
      BY <1>2, <2>5, <2>6, <3>3
  <2>8. phase' = IF Len(moved') = c.n THEN "status" ELSE "data"
    BY <1>2, <2>3, <2>5, <2>7 DEF Complete
  <2>9. /\ dev' \in Devices /\ dev'.bot_status = dev.bot_status /\ ~dev'.inStall /\ Explained(dev, dev')
        /\ IF Len(moved') = c.n THEN Answers(dev', c, t, moved')
           ELSE IF media THEN Reads(dev', c, t, moved')
           ELSE Answers(dev', c, t, moved') /\ dev.bot_state = "DATA_IN"
    BY <1>1, <1>3, <1>9, <2>1, <2>6, BlocksTaken
  <2>10. ~Astray' /\ (disturbed' \/ dev'.bot_status = "NORMAL") /\ SenseInv'
    BY <1>7, <2>8, <2>9
  <2>11. PhaseInv'
    <3>1. CASE Len(moved') = c.n
      BY <1>2, <2>8, <2>9, <2>10, <3>1 DEF PhaseInv, StatusInv, Answering, Receiving, Sending
    <3>2. CASE Len(moved') # c.n /\ media
      BY <1>2, <2>8, <2>9, <2>10, <3>2 DEF PhaseInv, ReceivingInv, Reading, Receiving, Sending
    <3>3. CASE Len(moved') # c.n /\ ~media
      <4>1. disturbed'
        BY <1>1, <2>9, <3>3 DEF CutShort
      <4> QED
        BY <1>2, <2>8, <2>9, <2>10, <3>3, <4>1 DEF PhaseInv, ReceivingInv, Answering, Receiving, Sending
    <3> QED
      BY <3>1, <3>2, <3>3
  <2>12. HostTypes'
    BY <1>2, <1>3, <1>6, <2>6, <2>8 DEF MscInv, HostTypes, Phases
  <2>13. PlacesInv'
    <3>1. SUFFICES ASSUME Fits PROVE \A k \in DOMAIN moved' : moved'[k] = << c.lba + k - 1, k >>
      BY <1>2 DEF PlacesInv
    <3>2. \A k \in DOMAIN moved : moved[k] = << c.lba + k - 1, k >>
      BY <1>2, <2>3, <3>1 DEF MscInv, PlacesInv, Busy
    <3>3. moved' = moved \o Placed(c.lba + Len(moved), Len(moved), q)
      BY <1>2, <2>2, <2>5, <3>1
    <3> QED
      BY <1>3, <2>3, <3>2, <3>3, StayInPlace
  <2> QED
    BY <2>6, <2>7, <2>9, <2>10, <2>11, <2>12, <2>13 DEF MscInv, Advances
<1> QED
  BY <1>4, <1>8, <1>9

LEMMA ReceiveStatusAsDataKeeps ==
  ASSUME MscInv, ReceiveStatusAsData
  PROVE  MscInv'
<1>1. PICK ready \in BOOLEAN, media \in BOOLEAN : dev' = USBD_MSC_DataIn(dev, ready, media)
  BY DEF ReceiveStatusAsData
<1>2. /\ phase = "data" /\ cmd.command.dir = "in" /\ ~dev.inStall /\ dev.in.kind = "csw" /\ phase' = "status"
      /\ cmd' = cmd /\ moved' = moved /\ sent' = sent /\ reply' = reply /\ disturbed' = disturbed
  BY DEF ReceiveStatusAsData, Receiving
<1>3. dev \in Devices /\ ReceivingInv
  BY <1>2 DEF MscInv, PhaseInv, Receiving
<1>4. disturbed /\ Answers(dev, cmd.command, cmd.tag, moved)
  BY <1>2, <1>3, PacketKinds
     DEF ReceivingInv, Telling, Reading, Aborting, Answering, Tells, Reads, Carries, Aborts
<1>5. /\ dev' \in Devices /\ SameElse(dev, dev') /\ ~dev'.inStall /\ ~dev'.outStall
      /\ dev'.bot_state = "IDLE" /\ dev'.in = Nothing
  BY <1>1, <1>2, <1>3, <1>4, AnswerTaken
<1>6. ~Astray' /\ IsMute(dev')
  BY <1>3, <1>5 DEF ReceivingInv, Astray, SameElse, IsMute
<1>7. PhaseInv'
  BY <1>2, <1>4, <1>5, <1>6 DEF PhaseInv, StatusInv, Receiving, Sending
<1>8. HostTypes' /\ SenseInv' /\ PlacesInv'
  BY <1>2, <1>4 DEF MscInv, HostTypes, Phases, SenseInv, PlacesInv, Busy
<1> QED
  BY <1>5, <1>7, <1>8 DEF MscInv

LEMMA SendDataKeeps ==
  ASSUME MscInv, SendData
  PROVE  MscInv' /\ (Advances \/ moved' = moved)
<1> DEFINE c == cmd.command
           t == cmd.tag
           n == AtMost(dev.scsi_blk_len, MSC_MEDIA_PACKET) \div BlockSize
           first == dev.scsi_blk_addr \div BlockSize
<1>1. PICK ready \in BOOLEAN, media \in BOOLEAN :
        /\ sent' = sent + n
        /\ moved' = IF media THEN moved \o [ k \in 1 .. n |-> << first + k - 1, sent + k >> ] ELSE moved
        /\ dev' = DataOut(dev, ready, media)
        /\ disturbed' = (disturbed \/ CutShort(media))
  BY DEF SendData
<1>2. /\ phase = "data" /\ c.dir = "out" /\ ~dev.outStall /\ dev.out = "data"
      /\ phase' = IF Complete(sent') THEN "status" ELSE "data"
      /\ cmd' = cmd /\ reply' = reply
  BY DEF SendData, Sending
<1>3. /\ dev \in Devices /\ c \in Commands /\ t \in Tags /\ moved \in Seq(Moves)
      /\ Len(moved) \in Nat /\ disturbed \in BOOLEAN
  BY <1>2 DEF MscInv, HostTypes, Busy
<1>4. Writes(dev, c, t, moved) /\ sent = Len(moved) /\ ~Astray
  BY <1>2 DEF MscInv, PhaseInv, Sending, SendingInv, Writing, Aborting, Answering, Aborts, Answers
<1>5. PICK q \in Nat \ {0} : Accepts(dev, dev', c, t, moved, media, q)
  BY <1>1, <1>3, <1>4, DataTaken
<1>q. /\ q = n /\ q * BlockSize <= MSC_MEDIA_PACKET /\ Len(moved) + q <= c.n
      /\ Fits => first = c.lba + Len(moved)
      /\ dev' \in Devices /\ dev'.bot_status = dev.bot_status /\ ~dev'.inStall /\ Explained(dev, dev')
      /\ ~media => Answers(dev', c, t, moved)
      /\ media => \A m2 : Len(m2) = Len(moved) + q =>
           IF Len(m2) = c.n THEN Answers(dev', c, t, m2) ELSE Writes(dev', c, t, m2)
  BY <1>5 DEF Accepts
<1>6. /\ MovesBlocks(c) /\ c.len = c.n * BlockSize /\ Len(moved) < c.n /\ c.n \in Nat /\ c.lba \in Nat
      /\ dev.bot_state = "DATA_OUT" /\ dev.scsi_blk_len = (c.n - Len(moved)) * BlockSize
  BY <1>3, <1>4, CommandCases DEF Writes, MovesBlocks
<1>7. first \in Nat /\ n = q /\ sent' = Len(moved) + q
  <2>1. dev.scsi_blk_addr \in 0 .. Word - 1 /\ Word \in Nat /\ BlockSize \in Nat \ {0}
    BY <1>3, MscAssumption DEF Devices
  <2>2. first \in Nat
    BY <2>1
  <2> QED
    BY <1>1, <1>4, <1>q, <2>2
<1>8. BlockSize \in Nat \ {0} /\ MSC_MEDIA_PACKET \in Nat \ {0}
  BY MscAssumption
<1> HIDE DEF first
<1>9. (Len(moved) + q) * BlockSize = c.len <=> Len(moved) + q = c.n
  <2>1. Len(moved) + q \in Nat /\ c.n \in Nat /\ BlockSize \in Nat \ {0}
    BY <1>3, <1>6, <1>8
  <2>2. (Len(moved) + q) * BlockSize = c.n * BlockSize <=> Len(moved) + q = c.n
    BY <2>1, TimesCancel
  <2> QED
    BY <1>6, <2>2
<1>10. phase' = IF Len(moved) + q = c.n THEN "status" ELSE "data"
  BY <1>2, <1>6, <1>7, <1>9 DEF Complete
<1>11. ~Astray' /\ disturbed' \in BOOLEAN /\ (disturbed => disturbed')
       /\ (disturbed' \/ dev'.bot_status = "NORMAL")
  <2>1. disturbed \/ dev.bot_status = "NORMAL"
    BY DEF MscInv, PhaseInv
  <2> QED
    BY <1>1, <1>3, <1>4, <1>q, <2>1 DEF Astray, CutShort
<1>12. SenseInv'
  <2>1. ~Failing(dev)
    BY <1>4, PacketKinds DEF Failing, Writes, Unstalled
  <2>2. ~disturbed => NothingToTell(dev)
    BY <1>2, <2>1 DEF MscInv, SenseInv, Busy
  <2> QED
    BY <1>q, <1>10, <1>11, <2>2 DEF SenseInv, Explained
<1>13. CASE media
  <2>1. /\ moved' = moved \o Placed(first, Len(moved), q)
        /\ Placed(first, Len(moved), q) \in Seq(Moves) /\ Len(Placed(first, Len(moved), q)) = q
    <3>1. /\ Placed(first, Len(moved), q) \in Seq(Moves) /\ Len(Placed(first, Len(moved), q)) = q
      BY <1>3, <1>7, PlacedTypes
    <3>2. moved' = moved \o [ k \in 1 .. q |-> << first + k - 1, Len(moved) + k >> ]
      BY <1>1, <1>4, <1>7, <1>13 DEF first
    <3> QED
      BY <3>1, <3>2 DEF Placed
  <2>2. /\ moved' \in Seq(Moves) /\ Len(moved') = Len(moved) + q /\ moved' # moved
        /\ SubSeq(moved', 1, Len(moved)) = moved
    <3> DEFINE x == Placed(first, Len(moved), q)
    <3>1. x \in Seq(Moves) /\ Len(x) = q /\ Len(x) # 0 /\ moved' = moved \o x
      BY <2>1
    <3> HIDE DEF x
    <3>2. /\ moved \o x \in Seq(Moves) /\ Len(moved \o x) = Len(moved) + Len(x) /\ moved \o x # moved
          /\ SubSeq(moved \o x, 1, Len(moved)) = moved
      BY <1>3, <3>1, Grown
    <3> QED
      BY <3>1, <3>2
  <2>3. /\ BytesOf(c, moved') <= c.len
        /\ BytesOf(c, moved') <= BytesOf(c, moved) + MSC_MEDIA_PACKET
    <3> DEFINE x == Placed(first, Len(moved), q)
    <3>1. /\ x \in Seq(Moves) /\ Len(x) # 0 /\ Len(x) * BlockSize <= MSC_MEDIA_PACKET
          /\ Len(moved) + Len(x) <= c.n
      BY <1>q, <2>1
    <3>2. /\ BytesOf(c, moved \o x) <= c.len
          /\ BytesOf(c, moved \o x) <= BytesOf(c, moved) + MSC_MEDIA_PACKET
      BY <1>3, <1>6, <3>1, AdvanceOfBlocks
    <3> QED
      BY <2>1, <3>2
  <2>4. IF Len(moved') = c.n THEN Answers(dev', c, t, moved') ELSE Writes(dev', c, t, moved')
    BY <1>q, <1>13, <2>2
  <2>5. PhaseInv'
    <3>1. CASE Len(moved') = c.n
      BY <1>2, <1>q, <1>10, <1>11, <2>2, <2>4, <3>1 DEF PhaseInv, StatusInv, Answering, Receiving, Sending
    <3>2. CASE Len(moved') # c.n
      <4>1. sent' = Len(moved') /\ phase' = "data" /\ Writes(dev', c, t, moved')
        BY <1>7, <1>10, <2>2, <2>4, <3>2
      <4> QED
        BY <1>2, <1>11, <4>1 DEF PhaseInv, SendingInv, Writing, Receiving, Sending
    <3> QED
      BY <3>1, <3>2
  <2>6. HostTypes'
    <3>1. sent' \in Nat /\ phase' \in { "data", "status" }
      BY <1>3, <1>7, <1>10
    <3> QED
      BY <1>2, <1>3, <1>11, <2>2, <3>1 DEF MscInv, HostTypes, Phases
  <2>7. PlacesInv'
    <3>1. SUFFICES ASSUME Fits PROVE \A k \in DOMAIN moved' : moved'[k] = << c.lba + k - 1, k >>
      BY <1>2 DEF PlacesInv
    <3>2. \A k \in DOMAIN moved : moved[k] = << c.lba + k - 1, k >>
      BY <1>2, <1>6, <3>1 DEF MscInv, PlacesInv, Busy
    <3>3. moved' = moved \o Placed(c.lba + Len(moved), Len(moved), q)
      BY <1>q, <2>1, <3>1 DEF first
    <3> QED
      BY <1>3, <1>6, <3>2, <3>3, StayInPlace
  <2> QED
    BY <1>q, <1>12, <2>2, <2>3, <2>5, <2>6, <2>7 DEF MscInv, Advances
<1>14. CASE ~media
  <2>1. moved' = moved /\ Answers(dev', c, t, moved)
    BY <1>1, <1>q, <1>14
  <2>2. PhaseInv'
    <3>1. CASE Len(moved) + q = c.n
      BY <1>2, <1>q, <1>10, <1>11, <2>1, <3>1 DEF PhaseInv, StatusInv, Answering, Receiving, Sending
    <3>2. CASE Len(moved) + q # c.n
      <4>1. dev.scsi_blk_len > MSC_MEDIA_PACKET
        <5>1. PICK p \in 1 .. (c.n - Len(moved)) :
                /\ AtMost(dev.scsi_blk_len, MSC_MEDIA_PACKET) = p * BlockSize
                /\ (p * BlockSize) \div BlockSize = p
                /\ ((c.n - Len(moved)) * BlockSize = p * BlockSize) <=> (c.n - Len(moved) = p)
          <6>1. c.n - Len(moved) \in Nat \ {0}
            BY <1>3, <1>6
          <6> QED
            BY <1>6, <6>1, PacketOfBlocks
        <5>2. p = q
          BY <1>q, <5>1
        <5>3. c.n - Len(moved) # q
          BY <1>3, <1>6, <3>2
        <5>4. AtMost(dev.scsi_blk_len, MSC_MEDIA_PACKET) # dev.scsi_blk_len
          BY <1>6, <5>1, <5>2, <5>3
        <5>5. dev.scsi_blk_len \in Nat
          BY <1>3 DEF Devices
        <5> QED
          BY <1>8, <5>4, <5>5 DEF AtMost
      <4>2. disturbed' /\ phase' = "data"
        BY <1>1, <1>6, <1>10, <1>14, <3>2, <4>1 DEF CutShort
      <4> QED
        BY <1>2, <1>q, <1>11, <2>1, <4>2 DEF PhaseInv, SendingInv, Answering, Receiving, Sending
    <3> QED
      BY <3>1, <3>2
  <2>3. HostTypes'
    <3>1. sent' \in Nat /\ phase' \in { "data", "status" }
      BY <1>3, <1>7, <1>10
    <3> QED
      BY <1>2, <1>3, <1>11, <2>1, <3>1 DEF MscInv, HostTypes, Phases
  <2>4. PlacesInv'
    BY <1>2, <2>1 DEF MscInv, PlacesInv, Busy
  <2> QED
    BY <1>q, <1>12, <2>1, <2>2, <2>3, <2>4 DEF MscInv
<1> QED
  BY <1>13, <1>14

LEMMA SendDataAstrayKeeps ==
  ASSUME MscInv, SendDataAstray
  PROVE  MscInv'
<1>1. PICK ready \in BOOLEAN, media \in BOOLEAN : dev' = DataAstray(dev, ready, media)
  BY DEF SendDataAstray
<1>2. /\ phase = "data" /\ cmd.command.dir = "out" /\ ~dev.outStall /\ dev.out = "cbw"
      /\ sent' \in { sent, sent + 1 }
      /\ phase' = IF Complete(sent') THEN "status" ELSE "data"
      /\ cmd' = cmd /\ moved' = moved /\ reply' = reply /\ disturbed' = disturbed
  BY DEF SendDataAstray, Sending
<1>3. dev \in Devices /\ disturbed /\ Answers(dev, cmd.command, cmd.tag, moved)
  BY <1>2 DEF MscInv, PhaseInv, Sending, SendingInv, Writing, Aborting, Answering, Aborts, Writes
<1>4. /\ dev' \in Devices /\ Answers(dev', cmd.command, cmd.tag, moved)
      /\ dev'.inStall /\ dev'.bot_status = "ERROR"
  BY <1>1, <1>3, AstrayTaken
<1>5. phase' \in { "status", "data" }
  BY <1>2
<1>6. PhaseInv'
  BY <1>2, <1>3, <1>4, <1>5 DEF PhaseInv, SendingInv, StatusInv, Answering, Astray, Receiving, Sending
<1>7. HostTypes' /\ SenseInv' /\ PlacesInv'
  <2>1. sent' \in Nat
    BY <1>2 DEF MscInv, HostTypes
  <2> QED
    BY <1>2, <1>3, <1>5, <2>1 DEF MscInv, HostTypes, Phases, SenseInv, PlacesInv, Busy
<1> QED
  BY <1>4, <1>6, <1>7 DEF MscInv

\* Only a status can be on its way to a host that wants one.
LEMMA StatusIsNext ==
  ASSUME MscInv, WantsStatus, ~dev.inStall, dev.in # Nothing
  PROVE  Answers(dev, cmd.command, cmd.tag, moved) /\ ~Astray
BY DEF MscInv, PhaseInv, WantsStatus, StatusInv, RetryInv, Answering, Aborting, Aborts, IsMute

LEMMA ReceiveStatusKeeps ==
  ASSUME MscInv, ReceiveStatus
  PROVE  /\ MscInv' /\ phase' = "idle"
         /\ reply' = [ status |-> dev.in.status, tag |-> dev.in.tag, residue |-> dev.in.residue ]
<1>1. PICK ready \in BOOLEAN, media \in BOOLEAN : dev' = USBD_MSC_DataIn(dev, ready, media)
  BY DEF ReceiveStatus
<1>2. /\ WantsStatus /\ ~dev.inStall /\ dev.in # Nothing
      /\ cmd' = cmd /\ moved' = moved /\ sent' = sent /\ disturbed' = disturbed
  BY DEF ReceiveStatus
<1>3. dev \in Devices /\ Answers(dev, cmd.command, cmd.tag, moved) /\ ~Astray
  BY <1>2, StatusIsNext DEF MscInv
<1>4. PICK status \in Statuses :
        dev.in = Csw(cmd.tag, cmd.command.len - BytesOf(cmd.command, moved), status)
  BY <1>3 DEF Answers
<1>5. dev.in.kind = "csw" /\ dev.in.status = status
  BY <1>4, PacketKinds
<1>6. /\ phase' = "idle"
      /\ reply' = [ status |-> dev.in.status, tag |-> dev.in.tag, residue |-> dev.in.residue ]
  BY <1>5 DEF ReceiveStatus
<1>7. /\ dev' \in Devices /\ SameElse(dev, dev') /\ ~dev'.inStall /\ ~dev'.outStall
      /\ dev'.bot_state = "IDLE" /\ dev'.out = "cbw" /\ dev'.in = Nothing
  BY <1>1, <1>2, <1>3, AnswerTaken
<1>8. PhaseInv'
  <2>1. Waits(dev') /\ ~Astray'
    BY <1>3, <1>7 DEF Waits, Unstalled, Astray, SameElse
  <2>2. disturbed' \/ dev'.bot_status = "NORMAL"
    BY <1>2, <1>7 DEF MscInv, PhaseInv, SameElse
  <2> QED
    BY <1>6, <2>1, <2>2 DEF PhaseInv, Receiving, Sending
<1>9. SenseInv'
  <2>1. SUFFICES ASSUME ~disturbed
                 PROVE  IF reply'.status = "failed" THEN ReasonToTell(dev') ELSE NothingToTell(dev')
    BY <1>2, <1>6 DEF SenseInv, Busy
  <2>2. IF Failing(dev) THEN ReasonToTell(dev) ELSE NothingToTell(dev)
    BY <1>2, <2>1 DEF MscInv, SenseInv, Busy, WantsStatus
  <2>3. Failing(dev) <=> reply'.status = "failed"
    BY <1>2, <1>5, <1>6 DEF Failing
  <2> QED
    BY <1>7, <2>2, <2>3 DEF NothingToTell, ReasonToTell, SameElse
<1>10. HostTypes' /\ PlacesInv'
  BY <1>2, <1>4, <1>5, <1>6 DEF MscInv, HostTypes, Phases, Statuses, PlacesInv, Busy
<1> QED
  BY <1>6, <1>7, <1>8, <1>9, <1>10 DEF MscInv

LEMMA InStalledKeeps ==
  ASSUME MscInv, InStalled
  PROVE  MscInv'
<1> DEFINE c == cmd.command
           t == cmd.tag
<1>1. /\ (Receiving \/ WantsStatus) /\ dev.inStall
      /\ cmd' = cmd /\ moved' = moved /\ sent' = sent /\ reply' = reply /\ disturbed' = disturbed
  BY DEF InStalled
<1>2. dev \in Devices /\ (disturbed \/ dev.bot_status = "NORMAL")
  BY DEF MscInv, PhaseInv
<1>3. phase' \in { "status", "retry", "reset" }
  BY DEF InStalled
<1>4. HostTypes' /\ PlacesInv'
  BY <1>1, <1>3 DEF MscInv, HostTypes, Phases, PlacesInv, Busy, Receiving, WantsStatus
<1>5. CASE phase = "retry"
  <2>1. phase' = "reset" /\ dev' = dev
    BY <1>5 DEF InStalled
  <2>2. disturbed
    BY <1>1, <1>5 DEF MscInv, PhaseInv, RetryInv
  <2> QED
    BY <1>1, <1>2, <1>4, <2>1, <2>2 DEF MscInv, PhaseInv, ResetInv, SenseInv, Receiving, Sending
<1>6. CASE phase # "retry"
  <2>1. /\ phase' = IF phase = "data" THEN "status" ELSE "retry"
        /\ dev' = ClearFeature(dev, "in")
    BY <1>6 DEF InStalled
  <2>2. dev' \in Devices /\ dev'.sense = dev.sense /\ dev'.why = dev.why /\ (dev'.outStall <=> dev.outStall)
    BY <1>2, <2>1, InCleared
  <2>3. \/ Aborts(dev, c, t, moved) /\ ~dev.outStall
        \/ phase = "status" /\ disturbed /\ Answers(dev, c, t, moved) /\ Astray
    BY <1>1, <1>6 DEF MscInv, PhaseInv, Receiving, WantsStatus, ReceivingInv, StatusInv,
         Answering, Telling, Reading, Aborting, Tells, Reads, IsMute, Unstalled
  <2>4. CASE Aborts(dev, c, t, moved) /\ ~dev.outStall /\ dev.bot_status = "NORMAL"
    <3>1. dev.residue = c.len - BytesOf(c, moved) /\ dev.tag = t
      <4>1. BytesOf(c, moved) = 0
        BY <2>4, MscAssumption DEF Aborts, BytesOf
      <4>2. c.len \in Nat
        BY <2>4, <1>1, CommandCases DEF MscInv, HostTypes
      <4> QED
        BY <2>4, <4>1, <4>2 DEF Aborts, Serves
    <3>2. /\ dev'.bot_status = "NORMAL" /\ ~dev'.inStall /\ Answers(dev', c, t, moved)
          /\ dev'.in.kind = "csw" /\ dev'.in.status = "failed"
      BY <1>2, <2>1, <2>4, <3>1, InCleared
    <3>3. PhaseInv'
      BY <1>1, <2>1, <3>2 DEF PhaseInv, StatusInv, RetryInv, Answering, Astray, Receiving, Sending
    <3>4. SenseInv'
      <4>1. ~disturbed => ReasonToTell(dev)
        BY <1>1 DEF MscInv, SenseInv, Busy, Failing, Receiving, WantsStatus
      <4> QED
        BY <1>1, <2>1, <2>2, <3>2, <4>1 DEF SenseInv, Failing, ReasonToTell
    <3> QED
      BY <1>4, <2>2, <3>3, <3>4 DEF MscInv
  <2>5. CASE Aborts(dev, c, t, moved) /\ ~dev.outStall /\ dev.bot_status # "NORMAL"
    <3>1. disturbed /\ dev.bot_status = "RECOVERY"
      BY <1>2, <2>5 DEF Aborts, Devices
    <3>2. /\ dev'.bot_status = "RECOVERY" /\ dev'.in = Nothing /\ ~dev'.inStall
          /\ dev'.bot_state = dev.bot_state /\ dev'.out = dev.out
      BY <1>2, <2>1, <3>1, InCleared
    <3>3. IsMute(dev')
      BY <2>2, <2>5, <3>2 DEF Aborts, IsMute
    <3>4. PhaseInv'
      BY <1>1, <2>1, <3>1, <3>2, <3>3 DEF PhaseInv, StatusInv, RetryInv, Astray, Receiving, Sending
    <3> QED
      BY <1>1, <1>4, <2>2, <3>1, <3>4 DEF MscInv, SenseInv
  <2>6. CASE phase = "status" /\ disturbed /\ Answers(dev, c, t, moved) /\ Astray
    <3>1. /\ dev'.bot_status = "NORMAL" /\ dev'.in = Nothing /\ dev'.inStall
          /\ dev'.bot_state = dev.bot_state /\ dev'.out = dev.out
      BY <1>2, <2>1, <2>6, InCleared DEF Astray
    <3>2. IsMute(dev')
      BY <2>2, <2>6, <3>1 DEF Answers, IsMute
    <3>3. PhaseInv'
      BY <1>1, <2>1, <2>6, <3>1, <3>2 DEF PhaseInv, RetryInv, Receiving, Sending
    <3> QED
      BY <1>1, <1>4, <2>2, <2>6, <3>3 DEF MscInv, SenseInv
  <2> QED
    BY <2>3, <2>4, <2>5, <2>6
<1> QED
  BY <1>5, <1>6

LEMMA OutStalledKeeps ==
  ASSUME MscInv, OutStalled
  PROVE  MscInv'
<1>1. /\ phase = "data" /\ cmd.command.dir = "out" /\ dev.outStall /\ phase' = "status"
      /\ dev' = ClearFeature(dev, "out")
      /\ cmd' = cmd /\ moved' = moved /\ sent' = sent /\ reply' = reply /\ disturbed' = disturbed
  BY DEF OutStalled, Sending
<1>2. dev \in Devices /\ Aborts(dev, cmd.command, cmd.tag, moved)
  BY <1>1 DEF MscInv, PhaseInv, Sending, SendingInv, Writing, Aborting, Answering, Writes, Answers, Unstalled
<1>3. dev' = [ dev EXCEPT !.outStall = FALSE ]
  BY <1>1, <1>2, OutCleared DEF Aborts
<1>4. /\ dev' \in Devices /\ SameElse(dev, dev') /\ ~dev'.outStall /\ dev'.inStall
      /\ Aborts(dev', cmd.command, cmd.tag, moved)
  BY <1>2, <1>3 DEF Devices, SameElse, Aborts, Serves
<1>5. PhaseInv'
  BY <1>1, <1>4 DEF MscInv, PhaseInv, StatusInv, Aborting, SameElse, Receiving, Sending
<1>6. SenseInv'
  BY <1>1, <1>2, <1>4 DEF MscInv, SenseInv, Busy, Failing, Aborts, ReasonToTell, NothingToTell, SameElse
<1>7. HostTypes' /\ PlacesInv'
  BY <1>1 DEF MscInv, HostTypes, Phases, PlacesInv, Busy
<1> QED
  BY <1>4, <1>5, <1>6, <1>7 DEF MscInv

LEMMA GiveUpKeeps ==
  ASSUME MscInv, GiveUp
  PROVE  MscInv'
<1>1. /\ phase' = "reset" /\ disturbed' = TRUE
      /\ dev' = dev /\ cmd' = cmd /\ moved' = moved /\ sent' = sent /\ reply' = reply
  BY DEF GiveUp
<1> QED
  BY <1>1 DEF MscInv, HostTypes, Phases, PhaseInv, ResetInv, SenseInv, PlacesInv, Busy, Receiving, Sending

LEMMA RecoverKeeps ==
  ASSUME MscInv, Recover
  PROVE  MscInv'
<1>1. cmd' = cmd /\ moved' = moved /\ sent' = sent /\ reply' = reply /\ disturbed' = disturbed
  BY DEF Recover
<1>2. /\ dev \in Devices /\ phase \in { "reset", "clear_in", "clear_out" } /\ disturbed /\ ResetInv
      /\ phase' \in { "clear_in", "clear_out", "idle" }
  BY DEF MscInv, PhaseInv, ResetInv, Recover
<1>3. HostTypes' /\ SenseInv' /\ PlacesInv'
  BY <1>1, <1>2 DEF MscInv, HostTypes, Phases, SenseInv, PlacesInv, Busy
<1>4. CASE phase = "reset"
  <2>1. dev' = BotReset(dev) /\ phase' = "clear_in"
    BY <1>4 DEF Recover
  <2>2. /\ dev' \in Devices /\ dev'.bot_state = "IDLE" /\ dev'.bot_status = "RECOVERY"
        /\ dev'.out = "cbw"
    BY <1>2, <2>1 DEF BotReset, Devices
  <2> QED
    BY <1>1, <1>2, <1>3, <2>1, <2>2 DEF MscInv, PhaseInv, ResetInv, Receiving, Sending
<1>5. CASE phase = "clear_in"
  <2>1. dev' = ClearFeature(dev, "in") /\ phase' = "clear_out"
    BY <1>5 DEF Recover
  <2>2. /\ dev' \in Devices /\ dev'.bot_state = "IDLE" /\ dev'.bot_status = "RECOVERY"
        /\ dev'.out = "cbw" /\ dev'.in = Nothing /\ ~dev'.inStall
    BY <1>2, <1>5, <2>1, InCleared DEF ResetInv
  <2> QED
    BY <1>1, <1>2, <1>3, <2>1, <2>2 DEF MscInv, PhaseInv, ResetInv, Receiving, Sending
<1>6. CASE phase = "clear_out"
  <2>1. dev' = ClearFeature(dev, "out") /\ phase' = "idle"
    BY <1>6 DEF Recover
  <2>2. dev' = [ dev EXCEPT !.outStall = FALSE ]
    BY <1>2, <1>6, <2>1, OutCleared DEF ResetInv
  <2>3. dev' \in Devices /\ Waits(dev') /\ dev'.bot_status = "RECOVERY"
    BY <1>2, <1>6, <2>2 DEF ResetInv, Devices, Waits, Unstalled
  <2> QED
    BY <1>1, <1>2, <1>3, <2>1, <2>3 DEF MscInv, PhaseInv, Astray, Receiving, Sending
<1> QED
  BY <1>2, <1>4, <1>5, <1>6

LEMMA InitKeeps == Init => MscInv
<1> SUFFICES ASSUME Init PROVE MscInv
  OBVIOUS
<1>1. /\ phase = "idle" /\ cmd = [ command |-> Stray, tag |-> 0 ] /\ moved = << >> /\ sent = 0
      /\ reply = NoReply /\ disturbed = FALSE
  BY DEF Init
<1>2. PICK addr \in { 0, Word - 1 } :
        dev = [ bot_state |-> "IDLE", bot_status |-> "NORMAL", bot_data |-> << >>,
                cbw |-> Stray, tag |-> StrayTag, residue |-> 0, sense |-> << >>,
                scsi_blk_nbr |-> 0, scsi_blk_addr |-> addr, scsi_blk_len |-> 0,
                in |-> Nothing, inStall |-> FALSE, out |-> "cbw", outStall |-> FALSE,
                why |-> "NO_SENSE" ]
  BY DEF Init
<1>3. addr \in 0 .. Word - 1
  BY MscAssumption
<1>4. << >> \in Rings
  BY MscAssumption DEF Rings
<1>5. dev \in Devices
  <2>1. Stray \in Commands \cup { Stray } /\ StrayTag \in Tags \cup { StrayTag } /\ Nothing \in Packets
    BY PacketTypes
  <2> QED
    BY <1>2, <1>3, <1>4, <2>1 DEF Devices
<1>6. HostTypes
  <2>1. cmd \in [ command : Commands \cup { Stray }, tag : Tags ]
    BY <1>1 DEF Tags
  <2>2. moved \in Seq(Moves) /\ sent \in Nat /\ reply.status = "none"
    BY <1>1 DEF NoReply
  <2> QED
    BY <1>1, <2>1, <2>2 DEF HostTypes, Phases, Busy
<1>7. PhaseInv /\ SenseInv /\ PlacesInv
  BY <1>1, <1>2 DEF PhaseInv, SenseInv, PlacesInv, Waits, Unstalled, Astray, Receiving, Sending,
       Busy, NoReply, NothingToTell
<1> QED
  BY <1>5, <1>6, <1>7 DEF MscInv

LEMMA StutterKeeps ==
  ASSUME MscInv, UNCHANGED vars
  PROVE  MscInv'
BY DEF vars, MscInv, HostTypes, PhaseInv, SenseInv, PlacesInv, Busy, Receiving, Sending, Astray,
       ReceivingInv, SendingInv, StatusInv, RetryInv, ResetInv, Answering, Telling, Reading,
       Writing, Aborting

LEMMA NextKeeps == MscInv /\ [Next]_vars => MscInv'
BY IssueKeeps, ReceiveDataKeeps, ReceiveStatusAsDataKeeps, SendDataKeeps, SendDataAstrayKeeps,
   ReceiveStatusKeeps, InStalledKeeps, OutStalledKeeps, GiveUpKeeps, RecoverKeeps, StutterKeeps
   DEF Next, Transfer

LEMMA MscInvariant == Spec => []MscInv
BY InitKeeps, NextKeeps, PTL DEF Spec

-----------------------------------------------------------------------------
(* What follows. *)

\* The types of hmsc, of the endpoints and of the host, whatever the commands.
THEOREM MscTypeCorrect == Spec => []TypeOK
<1>1. MscInv => TypeOK
  <2> SUFFICES ASSUME MscInv PROVE TypeOK
    OBVIOUS
  <2>1. dev \in Devices /\ HostTypes
    BY DEF MscInv
  <2>2. dev.in.kind \in { "nothing", "data", "csw" }
    BY <2>1, PacketKinds DEF Devices
  <2>3. dev.sense \in Seq(SenseCodes \cup { "stray" }) /\ Len(dev.sense) < SENSE_LIST_DEPTH
    BY <2>1 DEF Devices, Rings
  <2>4. /\ phase \in Phases /\ cmd.command \in Commands \cup { Stray } /\ cmd.tag \in Tags
        /\ reply.status \in { "none", "passed", "failed" }
    BY <2>1 DEF HostTypes, Statuses
  <2> QED
    BY <2>1, <2>2, <2>3, <2>4 DEF TypeOK, Devices, Phases
<1> QED
  BY <1>1, MscInvariant, PTL

\* However a command ends, and after a reset recovery from any state, the device waits
\* for a command with nothing left over when the host is about to send one.
THEOREM DeviceInStep == Spec => []InStep
<1>1. MscInv => InStep
  BY DEF MscInv, PhaseInv, Waits, Unstalled, InStep
<1> QED
  BY <1>1, MscInvariant, PTL

\* By itself the device never makes the host start over.
THEOREM ResetsAreForced == Spec => []NoResetUndisturbed
<1>1. MscInv => NoResetUndisturbed
  BY DEF MscInv, PhaseInv, ResetInv, NoResetUndisturbed
<1> QED
  BY <1>1, MscInvariant, PTL

\* As long as nobody gives up and the card does not go in the middle of a transfer,
\* the data of a command is not taken for the next command.
THEOREM DataIsTakenForData == Spec => []DataIsNoCommand
<1>1. MscInv => DataIsNoCommand
  BY DEF MscInv, PhaseInv, SendingInv, Sending, Writing, Aborting, Writes, Aborts, DataIsNoCommand
<1> QED
  BY <1>1, MscInvariant, PTL

\* A host that asks after every failure is told the reason of that failure.
THEOREM SenseTellsTheReason == Spec => SenseIsTheReason
<1>1. MscInv /\ [Next]_vars =>
        [ (Issue /\ cmd'.command.op = "REQUEST_SENSE" /\ ~disturbed) =>
            dev'.in = Data(<< dev.why >>) ]_vars
  <2> SUFFICES ASSUME MscInv, Issue, cmd'.command.op = "REQUEST_SENSE", ~disturbed
               PROVE  dev'.in = Data(<< dev.why >>)
    OBVIOUS
  <2>1. phase = "idle"
    BY DEF Issue
  <2>2. NothingToTell(dev) \/ ReasonToTell(dev)
    BY <2>1 DEF MscInv, SenseInv
  <2>3. Accounts(dev, dev', cmd'.command)
    BY IssueKeeps DEF Taken
  <2> QED
    BY <2>2, <2>3 DEF Accounts
<1> QED
  BY <1>1, MscInvariant, PTL DEF Spec, SenseIsTheReason

-----------------------------------------------------------------------------
(* To the host the class is a bulk-only device. *)

\* The command being served, as the abstract device has it.
Job == IF Busy THEN cmd ELSE [ op |-> "none" ]

LEMMA JobCases ==
  ASSUME MscInv
  PROVE  Job = BulkOnlyDevice!NoCommand <=> ~Busy
<1>1. DOMAIN cmd = { "command", "tag" }
  BY DEF MscInv, HostTypes
<1>2. DOMAIN BulkOnlyDevice!NoCommand = { "op" }
  BY DEF BulkOnlyDevice!NoCommand
<1>3. cmd # BulkOnlyDevice!NoCommand
  BY <1>1, <1>2
<1> QED
  BY <1>3 DEF Job, BulkOnlyDevice!NoCommand

LEMMA SameBytes ==
  \A c, m : /\ BulkOnlyDevice!Bytes(c, m) = BytesOf(c, m)
            /\ BulkOnlyDevice!MovesBlocks(c) <=> MovesBlocks(c)
BY DEF BulkOnlyDevice!Bytes, BulkOnlyDevice!MovesBlocks, BytesOf, MovesBlocks

\* A packet moves, to the host or to the card.
LEMMA ImplementsMove ==
  ASSUME MscInv, MscInv', Fits, phase = "data", phase' \in { "data", "status" },
         Advances, UNCHANGED << cmd, reply >>
  PROVE  BulkOnlyDevice!Move
<1>1. Busy /\ Busy' /\ Job = cmd /\ Job' = Job
  BY DEF Busy, Job
<1>2. Job # BulkOnlyDevice!NoCommand
  BY <1>1, JobCases
<1>3. BulkOnlyDevice!InPlace(Job.command, moved')
  BY <1>1, SameBytes DEF BulkOnlyDevice!InPlace, MscInv, PlacesInv
<1> QED
  BY <1>1, <1>2, <1>3, SameBytes DEF BulkOnlyDevice!Move, Advances, Job

\* Nothing that the abstract device knows of changes.
LEMMA ImplementsStutter ==
  ASSUME Busy <=> Busy', UNCHANGED << cmd, moved, reply >>
  PROVE  UNCHANGED BulkOnlyDevice!vars
BY DEF BulkOnlyDevice!vars

LEMMA ImplementsLose ==
  ASSUME MscInv, Busy, ~Busy', UNCHANGED << cmd, moved, reply >>
  PROVE  BulkOnlyDevice!Lose
BY JobCases DEF BulkOnlyDevice!Lose, BulkOnlyDevice!NoCommand, Job

LEMMA ImplementsIssue ==
  ASSUME MscInv, Issue
  PROVE  BulkOnlyDevice!Issue
<1>1. /\ ~Busy /\ Busy' /\ moved' = << >> /\ reply' = NoReply
      /\ cmd' = [ command |-> cmd'.command, tag |-> cmd'.tag ]
      /\ cmd'.command \in Commands
  BY DEF Issue, Busy
<1>2. cmd'.tag \in BulkOnlyDevice!Tags
  BY IssueKeeps DEF MscInv, HostTypes, Tags, BulkOnlyDevice!Tags
<1> QED
  BY <1>1, <1>2, JobCases
     DEF BulkOnlyDevice!Issue, BulkOnlyDevice!NoReply, BulkOnlyDevice!NoCommand, NoReply, Job

LEMMA ImplementsAnswer ==
  ASSUME MscInv, ReceiveStatus
  PROVE  BulkOnlyDevice!Answer
<1>1. /\ Busy /\ ~Busy' /\ cmd' = cmd /\ moved' = moved
      /\ reply' = [ status |-> dev.in.status, tag |-> dev.in.tag, residue |-> dev.in.residue ]
  BY ReceiveStatusKeeps DEF ReceiveStatus, Busy, WantsStatus
<1>2. PICK status \in Statuses :
        /\ dev.in = Csw(cmd.tag, cmd.command.len - BytesOf(cmd.command, moved), status)
        /\ status = "passed" /\ MovesBlocks(cmd.command) =>
             BytesOf(cmd.command, moved) = cmd.command.len
  BY StatusIsNext DEF ReceiveStatus, Answers
<1>3. reply' = [ status |-> status, tag |-> cmd.tag,
                 residue |-> cmd.command.len - BytesOf(cmd.command, moved) ]
  BY <1>1, <1>2, PacketKinds
<1>4. Job = cmd /\ Job' = BulkOnlyDevice!NoCommand /\ Job # BulkOnlyDevice!NoCommand
  BY <1>1, JobCases DEF Job, BulkOnlyDevice!NoCommand
<1>5. status \in BulkOnlyDevice!Statuses
  BY DEF Statuses, BulkOnlyDevice!Statuses
<1> QED
  BY <1>1, <1>2, <1>3, <1>4, <1>5, SameBytes DEF BulkOnlyDevice!Answer, Job

LEMMA ImplementsNext ==
  ASSUME MscInv, MscInv', [Next]_vars, Fits
  PROVE  [BulkOnlyDevice!Next]_(BulkOnlyDevice!vars)
<1> USE DEF BulkOnlyDevice!Next
<1>1. CASE Issue
  BY <1>1, ImplementsIssue
<1>2. CASE ReceiveData
  <2>1. /\ phase = "data" /\ phase' \in { "data", "status" } /\ UNCHANGED << cmd, reply >>
    BY <1>2 DEF ReceiveData, Receiving
  <2> QED
    BY <1>2, <2>1, ReceiveDataKeeps, ImplementsMove
<1>3. CASE ReceiveStatusAsData
  BY <1>3, ImplementsStutter DEF ReceiveStatusAsData, Receiving, Busy
<1>4. CASE SendData
  <2>1. /\ phase = "data" /\ phase' \in { "data", "status" } /\ UNCHANGED << cmd, reply >>
    BY <1>4 DEF SendData, Sending
  <2>2. Advances \/ moved' = moved
    BY <1>4, SendDataKeeps
  <2> QED
    BY <2>1, <2>2, ImplementsMove, ImplementsStutter DEF Busy
<1>5. CASE SendDataAstray
  BY <1>5, ImplementsStutter DEF SendDataAstray, Sending, Busy
<1>6. CASE ReceiveStatus
  BY <1>6, ImplementsAnswer
<1>7. CASE InStalled
  <2>1. Busy /\ UNCHANGED << cmd, moved, reply >>
    BY <1>7 DEF InStalled, Busy, Receiving, WantsStatus
  <2> QED
    BY <2>1, ImplementsStutter, ImplementsLose
<1>8. CASE OutStalled
  BY <1>8, ImplementsStutter DEF OutStalled, Sending, Busy
<1>9. CASE GiveUp
  BY <1>9, ImplementsLose DEF GiveUp, Busy
<1>10. CASE Recover
  BY <1>10, ImplementsStutter DEF Recover, Busy
<1>11. CASE UNCHANGED vars
  BY <1>11, ImplementsStutter DEF vars, Busy
<1> QED
  BY <1>1, <1>2, <1>3, <1>4, <1>5, <1>6, <1>7, <1>8, <1>9, <1>10, <1>11 DEF Next, Transfer

LEMMA ImplementsInit == Init => BulkOnlyDevice!Init
BY DEF Init, Busy, NoReply, BulkOnlyDevice!Init, BulkOnlyDevice!NoCommand, BulkOnlyDevice!NoReply

\* On a card that ends below 4 GB, for any commands that stay below 2^32 blocks: every
\* block moves to or from its place, tag and residue are those of the command, and
\* "passed" means that everything has moved, with stalls, resets and a failing card.
THEOREM ImplementsBulkOnly ==
  ASSUME Fits
  PROVE  Spec => IsBulkOnly
<1>1. MscInv /\ MscInv' /\ [Next]_vars => [BulkOnlyDevice!Next]_(BulkOnlyDevice!vars)
  BY ImplementsNext
<1> QED
  BY <1>1, MscInvariant, ImplementsInit, PTL DEF Spec, IsBulkOnly, BulkOnlyDevice!Spec

=============================================================================
