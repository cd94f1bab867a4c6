---------------------------- MODULE EthernetInput ----------------------------
(***************************************************************************)
(* Ethernet, src/Bsp/ethernetIf.c on top of the HAL driver.  The MAC puts  *)
(* received frames into a ring of descriptors; its interrupt signals       *)
(* mRxSem; the receive task empties the ring, copies each frame to a       *)
(* buffer of the pool and posts it to the mailbox of the TCP/IP task,      *)
(* which also transmits, through the same handle with its one lock.        *)
(*                                                                         *)
(* The receive task has the highest priority (6; TCPIP_THREAD_PRIO is 5):  *)
(* the TCP/IP task runs only while it waits, and no task runs during the   *)
(* interrupt.  A frame is its number and fits one descriptor, as           *)
(* ETH_RX_BUF_SIZE is the largest packet.                                  *)
(***************************************************************************)
EXTENDS Naturals, Sequences

CONSTANTS
  ETH_RXBUFNB,     \* descriptors
  PBUF_POOL_SIZE,  \* buffers
  TCPIP_MBOX_SIZE, \* messages the TCP/IP task's mailbox holds
  MaxFrames        \* frames that arrive

ASSUME EthAssumption ==
  /\ ETH_RXBUFNB \in Nat \ {0} /\ PBUF_POOL_SIZE \in Nat \ {0}
  /\ TCPIP_MBOX_SIZE \in Nat \ {0} /\ MaxFrames \in Nat

VARIABLES
  ring,    \* each descriptor's frame, 0 when the MAC owns it
  mac,     \* the MAC's descriptor, the next frame's number and its interrupt flag
  RxDesc,  \* the driver's descriptor
  Lock,    \* EthHandle.Lock
  mRxSem,
  isr,     \* the interrupt handler is between its two steps
  rx,      \* the receive task: where it is, descriptor and frame in hand
  tx,      \* the TCP/IP task is transmitting
  pool,    \* free buffers
  mbox,    \* the mailbox
  handled, \* the last frame the TCP/IP task has handled
  short    \* a frame was dropped for want of a buffer, none has come since

ethVars == << ring, mac, RxDesc, Lock, mRxSem, isr, rx, tx, pool, mbox, handled, short >>

Descs == 0 .. ETH_RXBUFNB - 1
NextDesc(d) == (d + 1) % ETH_RXBUFNB

EthInit ==
  /\ ring = [ d \in Descs |-> 0 ]
  /\ mac = [ desc |-> 0, frame |-> 1, flag |-> FALSE ]
  /\ RxDesc = 0 /\ Lock = FALSE /\ mRxSem = 1 /\ isr = FALSE
  /\ rx = [ at |-> "wait", desc |-> 0, frame |-> 0 ]
  /\ tx = FALSE
  /\ pool = PBUF_POOL_SIZE /\ mbox = << >> /\ handled = 0 /\ short = FALSE

\* A frame arrives (external): stored if there is a descriptor, or missed.
Arrive ==
  /\ mac.frame <= MaxFrames
  /\ IF ring[mac.desc] = 0
     THEN /\ ring' = [ ring EXCEPT ![mac.desc] = mac.frame ]
          /\ mac' = [ desc |-> NextDesc(mac.desc), frame |-> mac.frame + 1, flag |-> TRUE ]
          /\ short' = FALSE
     ELSE mac' = [ mac EXCEPT !.frame = @ + 1 ] /\ UNCHANGED << ring, short >>
  /\ UNCHANGED << RxDesc, Lock, mRxSem, isr, rx, tx, pool, mbox, handled >>

\* HAL_ETH_IRQHandler: the callback gives mRxSem, then the flag is cleared and
\* the handle unlocked, whoever locked it.
IrqGive ==
  /\ mac.flag /\ ~isr
  /\ mRxSem' = 1 /\ isr' = TRUE
  /\ UNCHANGED << ring, mac, RxDesc, Lock, rx, tx, pool, mbox, handled, short >>

\* Mutant: the handle is left as it was.
IrqClearOnly ==
  /\ isr
  /\ mac' = [ mac EXCEPT !.flag = FALSE ]
  /\ isr' = FALSE
  /\ UNCHANGED << ring, RxDesc, Lock, mRxSem, rx, tx, pool, mbox, handled, short >>

IrqClear ==
  /\ isr
  /\ mac' = [ mac EXCEPT !.flag = FALSE ]
  /\ Lock' = FALSE /\ isr' = FALSE
  /\ UNCHANGED << ring, RxDesc, mRxSem, rx, tx, pool, mbox, handled, short >>

\* ethernetInputThread takes the signal; its 100 ms only make it wait again.
RxAt(place) == ~isr /\ rx.at = place

RxTake ==
  /\ RxAt("wait") /\ mRxSem = 1
  /\ mRxSem' = 0
  /\ rx' = [ rx EXCEPT !.at = "get" ]
  /\ UNCHANGED << ring, mac, RxDesc, Lock, isr, tx, pool, mbox, handled, short >>

\* HAL_ETH_GetReceivedFrame_IT locks the handle, or gives up: HAL_BUSY.
RxLock ==
  /\ RxAt("get")
  /\ rx' = [ rx EXCEPT !.at = IF Lock THEN "wait" ELSE "scan" ]
  /\ Lock' = TRUE
  /\ UNCHANGED << ring, mac, RxDesc, mRxSem, isr, tx, pool, mbox, handled, short >>

\* The next descriptor has a frame, or the task waits again.
RxScan ==
  /\ RxAt("scan")
  /\ Lock' = FALSE
  /\ IF ring[RxDesc] = 0
     THEN rx' = [ rx EXCEPT !.at = "wait" ] /\ UNCHANGED RxDesc
     ELSE /\ rx' = [ rx EXCEPT !.at = "alloc", !.desc = RxDesc ]
          /\ RxDesc' = NextDesc(RxDesc)
  /\ UNCHANGED << ring, mac, mRxSem, isr, tx, pool, mbox, handled, short >>

\* Mutant: the descriptor is released before the frame is copied.
RxAllocRelease ==
  /\ RxAt("alloc")
  /\ IF pool > 0
     THEN /\ pool' = pool - 1
          /\ rx' = [ rx EXCEPT !.at = "copy" ]
          /\ ring' = [ ring EXCEPT ![rx.desc] = 0 ]
          /\ UNCHANGED << short >>
     ELSE /\ ring' = [ ring EXCEPT ![rx.desc] = 0 ]
          /\ rx' = [ rx EXCEPT !.at = "wait" ]
          /\ short' = TRUE
          /\ UNCHANGED pool
  /\ UNCHANGED << mac, RxDesc, Lock, mRxSem, isr, tx, mbox, handled >>

\* pbuf_alloc.  Without a buffer the frame is dropped, its descriptor given back
\* and NULL returned, which the task takes for an empty ring.
RxAlloc ==
  /\ RxAt("alloc")
  /\ IF pool > 0
     THEN /\ pool' = pool - 1
          /\ rx' = [ rx EXCEPT !.at = "copy" ]
          /\ UNCHANGED << ring, short >>
     ELSE /\ ring' = [ ring EXCEPT ![rx.desc] = 0 ]
          /\ rx' = [ rx EXCEPT !.at = "wait" ]
          /\ short' = TRUE
          /\ UNCHANGED pool
  /\ UNCHANGED << mac, RxDesc, Lock, mRxSem, isr, tx, mbox, handled >>

\* The frame is copied and its descriptor given back.
RxCopy ==
  /\ RxAt("copy")
  /\ rx' = [ rx EXCEPT !.at = "input", !.frame = ring[rx.desc] ]
  /\ ring' = [ ring EXCEPT ![rx.desc] = 0 ]
  /\ UNCHANGED << mac, RxDesc, Lock, mRxSem, isr, tx, pool, mbox, handled, short >>

\* Mutant: a frame that the mailbox refuses keeps its buffer.
RxInputLeak ==
  /\ RxAt("input")
  /\ mbox' = IF Len(mbox) < TCPIP_MBOX_SIZE THEN Append(mbox, rx.frame) ELSE mbox
  /\ rx' = [ rx EXCEPT !.at = "get" ]
  /\ UNCHANGED << ring, mac, RxDesc, Lock, mRxSem, isr, tx, pool, handled, short >>

\* Mutant: one frame for each signal.
RxInputOnce ==
  /\ RxAt("input")
  /\ IF Len(mbox) < TCPIP_MBOX_SIZE
     THEN mbox' = Append(mbox, rx.frame) /\ UNCHANGED pool
     ELSE pool' = pool + 1 /\ UNCHANGED mbox
  /\ rx' = [ rx EXCEPT !.at = "wait" ]
  /\ UNCHANGED << ring, mac, RxDesc, Lock, mRxSem, isr, tx, handled, short >>

\* netif->input, tcpip_input: posted, or refused and the buffer freed.
RxInput ==
  /\ RxAt("input")
  /\ IF Len(mbox) < TCPIP_MBOX_SIZE
     THEN mbox' = Append(mbox, rx.frame) /\ UNCHANGED pool
     ELSE pool' = pool + 1 /\ UNCHANGED mbox
  /\ rx' = [ rx EXCEPT !.at = "get" ]
  /\ UNCHANGED << ring, mac, RxDesc, Lock, mRxSem, isr, tx, handled, short >>

\* The TCP/IP task handles a frame, frees its buffer, and transmits: ethernetOutput
\* takes no notice of HAL_ETH_TransmitFrame's HAL_BUSY.
RxWaits == ~isr /\ rx.at = "wait" /\ mRxSem = 0

Handle ==
  /\ RxWaits /\ ~tx /\ mbox # << >>
  /\ handled' = Head(mbox) /\ mbox' = Tail(mbox) /\ pool' = pool + 1
  /\ UNCHANGED << ring, mac, RxDesc, Lock, mRxSem, isr, rx, tx, short >>

Transmit ==
  /\ RxWaits /\ ~tx
  /\ Lock' = TRUE /\ tx' = ~Lock
  /\ UNCHANGED << ring, mac, RxDesc, mRxSem, isr, rx, pool, mbox, handled, short >>

Transmitted ==
  /\ RxWaits /\ tx
  /\ Lock' = FALSE /\ tx' = FALSE
  /\ UNCHANGED << ring, mac, RxDesc, mRxSem, isr, rx, pool, mbox, handled, short >>

RxTask == RxTake \/ RxLock \/ RxScan \/ RxAlloc \/ RxCopy \/ RxInput
EthNext ==
  Arrive \/ IrqGive \/ IrqClear \/ RxTask \/ Handle \/ Transmit \/ Transmitted

-----------------------------------------------------------------------------
EthTypeOK ==
  /\ ring \in [ Descs -> 0 .. MaxFrames ]
  /\ mac \in [ desc : Descs, frame : 1 .. MaxFrames + 1, flag : BOOLEAN ]
  /\ RxDesc \in Descs /\ Lock \in BOOLEAN /\ mRxSem \in { 0, 1 } /\ isr \in BOOLEAN
  /\ rx \in [ at : { "wait", "get", "scan", "alloc", "copy", "input" },
              desc : Descs, frame : 0 .. MaxFrames ]
  /\ tx \in BOOLEAN /\ pool \in 0 .. PBUF_POOL_SIZE
  /\ mbox \in Seq(1 .. MaxFrames) /\ handled \in 0 .. MaxFrames /\ short \in BOOLEAN

\* Frames reach the TCP/IP task whole, once and in the order they arrived.
FramesInOrder ==
  LET seen == << handled >> \o mbox \o (IF rx.at = "input" THEN << rx.frame >> ELSE << >>)
  IN \A i \in 1 .. Len(seen) - 1 : seen[i] < seen[i + 1]

\* No buffer of the pool is lost or freed twice.
PbufsKept ==
  pool + Len(mbox) + (IF rx.at \in { "copy", "input" } THEN 1 ELSE 0) = PBUF_POOL_SIZE

\* Neither task ever finds the handle locked by the other, although nothing but
\* the priorities and the interrupt's unlocking keeps them apart: a frame would
\* be left in the ring, or a transmission dropped with ERR_OK.
NeverBusy ==
  /\ RxAt("get") => ~Lock
  /\ RxWaits /\ ~tx => ~Lock

\* While the receive task waits no frame is left in the ring, unless the
\* interrupt is about to come or a frame was dropped for want of a buffer: the
\* task took that for the end, and the rest stays until another frame arrives.
NothingLeft ==
  RxWaits /\ ~mac.flag /\ ~short => \A d \in Descs : ring[d] = 0
=============================================================================
