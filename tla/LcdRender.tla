------------------------------ MODULE LcdRender ------------------------------
(***************************************************************************)
(* Rendering, src/Bsp/cLcd.cpp.  The main task draws each frame into one   *)
(* of two buffers: drawing appends operations to a list in memory, which   *)
(* endRender hands to the DMA2D engine.  The engine's interrupt walks the  *)
(* list, one operation at a time, and signals its end.  The interrupt of   *)
(* the LTDC, once per display frame, switches the scan-out to the buffer   *)
(* shown last and signals the frame to the task.                           *)
(*                                                                         *)
(* A word of the list is a whole operation, known by the buffer it draws   *)
(* to: a register and its value are never read apart unless the walk has   *)
(* gone astray.                                                            *)
(***************************************************************************)
EXTENDS Naturals

CONSTANTS
  MaxOps,   \* operations in one frame
  MaxLate   \* waits for the list that ended without a signal, counted so far

ASSUME RenderAssumption == MaxOps \in Nat \ {0} /\ MaxLate \in Nat \ {0}

VARIABLES
  lcd,    \* the task: where it is, the buffer drawn to, the list's end
  ltdc,   \* the LTDC: buffer scanned, buffer to show, frameWait and ltdc.sem
  dma,    \* the DMA2D engine, its list, mDma2dIsrBuf and mDma2dSem
  undone  \* for each buffer, operations of its last frame still to do

renderVars == << lcd, ltdc, dma, undone >>

Buffers == { 0, 1 }
End == 2       \* kEnd
Unwritten == 3 \* memory the list has never reached
None == 4      \* the engine is idle
Slots == 1 .. MaxOps + 1

\* The engine reads the word at mDma2dIsrBuf.  An operation given to a busy
\* engine is lost: its registers are locked until the transfer ends.
Walk(d, word) ==
  CASE word = End -> [ d EXCEPT !.isr = 1, !.sem = @ + 1,
                                !.irq = FALSE, !.astray = FALSE ]
    [] word \in Buffers /\ d.op = None ->
         [ d EXCEPT !.isr = @ + 1, !.op = word, !.irq = TRUE ]
    [] word \in Buffers /\ d.op # None -> [ d EXCEPT !.isr = @ + 1, !.irq = TRUE ]
    [] OTHER -> [ d EXCEPT !.wild = TRUE ]

\* A walk that met another frame's list may start in the middle of an operation.
Words(d) == { d.mem[d.isr] } \union (IF d.astray THEN { Unwritten } ELSE {})

\* The list gets a word at its end: over the walk, when one is still going on.
Put(d, word) ==
  [ d EXCEPT !.mem[lcd.cur] = word, !.astray = @ \/ d.isr # 1 ]

RenderInit ==
  /\ lcd = [ at |-> "start", draw |-> 1, cur |-> 1, fresh |-> FALSE, late |-> 0 ]
  /\ ltdc = [ scan |-> 1, shown |-> 1, wait |-> FALSE, sem |-> 1 ]
  /\ dma = [ mem |-> [ s \in Slots |-> IF s = 1 THEN End ELSE Unwritten ],
             isr |-> 1, op |-> None, irq |-> FALSE, sem |-> 0,
             astray |-> FALSE, wild |-> FALSE ]
  /\ undone = [ b \in Buffers |-> 0 ]

\* startRender up to the wait.  "fresh" remembers that no older signal was left.
StartRender ==
  /\ lcd.at = "start"
  /\ lcd' = [ lcd EXCEPT !.at = "sync", !.draw = 1 - @, !.fresh = (ltdc.sem = 0) ]
  /\ ltdc' = [ ltdc EXCEPT !.wait = TRUE ]
  /\ undone' = [ undone EXCEPT ![1 - lcd.draw] = 0 ]
  /\ UNCHANGED dma

\* xSemaphoreTake (ltdc.sem, 100): signalled, or 100 ms without a frame.
SyncTaken ==
  /\ lcd.at = "sync" /\ ltdc.sem = 1
  /\ lcd' = [ lcd EXCEPT !.at = "draw" ]
  /\ ltdc' = [ ltdc EXCEPT !.sem = 0 ]
  /\ UNCHANGED << dma, undone >>

SyncTimeout ==
  /\ lcd.at = "sync" /\ ltdc.sem = 0
  /\ lcd' = [ lcd EXCEPT !.at = "draw", !.fresh = FALSE ]
  /\ UNCHANGED << ltdc, dma, undone >>

\* rect, stamp and copy, which all other drawing is made of.
Draw ==
  /\ lcd.at = "draw" /\ lcd.cur <= MaxOps /\ ~dma.wild
  /\ dma' = Put(dma, lcd.draw)
  /\ lcd' = [ lcd EXCEPT !.cur = @ + 1 ]
  /\ undone' = [ undone EXCEPT ![lcd.draw] = @ + 1 ]
  /\ UNCHANGED ltdc

\* endRender ends the list and calls the interrupt handler to start it.
Send ==
  /\ lcd.at = "draw" /\ ~dma.wild
  /\ LET ended == Put(dma, End) IN
     \E word \in Words(ended) : dma' = Walk(ended, word)
  /\ lcd' = [ lcd EXCEPT !.at = "wait" ]
  /\ UNCHANGED << ltdc, undone >>

\* Mutant: the list's end is signalled with its last operation under way.
OperationDoneEarly ==
  /\ dma.op # None /\ ~dma.wild
  /\ undone' = [ undone EXCEPT ![dma.op] = IF @ = 0 THEN 0 ELSE @ - 1 ]
  /\ LET idle == [ dma EXCEPT !.op = None ] IN
     IF ~dma.irq THEN dma' = idle
     ELSE \E word \in Words(idle) :
            LET next == Walk(idle, word) IN
            dma' = IF word \in Buffers /\ next.mem[next.isr] = End
                   THEN Walk(next, End) ELSE next
  /\ UNCHANGED << lcd, ltdc >>

\* The engine ends an operation; its interrupt, LCD_DMA2D_IRQHandler, goes on
\* with the list unless a kEnd has switched it off in the meantime.
OperationDone ==
  /\ dma.op # None /\ ~dma.wild
  /\ undone' = [ undone EXCEPT ![dma.op] = IF @ = 0 THEN 0 ELSE @ - 1 ]
  /\ LET idle == [ dma EXCEPT !.op = None ] IN
     IF dma.irq THEN \E word \in Words(idle) : dma' = Walk(idle, word)
                ELSE dma' = idle
  /\ UNCHANGED << lcd, ltdc >>

\* The end of endRender: showLayer, and the list starts again.
Shown ==
  /\ ltdc' = [ ltdc EXCEPT !.shown = lcd.draw ]
  /\ UNCHANGED undone

\* Mutant: the count is not taken down, as if the semaphore were a flag.
WaitTakenAgain ==
  /\ lcd.at = "wait" /\ dma.sem > 0
  /\ lcd' = [ lcd EXCEPT !.at = "start", !.cur = 1 ]
  /\ dma' = [ dma EXCEPT !.mem[1] = End ]
  /\ Shown

WaitTaken ==
  /\ lcd.at = "wait" /\ dma.sem > 0
  /\ lcd' = [ lcd EXCEPT !.at = "start", !.cur = 1 ]
  /\ dma' = [ dma EXCEPT !.sem = @ - 1, !.mem[1] = End ]
  /\ Shown

\* 500 ms without a signal: the list is reused although the engine may be on it.
WaitTimeout ==
  /\ lcd.at = "wait" /\ dma.sem = 0
  /\ lcd' = [ lcd EXCEPT !.at = "start", !.cur = 1,
                         !.late = IF @ < MaxLate THEN @ + 1 ELSE @ ]
  /\ dma' = [ dma EXCEPT !.mem[1] = End ]
  /\ Shown

\* Mutant: the wait is answered before the buffer is switched.
LineIrqAfter ==
  /\ ltdc' = [ ltdc EXCEPT !.scan = IF ltdc.wait THEN @ ELSE ltdc.shown,
                           !.wait = FALSE,
                           !.sem = IF ltdc.wait THEN 1 ELSE @ ]
  /\ ltdc' # ltdc
  /\ UNCHANGED << lcd, dma, undone >>

\* LCD_LTDC_IRQHandler, line interrupt.
LineIrq ==
  /\ ltdc' = [ ltdc EXCEPT !.scan = ltdc.shown, !.wait = FALSE,
                           !.sem = IF ltdc.wait THEN 1 ELSE @ ]
  /\ ltdc' # ltdc
  /\ UNCHANGED << lcd, dma, undone >>

\* The task never waits longer than its timeouts, whatever the engines do.
RenderTask ==
  StartRender \/ SyncTaken \/ SyncTimeout \/ Send \/ WaitTaken \/ WaitTimeout

RenderNext == RenderTask \/ Draw \/ OperationDone \/ LineIrq

-----------------------------------------------------------------------------
RenderTypeOK ==
  /\ lcd \in [ at : { "start", "sync", "draw", "wait" }, draw : Buffers,
               cur : Slots, fresh : BOOLEAN, late : 0 .. MaxLate ]
  /\ ltdc \in [ scan : Buffers, shown : Buffers, wait : BOOLEAN, sem : { 0, 1 } ]
  /\ dma \in [ mem : [ Slots -> Buffers \union { End, Unwritten } ],
               isr : Slots, op : Buffers \union { None }, irq : BOOLEAN,
               sem : Nat, astray : BOOLEAN, wild : BOOLEAN ]
  /\ undone \in [ Buffers -> Nat ]

\* Until a wait for the list times out, the buffer that is shown next, or
\* already, has every operation of its frame done.
ShownIsComplete == lcd.late = 0 => undone[ltdc.shown] = 0

\* A frame that began without an old signal in ltdc.sem is drawn to the buffer
\* that is not scanned out.  (With an old one it may be: the semaphore is
\* created given, so the wait of startRender can be one frame behind.)
NoTearing == lcd.fresh /\ lcd.late = 0 => dma.op # ltdc.scan

\* Between two waits there are no more signals left, or still to come from a
\* walk, than waits that timed out; and only after a timeout can the handler
\* read what is no operation.
SignalsAccounted ==
  /\ lcd.at # "wait" /\ lcd.late < MaxLate =>
       dma.sem + (IF dma.irq THEN 1 ELSE 0) <= lcd.late
  /\ dma.astray \/ dma.wild => lcd.late > 0

\* Frames go on for ever even if the engines never answer, unless a walk goes wild.
RenderGoesOn == ([]<>(lcd.at = "start")) \/ <>dma.wild
=============================================================================
