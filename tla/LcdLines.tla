------------------------------ MODULE LcdLines ------------------------------
(***************************************************************************)
(* The log lines of the display, src/Bsp/cLcd.cpp.  Every task of the      *)
(* firmware may add a line (debug() ends in cLcd::info), the main task     *)
(* scrolls, clears and draws, and nothing locks the few variables they     *)
(* share.                                                                  *)
(*                                                                         *)
(* mFirstLine is a float in the code; its fraction is left out, as every   *)
(* use of it as a line number is.  A line is known by its number.          *)
(***************************************************************************)
EXTENDS Integers

CONSTANTS
  Loggers,       \* the tasks that call info
  mMaxLine,      \* lines there are
  DrawLineCounts \* what mNumDrawLines may be

ASSUME LinesAssumption ==
  /\ mMaxLine \in Nat \ {0}
  /\ DrawLineCounts \subseteq 1 .. mMaxLine /\ DrawLineCounts # {}

VARIABLES
  mFirstLine,    \* the first line shown
  mLastLine,     \* the last line there is, -1 if none
  mNumDrawLines, \* lines shown at once
  caller,        \* for each task, where it is in info
  past           \* what has happened that undoes a promise of the display

linesVars == << mFirstLine, mLastLine, mNumDrawLines, caller, past >>

\* "tail" and "line" are the local variables of info.
Outside == [ at |-> "out", tail |-> FALSE, line |-> 0 ]
Logging == { t \in Loggers : caller[t].at # "out" }
Following == { t \in Logging : caller[t].tail }
Smaller(a, b) == IF a < b THEN a ELSE b

LinesInit ==
  /\ mFirstLine = 0 /\ mLastLine = -1
  /\ mNumDrawLines = CHOOSE n \in DrawLineCounts : TRUE
  /\ caller = [ t \in Loggers |-> Outside ]
  /\ past = [ torn |-> FALSE, moved |-> FALSE ]

\* info asks whether the last line is the last one shown; two tasks in info at
\* once may each miss the other's line.
Ask(t) ==
  /\ caller[t].at = "out"
  /\ caller' = [ caller EXCEPT ![t] =
       [ @ EXCEPT !.at = "pick",
                  !.tail = (mLastLine = mFirstLine + mNumDrawLines - 1) ] ]
  /\ past' = [ past EXCEPT !.moved = @ \/ Logging # {} ]
  /\ UNCHANGED << mFirstLine, mLastLine, mNumDrawLines >>

\* Mutant: the lines never end.
PickNext(t) ==
  /\ caller[t].at = "pick"
  /\ caller' = [ caller EXCEPT ![t] =
       [ @ EXCEPT !.at = "last", !.line = Smaller(mLastLine + 1, mMaxLine) ] ]
  /\ UNCHANGED << mFirstLine, mLastLine, mNumDrawLines, past >>

\* It picks the line after the last one, or the last one again, and fills it.
Pick(t) ==
  /\ caller[t].at = "pick"
  /\ caller' = [ caller EXCEPT ![t] =
       [ @ EXCEPT !.at = "last", !.line = Smaller(mLastLine + 1, mMaxLine - 1) ] ]
  /\ UNCHANGED << mFirstLine, mLastLine, mNumDrawLines, past >>

\* A task that lagged behind sets the last line back.
SetLast(t) ==
  /\ caller[t].at = "last"
  /\ mLastLine' = caller[t].line
  /\ caller' = [ caller EXCEPT ![t] =
       IF @.tail THEN [ @ EXCEPT !.at = "first" ] ELSE Outside ]
  /\ past' = [ past EXCEPT !.torn = @ \/ /\ caller[t].line < mLastLine
                                         /\ Following \ { t } # {} ]
  /\ UNCHANGED << mFirstLine, mNumDrawLines >>

\* Mutant: one line short.
SetFirstShort(t) ==
  /\ caller[t].at = "first"
  /\ mFirstLine' = mLastLine - mNumDrawLines
  /\ caller' = [ caller EXCEPT ![t] = Outside ]
  /\ UNCHANGED << mLastLine, mNumDrawLines, past >>

\* The display follows the last line, where it is by now.
SetFirst(t) ==
  /\ caller[t].at = "first"
  /\ mFirstLine' = mLastLine - mNumDrawLines + 1
  /\ caller' = [ caller EXCEPT ![t] = Outside ]
  /\ UNCHANGED << mLastLine, mNumDrawLines, past >>

Moved == past' = [ past EXCEPT !.moved = TRUE ]

\* press, a drag: the new position is kept between the top and the tail.
Scroll ==
  /\ mFirstLine' \in
       IF mLastLine <= mNumDrawLines - 1 THEN { 0 }
       ELSE 0 .. mLastLine - mNumDrawLines + 1
  /\ Moved
  /\ UNCHANGED << mLastLine, mNumDrawLines, caller >>

\* press at the upper and at the lower edge.
displayTop ==
  /\ mFirstLine' = 0
  /\ Moved
  /\ UNCHANGED << mLastLine, mNumDrawLines, caller >>

displayTail ==
  /\ mFirstLine' = IF mLastLine > mNumDrawLines - 1
                   THEN mLastLine - mNumDrawLines + 1 ELSE 0
  /\ past' = [ past EXCEPT !.moved = Logging # {} ]
  /\ UNCHANGED << mLastLine, mNumDrawLines, caller >>

\* A long press clears the lines; info may be between its steps.
reset ==
  /\ mLastLine' = -1 /\ mFirstLine' = 0
  /\ past' = [ torn |-> Following # {},
               moved |-> Logging # {} ]
  /\ UNCHANGED << mNumDrawLines, caller >>

\* setShowDebug: the title and the footer take lines or give them back.  The
\* main task calls it before it creates the tasks that log.
setShowDebug ==
  /\ Logging = {}
  /\ mNumDrawLines' \in DrawLineCounts \ { mNumDrawLines }
  /\ Moved
  /\ UNCHANGED << mFirstLine, mLastLine, caller >>

LinesNext ==
  \/ \E t \in Loggers : Ask(t) \/ Pick(t) \/ SetLast(t) \/ SetFirst(t)
  \/ Scroll \/ displayTop \/ displayTail \/ reset \/ setShowDebug

-----------------------------------------------------------------------------
\* The lines that endRender draws.
Drawn == mFirstLine .. Smaller(mFirstLine + mNumDrawLines - 1, mLastLine)

LinesTypeOK ==
  /\ mFirstLine \in -mMaxLine .. mMaxLine - 1
  /\ mLastLine \in -1 .. mMaxLine - 1
  /\ mNumDrawLines \in DrawLineCounts
  /\ caller \in [ Loggers -> [ at : { "out", "pick", "last", "first" },
                               tail : BOOLEAN, line : 0 .. mMaxLine - 1 ] ]
  /\ past \in [ torn : BOOLEAN, moved : BOOLEAN ]

\* endRender indexes mLines with lines that exist, unless the lines were cleared,
\* or the last line set back by a task that lagged behind, after another call of
\* info had decided to make the display follow: mFirstLine may be negative then.
LinesInRange == ~past.torn => Drawn \subseteq 0 .. mMaxLine - 1

\* With no task in info the newest line is on the display, unless somebody
\* scrolled, the number of lines changed or two calls of info overlapped.
NewestIsShown == Logging = {} /\ ~past.moved => mLastLine < mFirstLine + mNumDrawLines
=============================================================================
