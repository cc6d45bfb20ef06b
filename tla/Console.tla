------------------------------ MODULE Console ------------------------------
(***************************************************************************)
(* printk as far as the screen: the text buffer and its dirty range        *)
(* (src/Shadow/GFX/Console.C), the back surface the rows are drawn on, and *)
(* the copy to the framebuffer (src/Shadow/GFX/FB.C), as                   *)
(* src/Shadow/Lib/PrintK.C strings them together.                          *)
(*                                                                         *)
(* Nothing is locked.  Whoever prints is cut into single writes, because   *)
(* an exception may come between any two of them: IdtDefaultFault prints   *)
(* its message through the same variables and never returns.  A surface    *)
(* has a row of text where the code has eight rows of pixels.              *)
(***************************************************************************)
EXTENDS Integers, Sequences

CONSTANTS
  ConsoleRows, ConsoleCols,   \* the size of the screen in characters
  CONSOLE_DEFAULT_TAB_WIDTH,
  Glyphs,      \* the characters that are drawn
  LF, CR, TAB, NUL,
  Message,     \* what IdtDefaultFault prints
  Pitches,     \* whether scanlines are "tight" or "padded"
  MaxPrinted   \* bound on the characters printed before the fault

(* The message of IdtDefaultFault begins with a bare line feed             *)
(* (IDT.C:135): that it does is what takes it off the struck row.          *)
ASSUME ConsoleAssumption ==
  /\ {ConsoleRows, ConsoleCols, CONSOLE_DEFAULT_TAB_WIDTH, MaxPrinted} \subseteq Nat \ {0}
  /\ Message \in Seq(Glyphs \cup {LF, CR})
  /\ Message # <<>> /\ Head(Message) = LF
  /\ {LF, CR, TAB, NUL} \cap Glyphs = {} /\ LF \notin {CR, TAB}
  /\ Pitches \subseteq {"tight", "padded"}

VARIABLES
  buffer,      \* ConsoleBuf
  row, col,    \* ConsoleRow, ConsoleCol
  top, bottom, \* DirtyTop, DirtyBottom
  back,        \* the rows as drawn on fb.Back
  front,       \* the rows on the screen
  ready,       \* ConsoleReady
  pitch,       \* how the scanlines of fb.Front lie
  pc, then,    \* where whoever prints is, and where MarkDirty returns to
  char,        \* the character a line was wrapped for, or NUL
  k,           \* the index of a loop over rows
  todo,        \* what is left of the message of a fault
  faulted,     \* IdtDefaultFault has been entered
  struck,      \* the row that was written to when the fault came (history)
  printed      \* characters printed (bound)

screenVars == <<buffer, row, col, top, bottom, back, front, ready, pitch, pc, then, char, k,
                todo, faulted, struck, printed>>
surfaces == <<back, front, ready, pitch>>
caller == <<todo, faulted, struck, printed>>

Rows == 0 .. (ConsoleRows - 1)
Cells == 0 .. ConsoleCols       \* the last one is always NUL
Blank == [c \in Cells |-> NUL]

ScreenTypeOK ==
  /\ buffer \in [Rows -> [Cells -> Glyphs \cup {NUL}]]
  /\ row \in 0 .. (ConsoleRows + 1) /\ col \in Cells
  /\ top \in {-1} \cup Rows /\ bottom \in {-1} \cup Rows
  /\ back \in [Rows -> Seq(Glyphs)] /\ front \in [Rows -> Seq(Glyphs)]
  /\ ready \in BOOLEAN /\ faulted \in BOOLEAN
  /\ char \in Glyphs \cup {NUL}

(* GfxDrawString: a row is drawn up to its first NUL.                      *)
Length(cells) == CHOOSE n \in Cells : cells[n] = NUL /\ \A c \in 0 .. (n - 1) : cells[c] # NUL
Drawn(cells) == [n \in 1 .. Length(cells) |-> cells[n - 1]]

ScreenInit ==
  /\ buffer = [r \in Rows |-> Blank]
  /\ row = 0 /\ col = 0
  /\ top = -1 /\ bottom = -1
  /\ back = [r \in Rows |-> <<>>]
  /\ front = [r \in Rows |-> <<>>]
  /\ ready = FALSE
  /\ pitch \in Pitches
  /\ pc = "idle" /\ then = "print"
  /\ char = NUL
  /\ k = 0
  /\ todo = <<>> /\ faulted = FALSE /\ struck = -1 /\ printed = 0

-----------------------------------------------------------------------------
(* ConsoleInit; without memory for the buffer there is no console.         *)
ConsoleInit ==
  /\ pc = "idle" /\ ~ready /\ ~faulted
  /\ ready' = TRUE
  /\ top' = 0 /\ bottom' = ConsoleRows - 1
  /\ UNCHANGED <<buffer, row, col, back, front, pitch, pc, then, char, k, caller>>

(* printk: ConsoleWrite, which does nothing if there is no console.        *)
Printk ==
  /\ pc = "idle" /\ ~faulted
  /\ pc' = IF ready THEN "print" ELSE "present"
  /\ k' = 0
  /\ UNCHANGED <<buffer, row, col, top, bottom, surfaces, then, char, caller>>

(* IdtDefaultFault, between any two writes.                                *)
Fault ==
  /\ ready /\ ~faulted
  /\ faulted' = TRUE
  /\ struck' = row
  /\ todo' = Message
  /\ pc' = "print" /\ char' = NUL /\ k' = 0
  /\ UNCHANGED <<buffer, row, col, top, bottom, surfaces, then, printed>>

(* The next character of the string: any for the thread, the message's for *)
(* a fault.                                                                *)
Printing(c) ==
  /\ pc = "print"
  /\ IF faulted
     THEN todo # <<>> /\ c = Head(todo) /\ todo' = Tail(todo) /\ UNCHANGED printed
     ELSE printed < MaxPrinted /\ printed' = printed + 1 /\ UNCHANGED todo
  /\ UNCHANGED <<faulted, struck>>

-----------------------------------------------------------------------------
(* ConsolePutc and what it calls.                                          *)
Mark(next) == pc' = "mark" /\ then' = next

PutLineFeed ==
  /\ Printing(LF)
  /\ pc' = "lineFeed"
  /\ UNCHANGED <<buffer, row, col, top, bottom, surfaces, then, char, k>>

PutCarriageReturn ==
  /\ Printing(CR)
  /\ col' = 0
  /\ Mark("print")
  /\ UNCHANGED <<buffer, row, top, bottom, surfaces, char, k>>

Stop(c) == CONSOLE_DEFAULT_TAB_WIDTH * (1 + (c \div CONSOLE_DEFAULT_TAB_WIDTH))

PutTab ==
  /\ Printing(TAB)
  /\ IF Stop(col) >= ConsoleCols
     THEN col' = 0 /\ Mark("lineFeed")
     ELSE col' = Stop(col) /\ Mark("print")
  /\ UNCHANGED <<buffer, row, top, bottom, surfaces, char, k>>

PutGlyph(c) ==
  /\ Printing(c)
  /\ char' = c
  /\ IF col >= ConsoleCols
     THEN col' = 0 /\ Mark("lineFeed")
     ELSE pc' = "cell" /\ UNCHANGED <<col, then>>
  /\ UNCHANGED <<buffer, row, top, bottom, surfaces, k>>

AfterLine == IF char = NUL THEN "print" ELSE "cell"

ConsoleLineFeed ==
  /\ pc = "lineFeed"
  /\ row' = row + 1
  /\ IF row + 1 >= ConsoleRows
     THEN pc' = "scroll" /\ UNCHANGED then
     ELSE Mark(AfterLine)
  /\ k' = 0
  /\ UNCHANGED <<buffer, col, top, bottom, surfaces, char, caller>>

(* ConsoleScroll: the rows move up one by one, the last is cleared, and    *)
(* all are dirty.                                                          *)
ScrollRow ==
  /\ pc = "scroll"
  /\ k < ConsoleRows - 1
  /\ buffer' = [buffer EXCEPT ![k] = buffer[k + 1]]
  /\ k' = k + 1
  /\ UNCHANGED <<row, col, top, bottom, surfaces, pc, then, char, caller>>

ScrollEnds ==
  /\ pc = "scroll"
  /\ k = ConsoleRows - 1
  /\ buffer' = [buffer EXCEPT ![k] = Blank]
  /\ row' = IF row > 0 THEN row - 1 ELSE row
  /\ pc' = "markAll"
  /\ UNCHANGED <<col, top, bottom, surfaces, then, char, k, caller>>

MarkLastDirty ==                \* mutant: only the fresh row is marked
  /\ pc = "markAll"
  /\ IF top < 0 THEN top' = ConsoleRows - 1 ELSE UNCHANGED top
  /\ pc' = "allMarked"
  /\ UNCHANGED <<buffer, row, col, bottom, surfaces, then, char, k, caller>>

MarkAllDirty ==
  /\ pc = "markAll"
  /\ top' = 0
  /\ pc' = "allMarked"
  /\ UNCHANGED <<buffer, row, col, bottom, surfaces, then, char, k, caller>>

AllMarked ==
  /\ pc = "allMarked"
  /\ bottom' = ConsoleRows - 1
  /\ row' = ConsoleRows - 1
  /\ pc' = AfterLine
  /\ UNCHANGED <<buffer, col, top, surfaces, then, char, k, caller>>

WriteCell ==
  /\ pc = "cell"
  /\ buffer' = [buffer EXCEPT ![row][col] = char]
  /\ col' = col + 1
  /\ pc' = "terminator"
  /\ UNCHANGED <<row, top, bottom, surfaces, then, char, k, caller>>

WriteTerminator ==
  /\ pc = "terminator"
  /\ buffer' = [buffer EXCEPT ![row][col] = NUL]
  /\ char' = NUL
  /\ Mark("print")
  /\ UNCHANGED <<row, col, top, bottom, surfaces, k, caller>>

(* MarkDirty, two writes; the upper bound first if nothing is dirty.       *)
MarkDirty ==
  /\ pc = "mark"
  /\ IF row \notin Rows THEN pc' = then /\ UNCHANGED <<top, bottom>>
     ELSE IF top < 0 THEN bottom' = row /\ pc' = "markTop" /\ UNCHANGED top
     ELSE top' = (IF row < top THEN row ELSE top) /\ pc' = "markBottom" /\ UNCHANGED bottom
  /\ UNCHANGED <<buffer, row, col, surfaces, then, char, k, caller>>

MarkTop ==
  /\ pc = "markTop"
  /\ top' = row
  /\ pc' = then
  /\ UNCHANGED <<buffer, row, col, bottom, surfaces, then, char, k, caller>>

MarkBottom ==
  /\ pc = "markBottom"
  /\ bottom' = IF row > bottom THEN row ELSE bottom
  /\ pc' = then
  /\ UNCHANGED <<buffer, row, col, top, surfaces, then, char, k, caller>>

-----------------------------------------------------------------------------
(* The end of the string: ConsoleRedraw, if anything is dirty.             *)
EndOfString ==
  /\ pc = "print"
  /\ faulted => todo = <<>>
  /\ IF top < 0 THEN pc' = "present" /\ k' = 0 ELSE pc' = "redraw" /\ k' = top
  /\ UNCHANGED <<buffer, row, col, top, bottom, surfaces, then, char, caller>>

RedrawRow ==
  /\ pc = "redraw"
  /\ k <= bottom
  /\ back' = [back EXCEPT ![k] = Drawn(buffer[k])]
  /\ k' = k + 1
  /\ UNCHANGED <<buffer, row, col, top, bottom, front, ready, pitch, pc, then, char, caller>>

RedrawEnds ==
  /\ pc = "redraw"
  /\ k > bottom
  /\ top' = -1
  /\ pc' = "clean"
  /\ UNCHANGED <<buffer, row, col, bottom, surfaces, then, char, k, caller>>

Clean ==
  /\ pc = "clean"
  /\ bottom' = -1
  /\ pc' = "present"
  /\ k' = 0
  /\ UNCHANGED <<buffer, row, col, top, surfaces, then, char, caller>>

(* FbPresent: one copy if the scanlines of both surfaces are equally long; *)
(* if not, the loop over pixels knows 24 and 16 bits only.                 *)
PresentRow ==
  /\ pc = "present"
  /\ k < ConsoleRows
  /\ front' = IF pitch = "tight" THEN [front EXCEPT ![k] = back[k]] ELSE front
  /\ k' = k + 1
  /\ UNCHANGED <<buffer, row, col, top, bottom, back, ready, pitch, pc, then, char, caller>>

PresentEnds ==
  /\ pc = "present"
  /\ k = ConsoleRows
  /\ pc' = IF faulted THEN "halted" ELSE "idle"
  /\ UNCHANGED <<buffer, row, col, top, bottom, surfaces, then, char, k, caller>>

ScreenNext ==
  \/ ConsoleInit \/ Printk \/ Fault
  \/ PutLineFeed \/ PutCarriageReturn \/ PutTab \/ (\E c \in Glyphs : PutGlyph(c))
  \/ ConsoleLineFeed \/ ScrollRow \/ ScrollEnds \/ MarkAllDirty \/ AllMarked
  \/ WriteCell \/ WriteTerminator \/ MarkDirty \/ MarkTop \/ MarkBottom
  \/ EndOfString \/ RedrawRow \/ RedrawEnds \/ Clean \/ PresentRow \/ PresentEnds

ScreenSpec == ScreenInit /\ [][ScreenNext]_screenVars

-----------------------------------------------------------------------------
(* Whenever nobody is printing, the back surface shows every row of the    *)
(* buffer; when the machine has halted on a fault that broke into a printk *)
(* at any point, it shows every row but, at worst, the one that was being  *)
(* written to; and no cell outside the buffer is ever written, although    *)
(* the fault may find the cursor below the last row (Console.C:82-151,     *)
(* 234-259).  The screen shows what the back surface does when the         *)
(* scanlines of both are equally long (FB.C:163-164), and only then.       *)
ScreenShowsBuffer ==
  /\ pc \in {"idle", "halted"} /\ ready =>
       \A r \in Rows :
         /\ back[r] = Drawn(buffer[r]) \/ (faulted /\ r = struck)
         /\ pitch = "tight" => front[r] = back[r]
  /\ pc = "cell" => row \in Rows /\ col < ConsoleCols

(* Violated: FbPresent will "Present backbuffer to screen" (FB.C:157).     *)
(* With padded scanlines, which the loader passes on as firmware has them  *)
(* (Graphics.c:63), nothing is copied at 32 bits.                          *)
BackIsPresented == pc = "idle" /\ ready => front = back

(* IDT.C:125: "a real, readable exception with a faulting address": what   *)
(* the handler prints can be read when the machine has halted.             *)
FaultIsReadable ==
  pc = "halted" =>
    \A i \in DOMAIN Message :
      Message[i] \in Glyphs => \E r \in Rows : \E n \in DOMAIN front[r] : front[r][n] = Message[i]
=============================================================================
