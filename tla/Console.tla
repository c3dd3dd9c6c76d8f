------------------------------ MODULE Console ------------------------------
(***************************************************************************)
(* The terminal as the kernel uses it: terminal_putchar of the kernel      *)
(* thread, cut at its loads and stores, and the two interrupt handlers     *)
(* that print, timer_callback (src/kernel/init/main.c), which writes the   *)
(* uptime into the corner and leaves the cursor behind it, and the         *)
(* keyboard's echo (src/drivers/keyboard.c).  Nothing masks interrupts     *)
(* while the thread prints; a handler runs to its end with them off.       *)
(*                                                                         *)
(* terminal_row and terminal_column are ordinary variables: the compiler   *)
(* may keep them in registers (rx and ry) or load them again, so each use  *)
(* takes either value.  The other calls of the driver and the line         *)
(* editor are those of Terminal: handlers run before and after them.       *)
(***************************************************************************)
EXTENDS Terminal

CONSTANTS
    StatusCol,    \* the column timer_callback starts in (70)
    StatusLen,    \* the characters it prints, 11 or more
    Byte,         \* a CRT register holds a byte: 2^8
    EchoKeys      \* the characters the keyboard handler echoes

ASSUME ConsoleAssumption ==
    /\ StatusCol \in 0 .. W - 1
    /\ StatusLen \in Nat
    /\ W < StatusCol + StatusLen /\ StatusCol + StatusLen < 2 * W
    /\ Byte \in Nat \ {0}
    /\ W * H <= Byte * Byte
    /\ EchoKeys \subseteq Printable \cup Control

VARIABLES
    todo,    \* what is left of terminal_putchar, the next step first
    ch,      \* the character being printed
    rx, ry,  \* the registers that may hold terminal_column, terminal_row
    crt,     \* the CRT register that the index port selects
    left,    \* what timer_callback has left to print, 0 outside of it
    calm,    \* history: no handler printed since the last call began
    hit      \* history: a key was echoed in the middle of a call

callVars == <<todo, ch, rx, ry>>
conVars  == <<callVars, crt, left, calm, hit>>
allVars  == <<vars, conVars>>
editVars == <<pc, size, line>>

-----------------------------------------------------------------------------
(***************************************************************************)
(* The thread.                                                             *)
(***************************************************************************)
(* The calls terminal_putchar makes, the last one terminal_move_cursor.    *)
Work(c) ==
    CASE c = "NL"  -> <<"newline", "place">>
      [] c = "CR"  -> <<"return", "place">>
      [] c = "BS"  -> <<"back", "place">>
      [] c = "TAB" -> <<"store", "place", "store", "place",
                        "store", "place", "store", "place", "place">>
      [] OTHER     -> <<"store", "place">>

(* Between calls, with no handler running.  After a key has been echoed    *)
(* into a call nothing more is claimed and the thread stops here.          *)
Quiet == todo = <<>> /\ left = 0 /\ ~ hit

BeginPut(c) ==
    /\ Quiet /\ pc = "idle"
    /\ todo' = Work(c)
    /\ ch' = IF c \in Control THEN Blank ELSE c
    /\ rx' = term.col /\ ry' = term.row
    /\ calm' = TRUE
    /\ UNCHANGED <<vars, crt, left, hit>>

(* The step named label is next; the rest of the call follows.             *)
Step(label) ==
    /\ left = 0 /\ todo # <<>> /\ Head(todo) = label
    /\ UNCHANGED <<editVars, ch, left, calm, hit>>

Then(steps) == todo' = steps \o Tail(todo)

Columns == {rx, term.col}
Rows    == {ry, term.row}

StoreEntry ==
    /\ Step("store")
    /\ \E u \in Columns, v \in Rows :
          /\ term' = terminal_putentryat(term, ch, u, v)
          /\ rx' = u /\ ry' = v
    /\ Then(<<"column">>)
    /\ UNCHANGED crt

(* A fault in Column: the test for the end of the line comes first.        *)
ColumnTestsFirst ==
    /\ Step("column")
    /\ \E u \in Columns :
          /\ term' = [term EXCEPT !.col = (u + 1) % Modulus]
          /\ rx' = (u + 1) % Modulus
          /\ Then(IF u = W THEN <<"newline">> ELSE <<>>)
    /\ UNCHANGED <<ry, crt>>

(* ++terminal_column == VGA_WIDTH                                          *)
Column ==
    /\ Step("column")
    /\ \E u \in Columns :
          /\ term' = [term EXCEPT !.col = (u + 1) % Modulus]
          /\ rx' = (u + 1) % Modulus
          /\ Then(IF (u + 1) % Modulus = W THEN <<"newline">> ELSE <<>>)
    /\ UNCHANGED <<ry, crt>>

(* '\r', and the first store of terminal_newline.                          *)
Return ==
    /\ \/ Step("return") /\ Then(<<>>)
       \/ Step("newline") /\ Then(<<"row">>)
    /\ term' = [term EXCEPT !.col = 0]
    /\ rx' = 0
    /\ UNCHANGED <<ry, crt>>

(* ++terminal_row == VGA_HEIGHT                                            *)
Row ==
    /\ Step("row")
    /\ \E v \in Rows :
          /\ term' = [term EXCEPT !.row = (v + 1) % Modulus]
          /\ ry' = (v + 1) % Modulus
          /\ Then(IF (v + 1) % Modulus = H THEN <<"scroll">> ELSE <<>>)
    /\ UNCHANGED <<rx, crt>>

ScrollUp ==
    /\ Step("scroll")
    /\ term' = terminal_scroll(term, 1)
    /\ Then(<<"clamp">>)
    /\ UNCHANGED <<rx, ry, crt>>

Clamp ==
    /\ Step("clamp")
    /\ term' = [term EXCEPT !.row = H - 1]
    /\ ry' = H - 1
    /\ Then(<<>>)
    /\ UNCHANGED <<rx, crt>>

(* terminal_backspace: the two tests, ...                                  *)
Back ==
    /\ Step("back")
    /\ \E u \in Columns, v \in Rows :
          /\ rx' = u /\ ry' = v
          /\ Then(IF u > 0 THEN <<"left">> ELSE IF v > 0 THEN <<"up">> ELSE <<>>)
    /\ UNCHANGED <<term, crt>>

(* ... the stores in unsigned 16 bits, ...                                 *)
Left ==
    /\ Step("left")
    /\ \E u \in Columns :
          /\ term' = [term EXCEPT !.col = (u - 1) % Modulus]
          /\ rx' = (u - 1) % Modulus
    /\ Then(<<"erase">>)
    /\ UNCHANGED <<ry, crt>>

Up ==
    /\ Step("up")
    /\ \E v \in Rows :
          /\ term' = [term EXCEPT !.row = (v - 1) % Modulus]
          /\ ry' = (v - 1) % Modulus
    /\ Then(<<"margin">>)
    /\ UNCHANGED <<rx, crt>>

Margin ==
    /\ Step("margin")
    /\ term' = [term EXCEPT !.col = W - 1]
    /\ rx' = W - 1
    /\ Then(<<"erase">>)
    /\ UNCHANGED <<ry, crt>>

(* ... and the erasure.                                                    *)
EraseEntry ==
    /\ Step("erase")
    /\ \E u \in Columns, v \in Rows :
          /\ term' = terminal_putentryat(term, Blank, u, v)
          /\ rx' = u /\ ry' = v
    /\ Then(<<"place">>)
    /\ UNCHANGED crt

(* terminal_move_cursor: its arguments, and the first store; ...           *)
Place ==
    /\ Step("place")
    /\ \E u \in Columns, v \in Rows :
          /\ rx' = u /\ ry' = v
          /\ IF u >= W \/ v >= H
             THEN Then(<<>>) /\ UNCHANGED term
             ELSE Then(<<"placed">>) /\ term' = [term EXCEPT !.col = u]
    /\ UNCHANGED crt

(* ... the second one and the index of the high byte; ...                  *)
Placed ==
    /\ Step("placed")
    /\ term' = [term EXCEPT !.row = ry]
    /\ crt' = 14
    /\ Then(<<"high">>)
    /\ UNCHANGED <<rx, ry>>

(* A CRT register written: whichever the index port selects.               *)
Written(hw, register, b) ==
    IF register = 14 THEN b * Byte + (hw % Byte) ELSE (hw \div Byte) * Byte + b

(* ... the high byte; ...                                                  *)
High ==
    /\ Step("high")
    /\ term' = [term EXCEPT !.hw = Written(@, crt, Index(rx, ry) \div Byte)]
    /\ Then(<<"index">>)
    /\ UNCHANGED <<rx, ry, crt>>

(* A fault in SelectLow: the index of the low byte is not written.         *)
SelectNothing ==
    /\ Step("index")
    /\ Then(<<"low">>)
    /\ UNCHANGED <<term, rx, ry, crt>>

SelectLow ==
    /\ Step("index")
    /\ crt' = 15
    /\ Then(<<"low">>)
    /\ UNCHANGED <<term, rx, ry>>

(* ... and the low byte.                                                   *)
Low ==
    /\ Step("low")
    /\ term' = [term EXCEPT !.hw = Written(@, crt, Index(rx, ry) % Byte)]
    /\ Then(<<>>)
    /\ UNCHANGED <<rx, ry, crt>>

Putting ==
    \/ StoreEntry \/ Column \/ Return \/ Row \/ ScrollUp \/ Clamp
    \/ Back \/ Left \/ Up \/ Margin \/ EraseEntry
    \/ Place \/ Placed \/ High \/ SelectLow \/ Low

-----------------------------------------------------------------------------
(***************************************************************************)
(* The handlers.                                                           *)
(***************************************************************************)
(* Taken for terminal_move_cursor: main.c calls it and nothing defines it. *)
terminal_set_cursor_position(t, u, v) == terminal_move_cursor(t, u, v)

(* timer_callback when a second has passed: "Uptime: ", the number, "s ".  *)
timer_callback ==
    /\ left = 0
    /\ term' = terminal_set_cursor_position(term, StatusCol, 0)
    /\ left' = StatusLen
    /\ crt' = 15
    /\ calm' = FALSE
    /\ UNCHANGED <<editVars, callVars, hit>>

StatusChar ==
    /\ left > 0
    /\ \E c \in Printable : term' = PutPlain(term, c)
    /\ left' = left - 1
    /\ UNCHANGED <<editVars, callVars, crt, calm, hit>>

(* keyboard_handler in KEYBOARD_MODE_ECHO.                                 *)
Echo(c) ==
    /\ left = 0 /\ ~ hit
    /\ term' = terminal_putchar(term, c)
    /\ crt' = IF term'.col < W /\ term'.row < H THEN 15 ELSE crt
    /\ calm' = FALSE
    /\ hit' = (todo # <<>>)
    /\ UNCHANGED <<editVars, callVars, left>>

-----------------------------------------------------------------------------
ConInit ==
    /\ Init
    /\ todo = <<>> /\ ch = Blank /\ rx = 0 /\ ry = 0
    /\ crt = 15 /\ left = 0
    /\ calm = TRUE /\ hit = FALSE

(* The calls of Terminal, terminal_putchar excepted.                       *)
Whole ==
    /\ Quiet
    /\ \/ Newline \/ Backspace \/ Delete
       \/ \E n \in 0 .. H + 1 : Scroll(n)
       \/ \E v \in 0 .. H : ClearLine(v)
       \/ ClearFrom \/ ClearTo \/ Clear
       \/ \E u \in 0 .. W, v \in 0 .. H : MoveCursor(u, v)
       \/ Editing
    /\ UNCHANGED conVars

BeginLine ==
    /\ Quiet
    /\ \E n \in LineSizes : Gets(n)
    /\ calm' = TRUE
    /\ UNCHANGED <<callVars, crt, left, hit>>

ConNext ==
    \/ \E c \in Printable \cup Control : BeginPut(c)
    \/ Putting
    \/ Whole \/ BeginLine
    \/ timer_callback \/ StatusChar
    \/ \E c \in EchoKeys : Echo(c)

ConSpec == ConInit /\ [][ConNext]_allVars

-----------------------------------------------------------------------------
(***************************************************************************)
(* No store leaves the screen memory and every call leaves the cursor on   *)
(* the screen, although timer_callback moves the cursor away between any   *)
(* two accesses of terminal_putchar (terminal.c:143-213, main.c:51), and   *)
(* whether or not the compiler reloads the cursor.  It takes a key echoed  *)
(* into a call (keyboard.c:211) to break this.                             *)
(***************************************************************************)
StoresContained ==
    ~ hit => /\ ~ term.oob
             /\ todo = <<>> => term.col < W /\ term.row < H

(***************************************************************************)
(* A call of terminal_putchar during which no handler prints ends with the *)
(* hardware cursor at the terminal's own (terminal.c:162), whatever mix of *)
(* two positions an interrupted call before it has left in the registers.  *)
(***************************************************************************)
CursorFollows ==
    [][todo # <<>> /\ todo' = <<>> /\ calm =>
         term'.hw = Index(term'.col, term'.row)]_allVars

(***************************************************************************)
(* terminal_gets keeps within its buffer (terminal.c:366), and as long as  *)
(* no handler prints, what it has in the buffer is what the user sees in   *)
(* front of the cursor, across wraps, scrolling and erasures.              *)
(***************************************************************************)
EditorSound == LineFits /\ (calm => LineOnScreen)

-----------------------------------------------------------------------------
(***************************************************************************)
(* Why StoresContained holds: in between, the cursor and the registers are *)
(* off the screen only where terminal_putchar is about to bring them back, *)
(* and timer_callback, wherever it strikes, ends in row 1 behind column 0, *)
(* so that neither a test against 0 nor one against the size is outdated.  *)
(***************************************************************************)
Base   == {"store", "place"}
Labels == Base \cup {"newline", "return", "back", "column", "row", "scroll", "clamp",
                     "left", "up", "margin", "erase", "placed", "high", "index", "low"}

Shape(s) == s \in Seq(Labels) /\ \A i \in 2 .. Len(s) : s[i] \in Base

IsAt(s, label) == s # <<>> /\ Head(s) = label

(* A column and a row that a step of the call may meet.                    *)
ColumnFits(s, u) ==
    /\ u \in 0 .. W
    /\ u = W => IsAt(s, "newline")
    /\ IsAt(s, "left") => u > 0

RowFits(s, v) ==
    /\ v \in 0 .. H
    /\ v = H => IsAt(s, "scroll") \/ IsAt(s, "clamp")
    /\ IsAt(s, "up") => v > 0

(* The tests of terminal_backspace are about the register or the cursor.   *)
BackFits ==
    IsAt(todo, "back") => /\ term.col = rx \/ term.col > 0
                          /\ term.row = ry \/ term.row > 0

(* Where timer_callback has got to.                                        *)
StatusFits ==
    LET p == StatusCol + StatusLen - left
    IN \/ p < W /\ term.row = 0 /\ term.col = p
       \/ p >= W /\ term.row = 1 /\ term.col = p - W

Screen == [row : Nat, col : Nat, cell : [Cells -> Printable], hw : Nat, oob : {FALSE}]

ConInv ==
    ~ hit => /\ term \in Screen /\ ch \in Printable
             /\ Shape(todo)
             /\ ColumnFits(todo, rx) /\ RowFits(todo, ry)
             /\ left \in 0 .. StatusLen
             /\ left > 0 => StatusFits
             /\ left = 0 => /\ ColumnFits(todo, term.col)
                            /\ RowFits(todo, term.row)
                            /\ BackFits
=============================================================================
