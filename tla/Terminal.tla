------------------------------ MODULE Terminal ------------------------------
(***************************************************************************)
(* The VGA text terminal, src/drivers/terminal.c: the cursor, the screen   *)
(* memory, scrolling, and the line editor terminal_gets.                   *)
(*                                                                         *)
(* The terminal is one record: cursor, cells, hardware cursor, and a flag  *)
(* that is raised if a store ever falls outside the screen memory.  Each   *)
(* function of the driver is an operator on that record.  Colours and the  *)
(* bytes of the CRT controller ports are left out.                         *)
(***************************************************************************)
EXTENDS Integers, Sequences

CONSTANTS
    W, H,           \* VGA_WIDTH (80) and VGA_HEIGHT (25)
    Modulus,        \* the cursor is a pair of uint16_t: 2^16
    Printable,      \* the printable characters, the space included
    Keyboard,       \* what terminal_getchar returns ({"NULL"} in the code)
    LineSizes       \* the sizes terminal_gets is called with

ASSUME TerminalAssumption ==
    /\ W \in Nat \ {0, 1}
    /\ H \in Nat \ {0, 1}
    /\ Modulus \in Nat /\ Modulus > W /\ Modulus > H
    /\ "SP" \in Printable /\ Printable \cap {"NL", "CR", "BS", "TAB"} = {}
    /\ LineSizes \subseteq Nat \ {0}

Control == {"NL", "CR", "BS", "TAB"}
Blank   == "SP"
Cells   == 0 .. W * H - 1

VARIABLES
    term,    \* the terminal
    pc,      \* "idle", or "gets" inside terminal_gets
    size,    \* the size argument of terminal_gets
    line     \* what terminal_gets has stored in its buffer

vars == <<term, pc, size, line>>

Index(x, y) == y * W + x

-----------------------------------------------------------------------------
(***************************************************************************)
(* The functions of the driver.                                            *)
(***************************************************************************)
terminal_putentryat(t, c, x, y) ==
    IF Index(x, y) \in Cells
    THEN [t EXCEPT !.cell = [@ EXCEPT ![Index(x, y)] = c]]
    ELSE [t EXCEPT !.oob = TRUE]

(* Out of range positions are ignored.                                     *)
terminal_move_cursor(t, x, y) ==
    IF x >= W \/ y >= H
    THEN t
    ELSE [t EXCEPT !.col = x, !.row = y, !.hw = Index(x, y)]

(* For n > H both loops run zero times.                                    *)
terminal_scroll(t, n) ==
    IF n <= 0 \/ n > H
    THEN t
    ELSE [t EXCEPT !.cell = [i \in Cells |->
            IF i + n * W \in Cells THEN t.cell[i + n * W] ELSE Blank]]

terminal_newline(t) ==
    IF (t.row + 1) % Modulus = H
    THEN [terminal_scroll(t, 1) EXCEPT !.col = 0, !.row = H - 1]
    ELSE [t EXCEPT !.col = 0, !.row = (t.row + 1) % Modulus]

(* A fault in terminal_backspace: it stops at the left margin.             *)
BackspaceStopsAtMargin(t) ==
    IF t.col > 0
    THEN LET x == t.col - 1 IN
         terminal_move_cursor(
             terminal_putentryat([t EXCEPT !.col = x], Blank, x, t.row), x, t.row)
    ELSE t

terminal_backspace(t) ==
    IF t.col > 0
    THEN LET x == t.col - 1 IN
         terminal_move_cursor(
             terminal_putentryat([t EXCEPT !.col = x], Blank, x, t.row), x, t.row)
    ELSE IF t.row > 0
    THEN LET y == t.row - 1 IN
         terminal_move_cursor(
             terminal_putentryat([t EXCEPT !.col = W - 1, !.row = y],
                                 Blank, W - 1, y), W - 1, y)
    ELSE t

(* ++terminal_column, with the wrap to the next line.                      *)
Advance(t) ==
    LET x == (t.col + 1) % Modulus IN
    IF x = W THEN terminal_newline([t EXCEPT !.col = x]) ELSE [t EXCEPT !.col = x]

(* terminal_move_cursor(terminal_column, terminal_row), the last statement *)
(* of terminal_putchar.                                                    *)
Synced(t) == terminal_move_cursor(t, t.col, t.row)

(* terminal_putchar of a character that is stored.                         *)
PutPlain(t, c) == Synced(Advance(terminal_putentryat(t, c, t.col, t.row)))

(* terminal_tab: TAB_SIZE (4) spaces, each through terminal_putchar.       *)
terminal_tab(t) ==
    PutPlain(PutPlain(PutPlain(PutPlain(t, Blank), Blank), Blank), Blank)

terminal_putchar(t, c) ==
    Synced(CASE c = "NL"  -> terminal_newline(t)
             [] c = "CR"  -> [t EXCEPT !.col = 0]
             [] c = "BS"  -> terminal_backspace(t)
             [] c = "TAB" -> terminal_tab(t)
             [] OTHER     -> PutPlain(t, c))

terminal_delete(t) == terminal_putentryat(t, Blank, t.col, t.row)

(* Blank every cell of a set; the cursor stays.                            *)
Erase(t, S) ==
    [t EXCEPT !.cell = [i \in Cells |-> IF i \in S THEN Blank ELSE t.cell[i]]]

terminal_clear_line(t, y) ==
    IF y >= H THEN t ELSE Erase(t, Index(0, y) .. Index(W - 1, y))

terminal_clear_screen_from_cursor(t) == Erase(t, Index(t.col, t.row) .. W * H - 1)

terminal_clear_screen_to_cursor(t) == Erase(t, 0 .. Index(t.col, t.row))

terminal_clear(t) ==
    terminal_move_cursor([Erase(t, Cells) EXCEPT !.row = 0, !.col = 0], 0, 0)

terminal_initialize ==
    [row |-> 0, col |-> 0, cell |-> [i \in Cells |-> Blank], hw |-> 0, oob |-> FALSE]

-----------------------------------------------------------------------------
(***************************************************************************)
(* The callers: the kernel prints, the shell reads lines.                  *)
(***************************************************************************)
Init ==
    /\ term = terminal_initialize
    /\ pc = "idle" /\ size = 0 /\ line = <<>>

Idle(t) ==
    /\ pc = "idle"
    /\ term' = t
    /\ UNCHANGED <<pc, size, line>>

Putchar(c)    == Idle(terminal_putchar(term, c))
Newline       == Idle(terminal_newline(term))
Backspace     == Idle(terminal_backspace(term))
Delete        == Idle(terminal_delete(term))
Scroll(n)     == Idle(terminal_scroll(term, n))
ClearLine(y)  == Idle(terminal_clear_line(term, y))
ClearFrom     == Idle(terminal_clear_screen_from_cursor(term))
ClearTo       == Idle(terminal_clear_screen_to_cursor(term))
Clear         == Idle(terminal_clear(term))
MoveCursor(x, y) == Idle(terminal_move_cursor(term, x, y))

(* terminal_gets (and terminal_read_line) called with a buffer of n bytes. *)
Gets(n) ==
    /\ pc = "idle"
    /\ pc' = IF n > 1 THEN "gets" ELSE "idle"
    /\ size' = n
    /\ line' = <<>>
    /\ UNCHANGED term

(* One turn of its loop with the key terminal_getchar returns: the end of  *)
(* the line, an erasure, a character, or a key that is ignored.  The loop  *)
(* ends by itself when size - 1 characters are stored.                     *)
GetsChar(c) ==
    /\ pc = "gets"
    /\ \/ /\ c = "ENTER"
          /\ term' = terminal_putchar(term, "NL")
          /\ pc' = "idle"
          /\ UNCHANGED line
       \/ /\ c = "BACKSPACE" /\ Len(line) > 0
          /\ line' = SubSeq(line, 1, Len(line) - 1)
          /\ term' = terminal_backspace(term)
          /\ UNCHANGED pc
       \/ /\ c \in Printable
          /\ line' = Append(line, c)
          /\ term' = terminal_putchar(term, c)
          /\ pc' = IF Len(line') < size - 1 THEN "gets" ELSE "idle"
       \/ /\ c \notin Printable \cup {"ENTER"}
          /\ c = "BACKSPACE" => Len(line) = 0
          /\ UNCHANGED <<pc, line, term>>
    /\ UNCHANGED size

Output ==
    \/ \E c \in Printable \cup Control : Putchar(c)
    \/ Newline \/ Backspace \/ Delete
    \/ \E n \in 0 .. H + 1 : Scroll(n)
    \/ \E y \in 0 .. H : ClearLine(y)
    \/ ClearFrom \/ ClearTo \/ Clear
    \/ \E x \in 0 .. W, y \in 0 .. H : MoveCursor(x, y)

Editing == \E c \in Keyboard : GetsChar(c)

Next ==
    \/ Output
    \/ \E n \in LineSizes : Gets(n)
    \/ Editing

Spec == Init /\ [][Next]_vars

-----------------------------------------------------------------------------
(***************************************************************************)
(* Properties.                                                             *)
(***************************************************************************)
(* The states the terminal is kept in: the cursor is on the screen, only   *)
(* printable characters are on it, and no store has left the screen memory. *)
Good == [row : 0 .. H - 1, col : 0 .. W - 1, cell : [Cells -> Printable],
         hw : Nat, oob : {FALSE}]

TypeOK ==
    /\ pc \in {"idle", "gets"}
    /\ size \in LineSizes \cup {0}
    /\ line \in Seq(Printable)

(***************************************************************************)
(* Between any two calls the cursor is on the screen, and no call, with    *)
(* whatever arguments, has stored outside the screen memory.               *)
(***************************************************************************)
Contained == term \in Good

(***************************************************************************)
(* terminal_gets never stores past its buffer: one byte is left for the    *)
(* terminating zero, and only printable characters are in it.              *)
(***************************************************************************)
LineFits == TypeOK /\ (pc = "gets" => Len(line) < size - 1)

(***************************************************************************)
(* What terminal_gets has in its buffer is what the user sees in front of  *)
(* the cursor, across line wraps, scrolling and backspaces over the left   *)
(* margin, as far back as the top of the screen.                           *)
(***************************************************************************)
LineOnScreen ==
    LET pos == Index(term.col, term.row) IN
    pc = "gets" =>
        \A i \in 1 .. Len(line) :
            LET back == Len(line) - i + 1 IN
            back <= pos => term.cell[pos - back] = line[i]

(***************************************************************************)
(* Every printed character leaves the hardware cursor where the terminal's *)
(* own cursor is.                                                          *)
(***************************************************************************)
CursorShown ==
    [][\A c \in Printable \cup Control : Putchar(c) => term'.hw = Index(term'.col, term'.row)]_vars
=============================================================================
