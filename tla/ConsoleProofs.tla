--------------------------- MODULE ConsoleProofs ---------------------------
(***************************************************************************)
(* The terminal keeps its cursor on the screen and its stores inside the   *)
(* screen memory: called by one thread at a time, and with timer_callback  *)
(* interrupting that thread anywhere, for every screen size, every         *)
(* position of the status text that ends in the second line, and every     *)
(* choice between the registers and the variables.                         *)
(***************************************************************************)
EXTENDS Console, TLAPS

-----------------------------------------------------------------------------
(***************************************************************************)
(* The driver, one call at a time.                                         *)
(***************************************************************************)
(* A position on the screen is a cell of the screen memory.                *)
LEMMA IndexInCells ==
    ASSUME NEW x \in 0 .. W - 1, NEW y \in 0 .. H - 1
    PROVE  Index(x, y) \in Cells /\ Index(x, y) \in Nat
<1>1. y * W \in Nat /\ W * H \in Nat
  BY TerminalAssumption
<1>2. y * W <= (H - 1) * W
  BY TerminalAssumption
<1>3. (H - 1) * W = W * H - W
  BY TerminalAssumption
<1> QED BY <1>1, <1>2, <1>3, TerminalAssumption DEF Index, Cells

(* As Good, with the cursor in the columns 0 .. m: terminal_putchar calls   *)
(* terminal_newline with the cursor one past the last column.              *)
Box(m) == [row : 0 .. H - 1, col : 0 .. m, cell : [Cells -> Printable],
           hw : Nat, oob : {FALSE}]

LEMMA GoodIsBox == Good = Box(W - 1)
BY DEF Good, Box

LEMMA SetColumn ==
    ASSUME NEW m \in Nat, NEW t \in Box(m), NEW n \in Nat, NEW x \in 0 .. n
    PROVE  [t EXCEPT !.col = x] \in Box(n)
BY DEF Box

LEMMA SetCells ==
    ASSUME NEW m \in Nat, NEW t \in Box(m), NEW d \in [Cells -> Printable]
    PROVE  [t EXCEPT !.cell = d] \in Box(m)
BY DEF Box

(* A store at a position on the screen keeps everything but that cell.     *)
LEMMA PutEntryGood ==
    ASSUME NEW t \in Good, NEW c \in Printable,
           NEW x \in 0 .. W - 1, NEW y \in 0 .. H - 1
    PROVE  /\ terminal_putentryat(t, c, x, y) \in Good
           /\ terminal_putentryat(t, c, x, y).row = t.row
           /\ terminal_putentryat(t, c, x, y).col = t.col
<1>1. Index(x, y) \in Cells
  BY IndexInCells
<1> DEFINE d == [t.cell EXCEPT ![Index(x, y)] = c]
<1>2. d \in [Cells -> Printable]
  BY <1>1 DEF Good
<1>3. terminal_putentryat(t, c, x, y) = [t EXCEPT !.cell = d]
  BY <1>1 DEF terminal_putentryat
<1> HIDE DEF d
<1> QED BY <1>2, <1>3 DEF Good

(* Moving the cursor to a position on the screen puts it there.            *)
LEMMA MoveCursorGood ==
    ASSUME NEW t \in Good, NEW x \in Nat, NEW y \in Nat
    PROVE  /\ terminal_move_cursor(t, x, y) \in Good
           /\ x < W /\ y < H => /\ terminal_move_cursor(t, x, y).hw = Index(x, y)
                                /\ terminal_move_cursor(t, x, y).col = x
                                /\ terminal_move_cursor(t, x, y).row = y
<1>1. CASE x >= W \/ y >= H
  BY <1>1, TerminalAssumption DEF terminal_move_cursor
<1>2. CASE x < W /\ y < H
  <2>1. x \in 0 .. W - 1 /\ y \in 0 .. H - 1 /\ ~(x >= W \/ y >= H)
    BY <1>2, TerminalAssumption
  <2>2. Index(x, y) \in Nat
    BY <2>1, IndexInCells
  <2>3. terminal_move_cursor(t, x, y)
          = [t EXCEPT !.col = x, !.row = y, !.hw = Index(x, y)]
    BY <2>1 DEF terminal_move_cursor
  <2> QED BY <2>1, <2>2, <2>3 DEF Good
<1> QED BY <1>1, <1>2, TerminalAssumption

(* Scrolling replaces cells and nothing else.                              *)
LEMMA ScrollGood ==
    ASSUME NEW t \in Good, NEW n \in Nat
    PROVE  terminal_scroll(t, n) \in Good
<1> DEFINE d == [i \in Cells |->
                   IF i + n * W \in Cells THEN t.cell[i + n * W] ELSE Blank]
<1>1. d \in [Cells -> Printable]
  BY TerminalAssumption DEF Good, Blank
<1>2. terminal_scroll(t, n) = t \/ terminal_scroll(t, n) = [t EXCEPT !.cell = d]
  BY DEF terminal_scroll
<1> HIDE DEF d
<1> QED BY <1>1, <1>2 DEF Good

(* A newline from any column, the one past the last included.              *)
LEMMA NewlineGood ==
    ASSUME NEW m \in Nat, NEW t \in Box(m)
    PROVE  terminal_newline(t) \in Good
<1>0. 0 \in 0 .. W - 1 /\ H - 1 \in 0 .. H - 1
  BY TerminalAssumption
<1>1. t.row \in 0 .. H - 1 /\ (t.row + 1) % Modulus = t.row + 1
  BY TerminalAssumption DEF Box
<1>2. CASE t.row + 1 = H
  <2> DEFINE d == [i \in Cells |->
                     IF i + 1 * W \in Cells THEN t.cell[i + 1 * W] ELSE Blank]
             u == [t EXCEPT !.cell = d]
  <2>1. d \in [Cells -> Printable]
    BY TerminalAssumption DEF Box, Blank
  <2>2. terminal_scroll(t, 1) = u
    BY TerminalAssumption DEF terminal_scroll
  <2>3. u \in Box(m)
    <3> HIDE DEF d
    <3> QED BY <2>1, SetCells
  <2> HIDE DEF u
  <2>4. terminal_newline(t) = [u EXCEPT !.col = 0, !.row = H - 1]
    BY <1>1, <1>2, <2>2 DEF terminal_newline
  <2>5. [u EXCEPT !.col = 0, !.row = H - 1] \in Good
    BY <1>0, <2>3 DEF Box, Good
  <2> QED BY <2>4, <2>5
<1>3. CASE t.row + 1 # H
  <2>1. terminal_newline(t) = [t EXCEPT !.col = 0, !.row = t.row + 1]
    BY <1>1, <1>3 DEF terminal_newline
  <2>2. t.row + 1 \in 0 .. H - 1
    BY <1>1, <1>3, TerminalAssumption
  <2>3. [t EXCEPT !.col = 0, !.row = t.row + 1] \in Good
    <3> DEFINE y == t.row + 1
    <3> HIDE DEF y
    <3>1. y \in 0 .. H - 1
      BY <2>2 DEF y
    <3>2. [t EXCEPT !.col = 0, !.row = y] \in Good
      BY <1>0, <3>1 DEF Box, Good
    <3> QED BY <3>2 DEF y
  <2> QED BY <2>1, <2>3
<1> QED BY <1>2, <1>3

LEMMA BackspaceGood ==
    ASSUME NEW t \in Good
    PROVE  terminal_backspace(t) \in Good
<1>0. t.col \in 0 .. W - 1 /\ t.row \in 0 .. H - 1 /\ Blank \in Printable
  BY TerminalAssumption DEF Good, Blank
<1>1. CASE t.col > 0
  <2> DEFINE x == t.col - 1
             u == [t EXCEPT !.col = x]
             p == terminal_putentryat(u, Blank, x, t.row)
  <2>0. x \in 0 .. W - 1
    BY <1>0, <1>1, TerminalAssumption
  <2>1. x \in 0 .. W - 1 /\ u \in Good
    <3> HIDE DEF x
    <3> QED BY <2>0, SetColumn, GoodIsBox, TerminalAssumption
  <2>2. p \in Good
    BY <1>0, <2>1, PutEntryGood
  <2>3. terminal_backspace(t) = terminal_move_cursor(p, x, t.row)
    BY <1>1 DEF terminal_backspace
  <2>4. x \in Nat /\ t.row \in Nat
    BY <1>0, <2>1, TerminalAssumption
  <2> HIDE DEF x, p
  <2> QED BY <2>2, <2>3, <2>4, MoveCursorGood
<1>2. CASE ~(t.col > 0) /\ t.row > 0
  <2> DEFINE y == t.row - 1
             u == [t EXCEPT !.col = W - 1, !.row = y]
             p == terminal_putentryat(u, Blank, W - 1, y)
  <2>0. y \in 0 .. H - 1 /\ W - 1 \in 0 .. W - 1
    BY <1>0, <1>2, TerminalAssumption
  <2>1. y \in 0 .. H - 1 /\ W - 1 \in 0 .. W - 1 /\ u \in Good
    <3> HIDE DEF y
    <3> QED BY <2>0 DEF Good
  <2>2. p \in Good
    BY <1>0, <2>1, PutEntryGood
  <2>3. terminal_backspace(t) = terminal_move_cursor(p, W - 1, y)
    BY <1>2 DEF terminal_backspace
  <2>4. y \in Nat /\ W - 1 \in Nat
    BY <2>1, TerminalAssumption
  <2> HIDE DEF y, p
  <2> QED BY <2>2, <2>3, <2>4, MoveCursorGood
<1>3. CASE ~(t.col > 0) /\ ~(t.row > 0)
  BY <1>3 DEF terminal_backspace
<1> QED BY <1>1, <1>2, <1>3

(* terminal_putchar ends with the hardware cursor at the cursor.           *)
LEMMA SyncedGood ==
    ASSUME NEW t \in Good
    PROVE  Synced(t) \in Good /\ Synced(t).hw = Index(Synced(t).col, Synced(t).row)
<1>1. t.col \in Nat /\ t.row \in Nat /\ t.col < W /\ t.row < H
  BY TerminalAssumption DEF Good
<1>2. /\ Synced(t) \in Good
      /\ Synced(t).hw = Index(t.col, t.row)
      /\ Synced(t).col = t.col /\ Synced(t).row = t.row
  BY <1>1, MoveCursorGood DEF Synced
<1> QED BY <1>2

LEMMA AdvanceGood ==
    ASSUME NEW t \in Good
    PROVE  Advance(t) \in Good
<1> DEFINE x == (t.col + 1) % Modulus
<1>1. x = t.col + 1 /\ x \in 0 .. W
  BY TerminalAssumption DEF Good
<1>2. Advance(t) = IF x = W THEN terminal_newline([t EXCEPT !.col = x])
                            ELSE [t EXCEPT !.col = x]
  BY DEF Advance
<1> HIDE DEF x
<1>3. CASE x = W
  BY <1>1, <1>2, <1>3, SetColumn, NewlineGood, GoodIsBox, TerminalAssumption
<1>4. CASE x # W
  <2>1. x \in 0 .. W - 1
    BY <1>1, <1>4, TerminalAssumption
  <2> QED BY <1>2, <1>4, <2>1, SetColumn, GoodIsBox, TerminalAssumption
<1> QED BY <1>3, <1>4

LEMMA PutPlainGood ==
    ASSUME NEW t \in Good, NEW c \in Printable
    PROVE  PutPlain(t, c) \in Good
<1>1. t.col \in 0 .. W - 1 /\ t.row \in 0 .. H - 1
  BY DEF Good
<1>2. terminal_putentryat(t, c, t.col, t.row) \in Good
  BY <1>1, PutEntryGood
<1> QED BY <1>2, AdvanceGood, SyncedGood DEF PutPlain

(* terminal_putchar keeps the terminal well formed and shows the cursor.   *)
LEMMA PutcharGood ==
    ASSUME NEW t \in Good, NEW c \in Printable \cup Control
    PROVE  /\ terminal_putchar(t, c) \in Good
           /\ terminal_putchar(t, c).hw
                = Index(terminal_putchar(t, c).col, terminal_putchar(t, c).row)
<1> DEFINE s == CASE c = "NL"  -> terminal_newline(t)
                  [] c = "CR"  -> [t EXCEPT !.col = 0]
                  [] c = "BS"  -> terminal_backspace(t)
                  [] c = "TAB" -> terminal_tab(t)
                  [] OTHER     -> PutPlain(t, c)
<1>0. 0 \in 0 .. W - 1 /\ Blank \in Printable
  BY TerminalAssumption DEF Blank
<1>1. terminal_newline(t) \in Good
  BY GoodIsBox, NewlineGood, TerminalAssumption
<1>2. [t EXCEPT !.col = 0] \in Good
  BY <1>0, GoodIsBox, SetColumn, TerminalAssumption
<1>3. terminal_backspace(t) \in Good
  BY BackspaceGood
<1>4. terminal_tab(t) \in Good
  BY <1>0, PutPlainGood DEF terminal_tab
<1>5. c \in Printable => PutPlain(t, c) \in Good
  BY PutPlainGood
<1>6. s \in Good
  BY <1>1, <1>2, <1>3, <1>4, <1>5 DEF Control
<1>7. terminal_putchar(t, c) = Synced(s)
  BY DEF terminal_putchar
<1> HIDE DEF s
<1> QED BY <1>6, <1>7, SyncedGood

(* The erasing functions touch cells only.                                 *)
LEMMA EraseGood ==
    ASSUME NEW t \in Good, NEW S
    PROVE  Erase(t, S) \in Good
<1> DEFINE d == [i \in Cells |-> IF i \in S THEN Blank ELSE t.cell[i]]
<1>1. d \in [Cells -> Printable]
  BY TerminalAssumption DEF Good, Blank
<1>2. Erase(t, S) = [t EXCEPT !.cell = d]
  BY DEF Erase
<1> HIDE DEF d
<1> QED BY <1>1, <1>2 DEF Good

LEMMA InitGood == terminal_initialize \in Good
<1>1. 0 \in 0 .. W - 1 /\ 0 \in 0 .. H - 1
  BY TerminalAssumption
<1>2. Index(0, 0) = 0 /\ Index(0, 0) \in Cells
  BY <1>1, IndexInCells, TerminalAssumption DEF Index
<1>3. [i \in Cells |-> Blank] \in [Cells -> Printable]
  BY TerminalAssumption DEF Blank
<1> QED BY <1>1, <1>2, <1>3 DEF terminal_initialize, Good

(* Every call outside terminal_gets.                                       *)
LEMMA PrintGood ==
    ASSUME term \in Good, Output
    PROVE  term' \in Good
<1>1. ASSUME NEW c \in Printable \cup Control, Putchar(c)
      PROVE  term' \in Good
  BY <1>1, PutcharGood DEF Putchar, Idle
<1>2. CASE Newline
  BY <1>2, NewlineGood, GoodIsBox, TerminalAssumption DEF Newline, Idle
<1>3. CASE Backspace
  BY <1>3, BackspaceGood DEF Backspace, Idle
<1>4. CASE Delete
  <2>1. term.col \in 0 .. W - 1 /\ term.row \in 0 .. H - 1 /\ Blank \in Printable
    BY TerminalAssumption DEF Good, Blank
  <2> QED BY <1>4, <2>1, PutEntryGood DEF Delete, Idle, terminal_delete
<1>5. ASSUME NEW n \in 0 .. H + 1, Scroll(n)
      PROVE  term' \in Good
  <2>1. n \in Nat
    BY TerminalAssumption
  <2> QED BY <1>5, <2>1, ScrollGood DEF Scroll, Idle
<1>6. ASSUME NEW y \in 0 .. H, ClearLine(y)
      PROVE  term' \in Good
  BY <1>6, EraseGood DEF ClearLine, Idle, terminal_clear_line
<1>7. CASE ClearFrom \/ ClearTo
  BY <1>7, EraseGood DEF ClearFrom, ClearTo, Idle,
     terminal_clear_screen_from_cursor, terminal_clear_screen_to_cursor
<1>8. CASE Clear
  <2> DEFINE e == Erase(term, Cells)
             u == [e EXCEPT !.row = 0, !.col = 0]
  <2>1. e \in Good
    BY EraseGood
  <2>2. u \in Good
    <3> HIDE DEF e
    <3>1. 0 \in 0 .. W - 1 /\ 0 \in 0 .. H - 1
      BY TerminalAssumption
    <3> QED BY <2>1, <3>1 DEF Good
  <2>3. term' = terminal_move_cursor(u, 0, 0)
    BY <1>8 DEF Clear, Idle, terminal_clear
  <2> HIDE DEF u
  <2> QED BY <2>2, <2>3, MoveCursorGood
<1>9. ASSUME NEW x \in 0 .. W, NEW y \in 0 .. H, MoveCursor(x, y)
      PROVE  term' \in Good
  <2>1. x \in Nat /\ y \in Nat
    BY TerminalAssumption
  <2> QED BY <1>9, <2>1, MoveCursorGood DEF MoveCursor, Idle
<1> QED BY <1>1, <1>2, <1>3, <1>4, <1>5, <1>6, <1>7, <1>8, <1>9 DEF Output

LEMMA NextGood == term \in Good /\ [Next]_vars => term' \in Good
<1> SUFFICES ASSUME term \in Good, [Next]_vars PROVE term' \in Good
  OBVIOUS
<1>1. CASE Output
  BY <1>1, PrintGood
<1>2. ASSUME NEW n \in LineSizes, Gets(n)
      PROVE  term' \in Good
  BY <1>2 DEF Gets
<1>3. ASSUME NEW c \in Keyboard, GetsChar(c)
      PROVE  term' \in Good
  <2>1. "NL" \in Printable \cup Control
    BY DEF Control
  <2> QED BY <1>3, <2>1, PutcharGood, BackspaceGood DEF GetsChar
<1>4. CASE UNCHANGED vars
  BY <1>4 DEF vars
<1> QED BY <1>1, <1>2, <1>3, <1>4 DEF Next, Editing

(***************************************************************************)
(* No sequence of calls moves the cursor off the screen or stores outside  *)
(* the screen memory, for every screen size.                               *)
(***************************************************************************)
THEOREM ContainedAlways == Spec => []Contained
<1>1. Init => Contained
  BY InitGood DEF Init, Contained
<1>2. Contained /\ [Next]_vars => Contained'
  BY NextGood DEF Contained
<1> QED BY <1>1, <1>2, PTL DEF Spec

(***************************************************************************)
(* Every printed character leaves the hardware cursor where the terminal's *)
(* own cursor is.                                                          *)
(***************************************************************************)
THEOREM CursorShownAlways == Spec => CursorShown
<1>1. Contained /\ [Next]_vars
        => [\A c \in Printable \cup Control :
                Putchar(c) => term'.hw = Index(term'.col, term'.row)]_vars
  BY PutcharGood DEF Contained, Putchar, Idle
<1> QED BY <1>1, ContainedAlways, PTL DEF Spec, CursorShown

-----------------------------------------------------------------------------
(***************************************************************************)
(* The driver with its interrupts.                                         *)
(***************************************************************************)
(* The steps that are left of a call.                                      *)
LEMMA ShapePush ==
    ASSUME NEW s, Shape(s), s # <<>>, NEW label \in Labels
    PROVE  /\ Shape(<<label>> \o Tail(s))
           /\ <<label>> \o Tail(s) # <<>>
           /\ Head(<<label>> \o Tail(s)) = label
<1> DEFINE t == <<label>> \o Tail(s)
<1>1. s \in Seq(Labels) /\ Tail(s) \in Seq(Labels) /\ Len(Tail(s)) = Len(s) - 1
  BY DEF Shape
<1>2. t \in Seq(Labels) /\ Len(t) = Len(s) /\ t[1] = label
  BY <1>1
<1>3. \A i \in 2 .. Len(t) : t[i] = s[i]
  BY <1>1, <1>2
<1> QED BY <1>1, <1>2, <1>3 DEF Shape

LEMMA ShapePop ==
    ASSUME NEW s, Shape(s), s # <<>>
    PROVE  /\ Shape(<<>> \o Tail(s))
           /\ <<>> \o Tail(s) # <<>> => Head(<<>> \o Tail(s)) \in Base
<1>1. s \in Seq(Labels) /\ Tail(s) \in Seq(Labels) /\ Len(Tail(s)) = Len(s) - 1
  BY DEF Shape
<1>2. <<>> \o Tail(s) = Tail(s)
  BY <1>1
<1>3. \A i \in 1 .. Len(Tail(s)) : Tail(s)[i] = s[i + 1] /\ i + 1 \in 2 .. Len(s)
  BY <1>1
<1>4. \A i \in 1 .. Len(Tail(s)) : Tail(s)[i] \in Base
  BY <1>3 DEF Shape
<1>5. Tail(s) # <<>> => Head(Tail(s)) = Tail(s)[1] /\ 1 \in 1 .. Len(Tail(s))
  BY <1>1
<1> QED BY <1>1, <1>2, <1>4, <1>5 DEF Shape

LEMMA WorkShape ==
    ASSUME NEW c
    PROVE  /\ Shape(Work(c)) /\ Work(c) # <<>>
           /\ Head(Work(c)) \in {"newline", "return", "back", "store"}
<1>1. CASE c = "NL"
  BY <1>1 DEF Work, Shape, Labels, Base
<1>2. CASE c = "CR"
  BY <1>2 DEF Work, Shape, Labels, Base
<1>3. CASE c = "BS"
  BY <1>3 DEF Work, Shape, Labels, Base
<1>4. CASE c = "TAB"
  BY <1>4 DEF Work, Shape, Labels, Base
<1>5. CASE c \notin {"NL", "CR", "BS", "TAB"}
  <2>1. c # "NL" /\ c # "CR" /\ c # "BS" /\ c # "TAB"
    BY <1>5
  <2>2. Work(c) = <<"store", "place">>
    BY <2>1, Zenon DEF Work
  <2> QED BY <2>2 DEF Shape, Labels, Base
<1> QED BY <1>1, <1>2, <1>3, <1>4, <1>5

-----------------------------------------------------------------------------
(* A position on the screen fits any step but the two that decrease it; a  *)
(* position behind column 0 and below row 0 fits them all.                 *)
LEMMA Fits ==
    ASSUME NEW s, NEW u \in 0 .. W - 1, NEW v \in 0 .. H - 1
    PROVE  /\ ~ IsAt(s, "left") \/ u > 0 => ColumnFits(s, u)
           /\ ~ IsAt(s, "up") \/ v > 0 => RowFits(s, v)
BY TerminalAssumption DEF ColumnFits, RowFits

(* The screen with the cursor on it.                                       *)
LEMMA Narrow ==
    ASSUME NEW A, NEW B, NEW C, NEW D, NEW E, NEW N, NEW F,
           NEW t \in [row : A, col : B, cell : E, hw : N, oob : F],
           t.row \in C, t.col \in D
    PROVE  t \in [row : C, col : D, cell : E, hw : N, oob : F]
OBVIOUS

LEMMA ScreenGood ==
    ASSUME NEW t \in Screen, t.col < W, t.row < H
    PROVE  t \in Good
<1>1. t.col \in Nat /\ t.row \in Nat
  BY DEF Screen
<1>2. t.col \in 0 .. W - 1 /\ t.row \in 0 .. H - 1
  BY <1>1, TerminalAssumption
<1> QED BY <1>2, Narrow DEF Screen, Good

LEMMA GoodScreen ==
    ASSUME NEW t \in Good
    PROVE  t \in Screen /\ t.col \in 0 .. W - 1 /\ t.row \in 0 .. H - 1
<1>1. t.col \in 0 .. W - 1 /\ t.row \in 0 .. H - 1
  BY DEF Good
<1>2. t.col \in Nat /\ t.row \in Nat
  BY <1>1, TerminalAssumption
<1> QED BY <1>1, <1>2, Narrow DEF Screen, Good

LEMMA ScrollScreen ==
    ASSUME NEW t \in Screen
    PROVE  /\ terminal_scroll(t, 1) \in Screen
           /\ terminal_scroll(t, 1).col = t.col
           /\ terminal_scroll(t, 1).row = t.row
<1> DEFINE d == [i \in Cells |->
                   IF i + 1 * W \in Cells THEN t.cell[i + 1 * W] ELSE Blank]
<1>1. d \in [Cells -> Printable]
  BY TerminalAssumption DEF Screen, Blank
<1>2. terminal_scroll(t, 1) = [t EXCEPT !.cell = d]
  BY TerminalAssumption DEF terminal_scroll
<1> HIDE DEF d
<1> QED BY <1>1, <1>2 DEF Screen

(* The part of the invariant that a step of the thread keeps.              *)
Kept ==
    /\ term \in Screen /\ ch \in Printable
    /\ Shape(todo)
    /\ ColumnFits(todo, rx) /\ RowFits(todo, ry)
    /\ ColumnFits(todo, term.col) /\ RowFits(todo, term.row)
    /\ BackFits

LEMMA KeptInv == left = 0 /\ ~ hit => (ConInv <=> Kept)
<1>1. 0 \in 0 .. StatusLen
  BY ConsoleAssumption
<1> QED BY <1>1 DEF ConInv, Kept

(* What a step that pushes label, or ends, has to show.                    *)
LEMMA KeptPush ==
    ASSUME NEW label \in Labels, Kept, todo # <<>>, Then(<<label>>), UNCHANGED ch
    PROVE  /\ Shape(todo') /\ ch' \in Printable
           /\ \A l : IsAt(todo', l) <=> l = label
BY ShapePush DEF Kept, Then, IsAt

LEMMA KeptPop ==
    ASSUME Kept, todo # <<>>, Then(<<>>), UNCHANGED ch
    PROVE  /\ Shape(todo') /\ ch' \in Printable
           /\ \A l : l \notin Base => ~ IsAt(todo', l)
BY ShapePop DEF Kept, Then, IsAt

(* The cursor and the registers at a step other than the special ones.     *)
LEMMA KeptInside ==
    ASSUME Kept, ~ IsAt(todo, "newline"), ~ IsAt(todo, "scroll"), ~ IsAt(todo, "clamp")
    PROVE  /\ rx \in 0 .. W - 1 /\ ry \in 0 .. H - 1
           /\ term.col \in 0 .. W - 1 /\ term.row \in 0 .. H - 1
           /\ term \in Good
<1>1. /\ rx \in 0 .. W - 1 /\ ry \in 0 .. H - 1
      /\ term.col \in 0 .. W - 1 /\ term.row \in 0 .. H - 1
  BY TerminalAssumption DEF Kept, ColumnFits, RowFits
<1>2. term \in Screen /\ term.col < W /\ term.row < H
  BY <1>1, TerminalAssumption DEF Kept
<1> QED BY <1>1, <1>2, ScreenGood

(* A state whose cursor and registers are on the screen, at a step that is *)
(* none of the special ones.                                               *)
LEMMA InsideKept ==
    ASSUME (term \in Good)', (ch \in Printable)', Shape(todo)',
           (rx \in 0 .. W - 1)', (ry \in 0 .. H - 1)',
           \A l \in {"left", "up", "back"} : ~ IsAt(todo, l)'
    PROVE  Kept'
<1>1. (term \in Screen /\ term.col \in 0 .. W - 1 /\ term.row \in 0 .. H - 1)'
  BY GoodScreen
<1>2. ~ IsAt(todo', "left") /\ ~ IsAt(todo', "up") /\ ~ IsAt(todo', "back")
  OBVIOUS
<1>3. /\ ColumnFits(todo', rx') /\ RowFits(todo', ry')
      /\ ColumnFits(todo', term.col') /\ RowFits(todo', term.row')
  BY <1>1, <1>2, Fits
<1>4. BackFits'
  BY <1>2 DEF BackFits
<1> QED BY <1>1, <1>3, <1>4 DEF Kept

-----------------------------------------------------------------------------
(* The steps of terminal_putchar, one lemma for those that store a         *)
(* character, one for each of the others.                                  *)
LEMMA StoreKept == Kept /\ (StoreEntry \/ EraseEntry) => Kept'
<1> SUFFICES ASSUME Kept, StoreEntry \/ EraseEntry PROVE Kept'
  OBVIOUS
<1>0. Blank \in Printable
  BY TerminalAssumption DEF Blank
<1>1. PICK c \in Printable, label \in {"column", "place"}, u \in Columns, v \in Rows :
        /\ term' = terminal_putentryat(term, c, u, v)
        /\ rx' = u /\ ry' = v
        /\ todo # <<>> /\ (IsAt(todo, "store") \/ IsAt(todo, "erase"))
        /\ Then(<<label>>) /\ UNCHANGED ch
  BY <1>0 DEF StoreEntry, EraseEntry, Step, Kept, IsAt
<1>2. ~ IsAt(todo, "newline") /\ ~ IsAt(todo, "scroll") /\ ~ IsAt(todo, "clamp")
  BY <1>1 DEF IsAt
<1>3. u \in 0 .. W - 1 /\ v \in 0 .. H - 1 /\ term \in Good
  BY <1>2, KeptInside DEF Columns, Rows
<1>4. term' \in Good
  BY <1>1, <1>3, PutEntryGood
<1>5. label \in Labels
  BY DEF Labels, Base
<1>6. Shape(todo') /\ ch' \in Printable /\ \A l : IsAt(todo', l) <=> l = label
  BY <1>1, <1>5, KeptPush
<1> QED BY <1>1, <1>3, <1>4, <1>6, InsideKept

LEMMA ColumnKept == Kept /\ Column => Kept'
<1> SUFFICES ASSUME Kept, Column PROVE Kept'
  OBVIOUS
<1>1. IsAt(todo, "column") /\ todo # <<>> /\ UNCHANGED <<ch, ry>>
  BY DEF Column, Step, IsAt
<1>2. ~ IsAt(todo, "newline") /\ ~ IsAt(todo, "scroll") /\ ~ IsAt(todo, "clamp")
  BY <1>1 DEF IsAt
<1>3. /\ term \in Good /\ ry \in 0 .. H - 1 /\ term.row \in 0 .. H - 1
      /\ \A u \in Columns : u \in 0 .. W - 1
  BY <1>2, KeptInside DEF Columns
<1>4. PICK u \in Columns :
        /\ term' = [term EXCEPT !.col = (u + 1) % Modulus]
        /\ rx' = (u + 1) % Modulus
        /\ Then(IF (u + 1) % Modulus = W THEN <<"newline">> ELSE <<>>)
  BY DEF Column
<1>5. (u + 1) % Modulus = u + 1 /\ u + 1 \in 0 .. W
  BY <1>3, TerminalAssumption
<1>6. term \in Screen
  BY DEF Kept
<1>7. CASE u + 1 = W
  <2>1. "newline" \in Labels /\ Then(<<"newline">>)
    BY <1>4, <1>5, <1>7 DEF Labels
  <2>2. Shape(todo') /\ ch' \in Printable /\ \A l : IsAt(todo', l) <=> l = "newline"
    BY <1>1, <2>1, KeptPush
  <2>3. term' \in Screen /\ term'.col = W /\ term'.row = term.row /\ rx' = W
    BY <1>4, <1>5, <1>6, <1>7, TerminalAssumption DEF Screen
  <2>4. ColumnFits(todo', W)
    BY <2>2, TerminalAssumption DEF ColumnFits
  <2>5. RowFits(todo', ry') /\ RowFits(todo', term'.row)
    BY <1>1, <1>3, <2>2, <2>3, Fits, TerminalAssumption
  <2>6. BackFits'
    BY <2>2 DEF BackFits
  <2> QED BY <2>2, <2>3, <2>4, <2>5, <2>6 DEF Kept
<1>8. CASE u + 1 # W
  <2>1. Then(<<>>)
    BY <1>4, <1>5, <1>8
  <2>2. Shape(todo') /\ ch' \in Printable /\ \A l : l \notin Base => ~ IsAt(todo', l)
    BY <1>1, <2>1, KeptPop
  <2>3. u + 1 \in 0 .. W - 1
    BY <1>5, <1>8, TerminalAssumption
  <2>4. term' \in Good /\ rx' \in 0 .. W - 1 /\ ry' \in 0 .. H - 1
    <3> DEFINE z == u + 1
    <3>1. z \in 0 .. W - 1 /\ term' = [term EXCEPT !.col = z] /\ rx' = z
      BY <1>4, <1>5, <2>3
    <3> HIDE DEF z
    <3> QED BY <1>1, <1>3, <3>1, SetColumn, GoodIsBox, TerminalAssumption
  <2> QED BY <2>2, <2>4, InsideKept DEF Base
<1> QED BY <1>7, <1>8

LEMMA ReturnKept == Kept /\ Return => Kept'
<1> SUFFICES ASSUME Kept, Return PROVE Kept'
  OBVIOUS
<1>1. /\ todo # <<>> /\ (IsAt(todo, "return") \/ IsAt(todo, "newline"))
      /\ UNCHANGED <<ch, ry>> /\ rx' = 0 /\ term' = [term EXCEPT !.col = 0]
      /\ Then(<<>>) \/ Then(<<"row">>)
  BY DEF Return, Step, IsAt
<1>2. ~ IsAt(todo, "scroll") /\ ~ IsAt(todo, "clamp")
  BY <1>1 DEF IsAt
<1>3. ry \in 0 .. H - 1 /\ term.row \in 0 .. H - 1 /\ term \in Screen
  BY <1>2, TerminalAssumption DEF Kept, RowFits
<1>4. term' \in Screen /\ term'.col = 0 /\ term'.row = term.row
  BY <1>1, <1>3 DEF Screen
<1>5. term' \in Good
  BY <1>3, <1>4, ScreenGood, TerminalAssumption
<1>6. rx' \in 0 .. W - 1 /\ ry' \in 0 .. H - 1
  BY <1>1, <1>3, TerminalAssumption
<1>7. "row" \in Labels
  BY DEF Labels
<1>8. /\ Shape(todo') /\ ch' \in Printable
      /\ \A l : l \notin Base \cup {"row"} => ~ IsAt(todo', l)
  BY <1>1, <1>7, KeptPush, KeptPop
<1> QED BY <1>5, <1>6, <1>8, InsideKept DEF Base

LEMMA RowKept == Kept /\ Row => Kept'
<1> SUFFICES ASSUME Kept, Row PROVE Kept'
  OBVIOUS
<1>1. IsAt(todo, "row") /\ todo # <<>> /\ UNCHANGED <<ch, rx>>
  BY DEF Row, Step, IsAt
<1>2. ~ IsAt(todo, "newline") /\ ~ IsAt(todo, "scroll") /\ ~ IsAt(todo, "clamp")
  BY <1>1 DEF IsAt
<1>3. /\ term \in Screen /\ rx \in 0 .. W - 1 /\ term.col \in 0 .. W - 1
      /\ \A v \in Rows : v \in 0 .. H - 1
  BY <1>2, KeptInside DEF Rows, Kept
<1>4. PICK v \in Rows :
        /\ term' = [term EXCEPT !.row = (v + 1) % Modulus]
        /\ ry' = (v + 1) % Modulus
        /\ Then(IF (v + 1) % Modulus = H THEN <<"scroll">> ELSE <<>>)
  BY DEF Row
<1>5. (v + 1) % Modulus = v + 1 /\ v + 1 \in 0 .. H /\ v + 1 \in Nat
  BY <1>3, TerminalAssumption
<1>6. term' \in Screen /\ term'.col = term.col /\ term'.row = v + 1 /\ ry' = v + 1
  BY <1>3, <1>4, <1>5 DEF Screen
<1>7. CASE v + 1 = H
  <2>1. "scroll" \in Labels /\ Then(<<"scroll">>)
    BY <1>4, <1>5, <1>7 DEF Labels
  <2>2. Shape(todo') /\ ch' \in Printable /\ \A l : IsAt(todo', l) <=> l = "scroll"
    BY <1>1, <2>1, KeptPush
  <2>3. RowFits(todo', H)
    BY <2>2, TerminalAssumption DEF RowFits
  <2>4. ColumnFits(todo', rx') /\ ColumnFits(todo', term'.col)
    BY <1>1, <1>3, <1>6, <2>2, Fits, TerminalAssumption
  <2>5. BackFits'
    BY <2>2 DEF BackFits
  <2> QED BY <1>6, <1>7, <2>2, <2>3, <2>4, <2>5 DEF Kept
<1>8. CASE v + 1 # H
  <2>1. Then(<<>>)
    BY <1>4, <1>5, <1>8
  <2>2. Shape(todo') /\ ch' \in Printable /\ \A l : l \notin Base => ~ IsAt(todo', l)
    BY <1>1, <2>1, KeptPop
  <2>3. v + 1 \in 0 .. H - 1
    BY <1>5, <1>8, TerminalAssumption
  <2>4. term' \in Good
    BY <1>3, <1>6, <2>3, ScreenGood, TerminalAssumption
  <2> QED BY <1>1, <1>3, <1>6, <2>2, <2>3, <2>4, InsideKept DEF Base
<1> QED BY <1>7, <1>8

LEMMA ScrollKept == Kept /\ ScrollUp => Kept'
<1> SUFFICES ASSUME Kept, ScrollUp PROVE Kept'
  OBVIOUS
<1>1. /\ IsAt(todo, "scroll") /\ todo # <<>> /\ UNCHANGED <<ch, rx, ry>>
      /\ term' = terminal_scroll(term, 1) /\ Then(<<"clamp">>)
  BY DEF ScrollUp, Step, IsAt
<1>2. term' \in Screen /\ term'.col = term.col /\ term'.row = term.row
  BY <1>1, ScrollScreen DEF Kept
<1>3. "clamp" \in Labels
  BY DEF Labels
<1>4. Shape(todo') /\ ch' \in Printable /\ \A l : IsAt(todo', l) <=> l = "clamp"
  BY <1>1, <1>3, KeptPush
<1>5. \A u : ColumnFits(todo, u) => ColumnFits(todo', u)
  BY <1>1, <1>4 DEF ColumnFits, IsAt
<1>6. \A v : RowFits(todo, v) => RowFits(todo', v)
  BY <1>1, <1>4 DEF RowFits, IsAt
<1>7. BackFits'
  BY <1>4 DEF BackFits
<1> QED BY <1>1, <1>2, <1>4, <1>5, <1>6, <1>7 DEF Kept

LEMMA ClampKept == Kept /\ Clamp => Kept'
<1> SUFFICES ASSUME Kept, Clamp PROVE Kept'
  OBVIOUS
<1>1. /\ IsAt(todo, "clamp") /\ todo # <<>> /\ UNCHANGED <<ch, rx>>
      /\ term' = [term EXCEPT !.row = H - 1] /\ ry' = H - 1 /\ Then(<<>>)
  BY DEF Clamp, Step, IsAt
<1>2. ~ IsAt(todo, "newline") /\ H - 1 \in Nat /\ H - 1 \in 0 .. H - 1
  BY <1>1, TerminalAssumption DEF IsAt
<1>3. rx \in 0 .. W - 1 /\ term.col \in 0 .. W - 1 /\ term \in Screen
  BY <1>2, TerminalAssumption DEF Kept, ColumnFits
<1>4. term' \in Screen /\ term'.col = term.col /\ term'.row = H - 1
  BY <1>1, <1>2, <1>3 DEF Screen
<1>5. term' \in Good
  BY <1>3, <1>4, ScreenGood, TerminalAssumption
<1>6. Shape(todo') /\ ch' \in Printable /\ \A l : l \notin Base => ~ IsAt(todo', l)
  BY <1>1, KeptPop
<1> QED BY <1>1, <1>2, <1>3, <1>5, <1>6, InsideKept DEF Base

(* The one place where the cursor may not be the register that was tested: *)
(* it is then where timer_callback left it, behind column 0 and row 0.     *)
LEMMA BackKept == Kept /\ Back => Kept'
<1> SUFFICES ASSUME Kept, Back PROVE Kept'
  OBVIOUS
<1>1. IsAt(todo, "back") /\ todo # <<>> /\ UNCHANGED <<ch, term>>
  BY DEF Back, Step, IsAt
<1>2. ~ IsAt(todo, "newline") /\ ~ IsAt(todo, "scroll") /\ ~ IsAt(todo, "clamp")
  BY <1>1 DEF IsAt
<1>3. /\ term \in Good /\ term \in Screen
      /\ term.col \in 0 .. W - 1 /\ term.row \in 0 .. H - 1
      /\ \A u \in Columns : u \in 0 .. W - 1
      /\ \A v \in Rows : v \in 0 .. H - 1
  BY <1>2, KeptInside DEF Columns, Rows, Kept
<1>4. PICK u \in Columns, v \in Rows :
        /\ rx' = u /\ ry' = v
        /\ Then(IF u > 0 THEN <<"left">> ELSE IF v > 0 THEN <<"up">> ELSE <<>>)
  BY DEF Back
<1>5. /\ u > 0 => term.col > 0
      /\ v > 0 => term.row > 0
  BY <1>1 DEF Kept, BackFits, Columns, Rows
<1>6. CASE u > 0
  <2>1. "left" \in Labels /\ Then(<<"left">>)
    BY <1>4, <1>6 DEF Labels
  <2>2. Shape(todo') /\ ch' \in Printable /\ \A l : IsAt(todo', l) <=> l = "left"
    BY <1>1, <2>1, KeptPush
  <2>3. /\ ColumnFits(todo', rx') /\ RowFits(todo', ry')
        /\ ColumnFits(todo', term'.col) /\ RowFits(todo', term'.row)
    BY <1>1, <1>3, <1>4, <1>5, <1>6, <2>2, Fits
  <2>4. BackFits'
    BY <2>2 DEF BackFits
  <2> QED BY <1>1, <1>3, <2>2, <2>3, <2>4 DEF Kept
<1>7. CASE ~(u > 0) /\ v > 0
  <2>1. "up" \in Labels /\ Then(<<"up">>)
    BY <1>4, <1>7 DEF Labels
  <2>2. Shape(todo') /\ ch' \in Printable /\ \A l : IsAt(todo', l) <=> l = "up"
    BY <1>1, <2>1, KeptPush
  <2>3. /\ ColumnFits(todo', rx') /\ RowFits(todo', ry')
        /\ ColumnFits(todo', term'.col) /\ RowFits(todo', term'.row)
    BY <1>1, <1>3, <1>4, <1>5, <1>7, <2>2, Fits
  <2>4. BackFits'
    BY <2>2 DEF BackFits
  <2> QED BY <1>1, <1>3, <2>2, <2>3, <2>4 DEF Kept
<1>8. CASE ~(u > 0) /\ ~(v > 0)
  <2>1. Then(<<>>)
    BY <1>4, <1>8
  <2>2. Shape(todo') /\ ch' \in Printable /\ \A l : l \notin Base => ~ IsAt(todo', l)
    BY <1>1, <2>1, KeptPop
  <2> QED BY <1>1, <1>3, <1>4, <2>2, InsideKept DEF Base
<1> QED BY <1>6, <1>7, <1>8

LEMMA LeftKept == Kept /\ Left => Kept'
<1> SUFFICES ASSUME Kept, Left PROVE Kept'
  OBVIOUS
<1>1. IsAt(todo, "left") /\ todo # <<>> /\ UNCHANGED <<ch, ry>> /\ Then(<<"erase">>)
  BY DEF Left, Step, IsAt
<1>2. ~ IsAt(todo, "newline") /\ ~ IsAt(todo, "scroll") /\ ~ IsAt(todo, "clamp")
  BY <1>1 DEF IsAt
<1>3. /\ term \in Good /\ ry \in 0 .. H - 1
      /\ \A u \in Columns : u \in 0 .. W - 1
  BY <1>2, KeptInside DEF Columns
<1>4. \A u \in Columns : u > 0
  BY <1>1 DEF Kept, ColumnFits, Columns
<1>5. PICK u \in Columns :
        term' = [term EXCEPT !.col = (u - 1) % Modulus] /\ rx' = (u - 1) % Modulus
  BY DEF Left
<1> DEFINE z == (u - 1) % Modulus
<1>6. z \in 0 .. W - 1
  BY <1>3, <1>4, TerminalAssumption
<1>7. term' = [term EXCEPT !.col = z] /\ rx' = z
  BY <1>5
<1> HIDE DEF z
<1>8. term' \in Good
  BY <1>3, <1>6, <1>7, SetColumn, GoodIsBox, TerminalAssumption
<1>9. "erase" \in Labels
  BY DEF Labels
<1>10. Shape(todo') /\ ch' \in Printable /\ \A l : IsAt(todo', l) <=> l = "erase"
  BY <1>1, <1>9, KeptPush
<1> QED BY <1>1, <1>3, <1>6, <1>7, <1>8, <1>10, InsideKept

LEMMA UpKept == Kept /\ Up => Kept'
<1> SUFFICES ASSUME Kept, Up PROVE Kept'
  OBVIOUS
<1>1. IsAt(todo, "up") /\ todo # <<>> /\ UNCHANGED <<ch, rx>> /\ Then(<<"margin">>)
  BY DEF Up, Step, IsAt
<1>2. ~ IsAt(todo, "newline") /\ ~ IsAt(todo, "scroll") /\ ~ IsAt(todo, "clamp")
  BY <1>1 DEF IsAt
<1>3. /\ term \in Screen /\ term.col \in 0 .. W - 1 /\ rx \in 0 .. W - 1
      /\ \A v \in Rows : v \in 0 .. H - 1
  BY <1>2, KeptInside DEF Rows, Kept
<1>4. \A v \in Rows : v > 0
  BY <1>1 DEF Kept, RowFits, Rows
<1>5. PICK v \in Rows :
        term' = [term EXCEPT !.row = (v - 1) % Modulus] /\ ry' = (v - 1) % Modulus
  BY DEF Up
<1> DEFINE z == (v - 1) % Modulus
<1>6. z \in 0 .. H - 1 /\ z \in Nat
  BY <1>3, <1>4, TerminalAssumption
<1>7. term' = [term EXCEPT !.row = z] /\ ry' = z
  BY <1>5
<1> HIDE DEF z
<1>8. term' \in Screen /\ term'.row = z /\ term'.col = term.col
  BY <1>3, <1>6, <1>7 DEF Screen
<1>9. term' \in Good
  BY <1>3, <1>6, <1>8, ScreenGood, TerminalAssumption
<1>10. "margin" \in Labels
  BY DEF Labels
<1>11. Shape(todo') /\ ch' \in Printable /\ \A l : IsAt(todo', l) <=> l = "margin"
  BY <1>1, <1>10, KeptPush
<1> QED BY <1>1, <1>3, <1>6, <1>7, <1>9, <1>11, InsideKept

(* A CRT register holds a number whatever was written to it.               *)
LEMMA WrittenNat ==
    ASSUME NEW hw \in Nat, NEW register, NEW i \in Nat
    PROVE  Written(hw, register, i \div Byte) \in Nat /\ Written(hw, register, i % Byte) \in Nat
<1>1. \A n \in Nat : n \div Byte \in Nat /\ n % Byte \in Nat
  BY ConsoleAssumption
<1>2. \A n \in Nat : n * Byte \in Nat
  BY ConsoleAssumption
<1>3. \A b \in Nat : Written(hw, register, b) \in Nat
  BY <1>1, <1>2 DEF Written
<1> QED BY <1>1, <1>3

LEMMA SetHw ==
    ASSUME NEW t \in Good, NEW n \in Nat
    PROVE  [t EXCEPT !.hw = n] \in Good
BY DEF Good

(* terminal_move_cursor, and the store that precedes it at the margin.     *)
LEMMA PlaceKept == Kept /\ (Margin \/ Place \/ Placed \/ High \/ SelectLow \/ Low) => Kept'
<1> SUFFICES ASSUME Kept, Margin \/ Place \/ Placed \/ High \/ SelectLow \/ Low
             PROVE  Kept'
  OBVIOUS
<1>0. {"erase", "placed", "high", "index", "low"} \subseteq Labels
  BY DEF Labels
<1>1. todo # <<>> /\ UNCHANGED ch
  BY DEF Margin, Place, Placed, High, SelectLow, Low, Step
<1>2. ~ IsAt(todo, "newline") /\ ~ IsAt(todo, "scroll") /\ ~ IsAt(todo, "clamp")
  BY DEF Margin, Place, Placed, High, SelectLow, Low, Step, IsAt
<1>3. /\ term \in Good /\ rx \in 0 .. W - 1 /\ ry \in 0 .. H - 1
      /\ \A u \in Columns : u \in 0 .. W - 1
      /\ \A v \in Rows : v \in 0 .. H - 1
  BY <1>2, KeptInside DEF Columns, Rows
<1>4. \/ Then(<<>>)
      \/ \E label \in {"erase", "placed", "high", "index", "low"} : Then(<<label>>)
  BY DEF Margin, Place, Placed, High, SelectLow, Low
<1>5. /\ Shape(todo') /\ ch' \in Printable
      /\ \A l \in {"left", "up", "back"} : ~ IsAt(todo', l)
  <2>1. CASE Then(<<>>)
    BY <1>1, <2>1, KeptPop DEF Base
  <2>2. ASSUME NEW label \in {"erase", "placed", "high", "index", "low"}, Then(<<label>>)
        PROVE  /\ Shape(todo') /\ ch' \in Printable
               /\ \A l \in {"left", "up", "back"} : ~ IsAt(todo', l)
    BY <1>0, <1>1, <2>2, KeptPush
  <2> QED BY <1>4, <2>1, <2>2
<1>6. term' \in Good /\ rx' \in 0 .. W - 1 /\ ry' \in 0 .. H - 1
  <2>0. W - 1 \in 0 .. W - 1 /\ term.hw \in Nat /\ Index(rx, ry) \in Nat
    BY <1>3, IndexInCells, TerminalAssumption DEF Good
  <2>1. CASE Margin
    BY <1>3, <2>0, <2>1, SetColumn, GoodIsBox, TerminalAssumption DEF Margin
  <2>2. CASE Place
    BY <1>3, <2>2, SetColumn, GoodIsBox, TerminalAssumption DEF Place
  <2>3. CASE Placed
    BY <1>3, <2>3 DEF Placed, Good
  <2>4. CASE High
    BY <1>3, <2>0, <2>4, WrittenNat, SetHw DEF High
  <2>5. CASE SelectLow
    BY <1>3, <2>5 DEF SelectLow
  <2>6. CASE Low
    BY <1>3, <2>0, <2>6, WrittenNat, SetHw DEF Low
  <2> QED BY <2>1, <2>2, <2>3, <2>4, <2>5, <2>6
<1> QED BY <1>5, <1>6, InsideKept

LEMMA PuttingKept == Kept /\ Putting => Kept'
BY StoreKept, ColumnKept, ReturnKept, RowKept, ScrollKept, ClampKept,
   BackKept, LeftKept, UpKept, PlaceKept DEF Putting

-----------------------------------------------------------------------------
(* Between calls the terminal is as it is without handlers.                *)
LEMMA QuietGood ==
    ASSUME Kept, todo = <<>>
    PROVE  term \in Good /\ rx \in 0 .. W - 1 /\ ry \in 0 .. H - 1
BY KeptInside DEF IsAt

LEMMA QuietKept ==
    ASSUME Kept, todo = <<>>, term' \in Good, UNCHANGED callVars
    PROVE  Kept'
<1>1. rx' \in 0 .. W - 1 /\ ry' \in 0 .. H - 1
  BY QuietGood DEF callVars
<1>2. /\ Shape(todo') /\ ch' \in Printable
      /\ \A l \in {"left", "up", "back"} : ~ IsAt(todo', l)
  BY DEF Kept, callVars, IsAt
<1> QED BY <1>1, <1>2, InsideKept

LEMMA PrintKept ==
    ASSUME Kept, NEW c \in Printable \cup Control, BeginPut(c)
    PROVE  Kept'
<1>1. /\ todo = <<>> /\ todo' = Work(c) /\ UNCHANGED term
      /\ rx' = term.col /\ ry' = term.row
      /\ ch' = IF c \in Control THEN Blank ELSE c
  BY DEF BeginPut, Quiet, vars
<1>2. term \in Good /\ term.col \in 0 .. W - 1 /\ term.row \in 0 .. H - 1 /\ term \in Screen
  BY <1>1, QuietGood, GoodScreen
<1>3. ch' \in Printable
  BY <1>1, TerminalAssumption DEF Blank
<1>4. Shape(todo') /\ ~ IsAt(todo', "left") /\ ~ IsAt(todo', "up")
  BY <1>1, WorkShape DEF IsAt
<1>5. /\ ColumnFits(todo', rx') /\ RowFits(todo', ry')
      /\ ColumnFits(todo', term'.col) /\ RowFits(todo', term'.row)
  BY <1>1, <1>2, <1>4, Fits
<1>6. BackFits'
  BY <1>1 DEF BackFits
<1> QED BY <1>1, <1>2, <1>3, <1>4, <1>5, <1>6 DEF Kept

(* The other calls of the driver.                                          *)
LEMMA WholeKept ==
    ASSUME Kept, Whole \/ BeginLine
    PROVE  Kept' /\ UNCHANGED <<left, hit>>
<1>1. todo = <<>> /\ UNCHANGED callVars /\ UNCHANGED <<left, hit>>
  BY DEF Whole, BeginLine, Quiet, conVars
<1>2. term \in Good
  BY <1>1, QuietGood
<1>3. Whole => Output \/ Editing
  BY DEF Whole, Output
<1>4. Next
  BY <1>3 DEF BeginLine, Next
<1>5. term' \in Good
  BY <1>2, <1>4, NextGood
<1> QED BY <1>1, <1>5, QuietKept

LEMMA EchoKept ==
    ASSUME Kept, NEW c \in EchoKeys, Echo(c), ~ hit'
    PROVE  Kept'
<1>1. todo = <<>> /\ UNCHANGED callVars /\ term' = terminal_putchar(term, c)
  BY DEF Echo
<1>2. c \in Printable \cup Control
  BY ConsoleAssumption
<1>3. term' \in Good
  BY <1>1, <1>2, QuietGood, PutcharGood
<1> QED BY <1>1, <1>3, QuietKept

(* Where a printed character leaves the cursor.                            *)
LEMMA PutPlainAt ==
    ASSUME NEW t \in Good, NEW c \in Printable
    PROVE  /\ t.col + 1 < W => /\ PutPlain(t, c).col = t.col + 1
                               /\ PutPlain(t, c).row = t.row
           /\ t.col + 1 = W /\ t.row + 1 < H => /\ PutPlain(t, c).col = 0
                                                /\ PutPlain(t, c).row = t.row + 1
<1> DEFINE e == terminal_putentryat(t, c, t.col, t.row)
<1>1. t.col \in 0 .. W - 1 /\ t.row \in 0 .. H - 1
  BY DEF Good
<1>2. e \in Good /\ e.row = t.row /\ e.col = t.col
  BY <1>1, PutEntryGood
<1>3. (t.col + 1) % Modulus = t.col + 1 /\ (t.row + 1) % Modulus = t.row + 1
  BY <1>1, TerminalAssumption
<1>4. PutPlain(t, c) = Synced(Advance(e))
  BY DEF PutPlain
<1> HIDE DEF e
<1>5. Advance(e) \in Good
  BY <1>2, AdvanceGood
<1>6. Synced(Advance(e)).col = Advance(e).col /\ Synced(Advance(e)).row = Advance(e).row
  BY <1>5 DEF Synced, terminal_move_cursor, Good
<1>7. CASE t.col + 1 < W
  <2>1. t.col + 1 # W
    BY <1>1, <1>7, TerminalAssumption
  <2>2. Advance(e) = [e EXCEPT !.col = t.col + 1]
    BY <1>2, <1>3, <2>1 DEF Advance
  <2> QED BY <1>1, <1>2, <1>4, <1>6, <1>7, <2>2, TerminalAssumption DEF Good
<1>8. CASE t.col + 1 = W /\ t.row + 1 < H
  <2> DEFINE f == [e EXCEPT !.col = W]
  <2>1. f.row = t.row
    BY <1>2 DEF Good
  <2>2. Advance(e) = terminal_newline(f)
    BY <1>2, <1>3, <1>8 DEF Advance
  <2>3. t.row + 1 # H
    BY <1>1, <1>8, TerminalAssumption
  <2>4. terminal_newline(f) = [f EXCEPT !.col = 0, !.row = t.row + 1]
    BY <1>3, <2>1, <2>3 DEF terminal_newline
  <2>5. [f EXCEPT !.col = 0, !.row = t.row + 1].col = 0
        /\ [f EXCEPT !.col = 0, !.row = t.row + 1].row = t.row + 1
    BY <1>2 DEF Good
  <2>6. PutPlain(t, c).col = 0 /\ PutPlain(t, c).row = t.row + 1
    <3> HIDE DEF f
    <3> QED BY <1>4, <1>6, <2>2, <2>4, <2>5
  <2>7. ~(t.col + 1 < W)
    BY <1>8, TerminalAssumption
  <2> QED BY <2>6, <2>7
<1> QED BY <1>7, <1>8

(* timer_callback: the registers of the thread are as they were.           *)
LEMMA CallbackInv ==
    ASSUME ConInv, timer_callback
    PROVE  ConInv'
<1> SUFFICES ASSUME ~ hit' PROVE ConInv'
  BY DEF ConInv
<1>1. /\ left = 0 /\ ~ hit /\ UNCHANGED callVars /\ left' = StatusLen
      /\ term' = terminal_move_cursor(term, StatusCol, 0)
  BY DEF timer_callback, terminal_set_cursor_position
<1>2. Kept
  BY <1>1, KeptInv
<1>3. /\ StatusCol \in 0 .. W - 1 /\ 0 \in 0 .. H - 1
      /\ StatusLen \in 0 .. StatusLen /\ StatusLen > 0 /\ StatusCol < W
      /\ StatusCol + StatusLen - StatusLen = StatusCol /\ StatusCol \in Nat
  BY ConsoleAssumption, TerminalAssumption
<1>4. Index(StatusCol, 0) \in Nat
  BY <1>3, IndexInCells
<1>5. term' = [term EXCEPT !.col = StatusCol, !.row = 0, !.hw = Index(StatusCol, 0)]
  BY <1>1, <1>3, TerminalAssumption DEF terminal_move_cursor
<1>6. term' \in Screen /\ term'.row = 0 /\ term'.col = StatusCol
  BY <1>2, <1>3, <1>4, <1>5 DEF Kept, Screen
<1>7. StatusFits'
  BY <1>1, <1>3, <1>6 DEF StatusFits
<1>8. /\ ch' \in Printable /\ Shape(todo')
      /\ ColumnFits(todo', rx') /\ RowFits(todo', ry')
  BY <1>1, <1>2 DEF Kept, callVars
<1>9. left' \in 0 .. StatusLen /\ ~(left' = 0)
  BY <1>1, <1>3
<1> QED BY <1>6, <1>7, <1>8, <1>9 DEF ConInv

LEMMA StatusInv ==
    ASSUME ConInv, StatusChar
    PROVE  ConInv'
<1> SUFFICES ASSUME ~ hit' PROVE ConInv'
  BY DEF ConInv
<1>1. /\ left > 0 /\ ~ hit /\ UNCHANGED callVars /\ left' = left - 1
      /\ left \in 0 .. StatusLen /\ StatusFits
      /\ term \in Screen /\ ch \in Printable /\ Shape(todo)
      /\ ColumnFits(todo, rx) /\ RowFits(todo, ry)
  BY DEF StatusChar, ConInv
<1> DEFINE p == StatusCol + StatusLen - left
<1>2. /\ p \in Nat /\ p + 1 <= StatusCol + StatusLen /\ p + 1 < 2 * W
      /\ StatusCol + StatusLen - left' = p + 1 /\ W \in Nat /\ H \in Nat /\ H > 1
      /\ left' \in 0 .. StatusLen /\ (left' = 0 => p + 1 > W)
  BY <1>1, ConsoleAssumption, TerminalAssumption
<1>3. \/ p < W /\ term.row = 0 /\ term.col = p
      \/ p >= W /\ term.row = 1 /\ term.col = p - W
  BY <1>1 DEF StatusFits
<1> HIDE DEF p
<1>4. term.col < W /\ term.row < H
  BY <1>2, <1>3
<1>5. term \in Good
  BY <1>1, <1>4, ScreenGood
<1>6. PICK c \in Printable : term' = PutPlain(term, c)
  BY DEF StatusChar
<1>7. term' \in Good
  BY <1>5, <1>6, PutPlainGood
<1>8. \/ p + 1 < W /\ term'.row = 0 /\ term'.col = p + 1
      \/ p + 1 >= W /\ term'.row = 1 /\ term'.col = p + 1 - W
  <2>1. CASE p + 1 < W
    BY <1>2, <1>3, <1>5, <1>6, <2>1, PutPlainAt
  <2>2. CASE p + 1 = W
    BY <1>2, <1>3, <1>5, <1>6, <2>2, PutPlainAt
  <2>3. CASE p + 1 > W
    BY <1>2, <1>3, <1>5, <1>6, <2>3, PutPlainAt
  <2> QED BY <1>2, <2>1, <2>2, <2>3
<1>9. StatusFits'
  BY <1>2, <1>8 DEF StatusFits
<1>10. term' \in Screen /\ term'.col \in 0 .. W - 1 /\ term'.row \in 0 .. H - 1
  BY <1>7, GoodScreen
<1>11. left' = 0 => term'.col > 0 /\ term'.row > 0
  BY <1>2, <1>8
<1>12. left' = 0 => ColumnFits(todo', term'.col) /\ RowFits(todo', term'.row)
  BY <1>10, <1>11, Fits
<1>13. left' = 0 => BackFits'
  BY <1>11 DEF BackFits
<1> QED BY <1>1, <1>2, <1>9, <1>10, <1>12, <1>13 DEF ConInv, callVars

-----------------------------------------------------------------------------
LEMMA InitInv == ConInit => ConInv
<1> SUFFICES ASSUME ConInit PROVE ConInv
  OBVIOUS
<1>1. /\ term \in Good /\ todo = <<>> /\ rx = 0 /\ ry = 0 /\ left = 0 /\ ch = Blank
      /\ 0 \in 0 .. W - 1 /\ 0 \in 0 .. H - 1 /\ 0 \in 0 .. StatusLen
  BY InitGood, TerminalAssumption, ConsoleAssumption DEF ConInit, Init
<1>2. term \in Screen /\ term.col \in 0 .. W - 1 /\ term.row \in 0 .. H - 1
  BY <1>1, GoodScreen
<1>3. Shape(todo) /\ \A l : ~ IsAt(todo, l)
  BY <1>1 DEF Shape, IsAt
<1>4. /\ ColumnFits(todo, rx) /\ RowFits(todo, ry)
      /\ ColumnFits(todo, term.col) /\ RowFits(todo, term.row)
  BY <1>1, <1>2, <1>3, Fits
<1>5. BackFits
  BY <1>3 DEF BackFits
<1>6. ch \in Printable
  BY <1>1, TerminalAssumption DEF Blank
<1> QED BY <1>1, <1>2, <1>3, <1>4, <1>5, <1>6 DEF ConInv

LEMMA KeptGives == ASSUME Kept', left' = 0, ~ hit' PROVE ConInv'
<1>1. left' \in 0 .. StatusLen /\ ~(left' > 0)
  BY ConsoleAssumption
<1> QED BY <1>1 DEF ConInv, Kept

LEMMA NextInv == ConInv /\ [ConNext]_allVars => ConInv'
<1> SUFFICES ASSUME ConInv, [ConNext]_allVars, ~ hit' PROVE ConInv'
  BY DEF ConInv
<1>1. ASSUME NEW c \in Printable \cup Control, BeginPut(c)
      PROVE  ConInv'
  <2>1. left = 0 /\ ~ hit /\ left' = 0
    BY <1>1 DEF BeginPut, Quiet
  <2>2. Kept'
    BY <1>1, <2>1, KeptInv, PrintKept
  <2> QED BY <2>1, <2>2, KeptGives
<1>2. CASE Putting
  <2>1. left = 0 /\ ~ hit /\ left' = 0
    BY <1>2 DEF Putting, StoreEntry, EraseEntry, Column, Return, Row, ScrollUp, Clamp,
       Back, Left, Up, Margin, Place, Placed, High, SelectLow, Low, Step
  <2>2. Kept'
    BY <1>2, <2>1, KeptInv, PuttingKept
  <2> QED BY <2>1, <2>2, KeptGives
<1>3. CASE Whole \/ BeginLine
  <2>1. left = 0 /\ ~ hit
    BY <1>3 DEF Whole, BeginLine, Quiet
  <2>2. Kept' /\ left' = 0
    BY <1>3, <2>1, KeptInv, WholeKept
  <2> QED BY <2>2, KeptGives
<1>4. CASE timer_callback
  BY <1>4, CallbackInv
<1>5. CASE StatusChar
  BY <1>5, StatusInv
<1>6. ASSUME NEW c \in EchoKeys, Echo(c)
      PROVE  ConInv'
  <2>1. left = 0 /\ ~ hit /\ left' = 0
    BY <1>6 DEF Echo
  <2>2. Kept'
    BY <1>6, <2>1, KeptInv, EchoKept
  <2> QED BY <2>1, <2>2, KeptGives
<1>7. CASE UNCHANGED allVars
  BY <1>7 DEF ConInv, allVars, vars, conVars, callVars, BackFits, StatusFits
<1> QED BY <1>1, <1>2, <1>3, <1>4, <1>5, <1>6, <1>7 DEF ConNext

(***************************************************************************)
(* terminal_putchar keeps to the screen although timer_callback strikes    *)
(* between any two of its accesses, for every screen size and with every   *)
(* choice the compiler has; only a key echoed into a call breaks this.     *)
(***************************************************************************)
THEOREM StoresContainedAlways == ConSpec => []StoresContained
<1>1. ConInv => StoresContained
  <2> SUFFICES ASSUME ConInv, ~ hit
               PROVE  ~ term.oob /\ (todo = <<>> => term.col < W /\ term.row < H)
    BY DEF StoresContained
  <2>1. term \in Screen /\ ~ term.oob
    BY DEF ConInv, Screen
  <2>2. ASSUME todo = <<>>, left = 0 PROVE term.col < W /\ term.row < H
    <3>1. Kept
      BY <2>2, KeptInv
    <3> QED BY <2>2, <3>1, QuietGood, GoodScreen, TerminalAssumption
  <2>3. ASSUME left # 0 PROVE term.col < W /\ term.row < H
    <3>1. left \in 0 .. StatusLen /\ left > 0 /\ StatusFits
      BY <2>3, ConsoleAssumption DEF ConInv
    <3> QED BY <3>1, ConsoleAssumption, TerminalAssumption DEF StatusFits
  <2> QED BY <2>1, <2>2, <2>3
<1> QED BY <1>1, InitInv, NextInv, PTL DEF ConSpec

-----------------------------------------------------------------------------
(***************************************************************************)
(* A call that no handler enters.                                          *)
(***************************************************************************)
(* The steps of terminal_move_cursor, with which every call ends.          *)
Placing == {"place", "placed", "high", "index", "low"}

Ends(s) == s[Len(s)] = "place" \/ (Len(s) = 1 /\ s[1] \in Placing)

(* The registers hold the cursor, and the CRT registers have got as far as *)
(* the call has.                                                           *)
PlacedSoFar ==
    /\ rx = term.col /\ ry = term.row
    /\ IsAt(todo, "high") => crt = 14
    /\ IsAt(todo, "low") => crt = 15
    /\ IsAt(todo, "index") \/ IsAt(todo, "low")
          => term.hw \div Byte = Index(rx, ry) \div Byte

CalmInv ==
    /\ pc = "gets" => todo = <<>>
    /\ calm => /\ ~ hit /\ left = 0
               /\ todo # <<>> => Ends(todo) /\ PlacedSoFar

LEMMA NoSteps == ASSUME NEW t \in Seq(Labels) PROVE t = <<>> <=> Len(t) = 0
OBVIOUS

LEMMA EndsNext ==
    ASSUME NEW s, Shape(s), s # <<>>, Ends(s)
    PROVE  /\ \A label \in Labels : label \in Placing \/ Head(s) \notin Placing
                            => Ends(<<label>> \o Tail(s))
           /\ <<>> \o Tail(s) # <<>> => Ends(<<>> \o Tail(s))
           /\ <<>> \o Tail(s) = <<>> => Head(s) \in Placing
<1> DEFINE t == Tail(s)
<1>1. /\ s \in Seq(Labels) /\ t \in Seq(Labels) /\ Len(t) = Len(s) - 1
      /\ Len(s) \in Nat \ {0} /\ Head(s) = s[1] /\ <<>> \o t = t
      /\ \A i \in 1 .. Len(t) : t[i] = s[i + 1]
  BY DEF Shape
<1> HIDE DEF t
<1>2. CASE Len(s) = 1
  <2>1. Head(s) \in Placing /\ Len(t) = 0 /\ t = <<>>
    BY <1>1, <1>2, NoSteps DEF Ends, Placing
  <2>2. ASSUME NEW label \in Labels, label \in Placing PROVE Ends(<<label>> \o t)
    <3>1. Len(<<label>> \o t) = 1 /\ (<<label>> \o t)[1] = label
      BY <1>1, <2>1
    <3> QED BY <2>2, <3>1 DEF Ends
  <2> QED BY <1>1, <2>1, <2>2 DEF t
<1>3. CASE Len(s) # 1
  <2>1. s[Len(s)] = "place" /\ Len(t) \in Nat \ {0} /\ t # <<>>
    BY <1>1, <1>3, NoSteps DEF Ends
  <2>2. t[Len(t)] = "place"
    BY <1>1, <2>1
  <2>3. ASSUME NEW label \in Labels PROVE Ends(<<label>> \o t)
    <3>1. /\ Len(<<label>> \o t) = Len(t) + 1
          /\ (<<label>> \o t)[Len(t) + 1] = t[Len(t)]
      BY <1>1, <2>1
    <3> QED BY <2>2, <3>1 DEF Ends
  <2> QED BY <1>1, <2>1, <2>2, <2>3 DEF Ends, t
<1> QED BY <1>2, <1>3

(* Quotient and remainder of the two bytes of a position.                  *)
LEMMA TwoBytes ==
    ASSUME NEW q \in Nat, NEW r \in 0 .. Byte - 1
    PROVE  (q * Byte + r) \div Byte = q
BY ConsoleAssumption

LEMMA ByteParts ==
    ASSUME NEW i \in Nat
    PROVE  /\ i \div Byte \in Nat /\ i % Byte \in 0 .. Byte - 1
           /\ i = (i \div Byte) * Byte + (i % Byte)
BY ConsoleAssumption

(* The registers follow the cursor: a choice between two equal values.     *)
LEMMA Together ==
    ASSUME Kept, Putting, rx = term.col, ry = term.row
    PROVE  rx' = term'.col /\ ry' = term'.row
<1>0. term \in Screen /\ \A u \in Columns : u = rx
  BY DEF Kept, Columns
<1>1. \A v \in Rows : v = ry
  BY DEF Rows
<1>2. /\ \A x : LET t == [term EXCEPT !.col = x] IN t.col = x /\ t.row = term.row
      /\ \A y : LET t == [term EXCEPT !.row = y] IN t.row = y /\ t.col = term.col
      /\ \A n : LET t == [term EXCEPT !.hw = n] IN t.row = term.row /\ t.col = term.col
  BY <1>0 DEF Screen
<1>3. \A c, u, v : LET t == terminal_putentryat(term, c, u, v)
                   IN t.col = term.col /\ t.row = term.row
  BY <1>0 DEF terminal_putentryat, Screen
<1>4. CASE StoreEntry \/ EraseEntry
  BY <1>0, <1>1, <1>3, <1>4 DEF StoreEntry, EraseEntry
<1>5. CASE Column \/ Return \/ Left \/ Margin
  BY <1>2, <1>5 DEF Column, Return, Left, Margin
<1>6. CASE Row \/ Clamp \/ Up
  BY <1>2, <1>6 DEF Row, Clamp, Up
<1>7. CASE ScrollUp
  BY <1>0, <1>7, ScrollScreen DEF ScrollUp
<1>8. CASE Back
  BY <1>0, <1>1, <1>8 DEF Back
<1>9. CASE Place
  BY <1>0, <1>1, <1>2, <1>9 DEF Place
<1>10. CASE Placed \/ High \/ SelectLow \/ Low
  BY <1>2, <1>10 DEF Placed, High, SelectLow, Low
<1> QED BY <1>4, <1>5, <1>6, <1>7, <1>8, <1>9, <1>10 DEF Putting

(* The bytes written by terminal_move_cursor.                              *)
LEMMA BytesWritten ==
    ASSUME Kept, todo # <<>>, PlacedSoFar
    PROVE  /\ High => term'.hw \div Byte = Index(rx, ry) \div Byte
           /\ Low => term'.hw = Index(rx, ry)
<1> DEFINE i == Index(rx, ry)
<1>1. ASSUME High \/ Low
      PROVE  i \in Nat /\ term.hw \in Nat /\ \A n : [term EXCEPT !.hw = n].hw = n
  <2>1. ~ IsAt(todo, "newline") /\ ~ IsAt(todo, "scroll") /\ ~ IsAt(todo, "clamp")
    BY <1>1 DEF High, Low, Step, IsAt
  <2>2. rx \in 0 .. W - 1 /\ ry \in 0 .. H - 1 /\ term \in Good
    BY <2>1, KeptInside
  <2> QED BY <2>2, IndexInCells DEF Good
<1>2. ASSUME High PROVE term'.hw \div Byte = i \div Byte
  <2>1. crt = 14 /\ term' = [term EXCEPT !.hw = Written(term.hw, crt, i \div Byte)]
    BY <1>2 DEF PlacedSoFar, High, Step, IsAt
  <2>2. term'.hw = (i \div Byte) * Byte + (term.hw % Byte)
    BY <1>1, <1>2, <2>1 DEF Written
  <2> QED BY <1>1, <1>2, <2>2, ByteParts, TwoBytes
<1>3. ASSUME Low PROVE term'.hw = i
  <2>1. /\ crt = 15 /\ term' = [term EXCEPT !.hw = Written(term.hw, crt, i % Byte)]
        /\ term.hw \div Byte = i \div Byte
    BY <1>3 DEF PlacedSoFar, Low, Step, IsAt
  <2>2. term'.hw = (i \div Byte) * Byte + (i % Byte)
    BY <1>1, <1>3, <2>1 DEF Written
  <2> QED BY <1>1, <1>3, <2>2, ByteParts
<1> QED BY <1>2, <1>3

(* One step of a call that no handler has entered.                         *)
LEMMA CalmStep ==
    ASSUME Kept, Putting, todo # <<>>, Ends(todo), PlacedSoFar
    PROVE  /\ todo' # <<>> => Ends(todo') /\ PlacedSoFar'
           /\ todo' = <<>> => Low
<1>0. Shape(todo)
  BY DEF Kept
<1>1. /\ \A label : Then(<<label>>) => todo' # <<>> /\ Head(todo') = label
      /\ Then(<<>>) => todo' = <<>> \/ Head(todo') \in Base
  <2>1. \A label : LET t == <<label>> \o Tail(todo) IN t # <<>> /\ Head(t) = label
    BY <1>0 DEF Shape
  <2> QED BY <1>0, <2>1, ShapePop DEF Then
<1>2. rx' = term'.col /\ ry' = term'.row
  BY Together DEF PlacedSoFar
<1>3. CASE Place
  <2>1. ~ IsAt(todo, "newline") /\ ~ IsAt(todo, "scroll") /\ ~ IsAt(todo, "clamp")
    BY <1>3 DEF Place, Step, IsAt
  <2>2. \A u \in Columns, v \in Rows : ~(u >= W \/ v >= H)
    BY <2>1, KeptInside, TerminalAssumption DEF Columns, Rows
  <2>3. Then(<<"placed">>)
    BY <1>3, <2>2 DEF Place
  <2>4. Ends(todo')
    BY <1>0, <2>3, EndsNext DEF Then, Placing, Labels
  <2> QED BY <1>1, <1>2, <2>3, <2>4 DEF PlacedSoFar, IsAt
<1>4. CASE Placed
  <2>1. Then(<<"high">>) /\ crt' = 14
    BY <1>4 DEF Placed
  <2>2. Ends(todo')
    BY <1>0, <2>1, EndsNext DEF Then, Placing, Labels
  <2> QED BY <1>1, <1>2, <2>1, <2>2 DEF PlacedSoFar, IsAt
<1>5. CASE High
  <2>1. Then(<<"index">>) /\ UNCHANGED <<rx, ry>>
    BY <1>5 DEF High
  <2>2. Ends(todo')
    BY <1>0, <2>1, EndsNext DEF Then, Placing, Labels
  <2> QED BY <1>1, <1>2, <1>5, <2>1, <2>2, BytesWritten DEF PlacedSoFar, IsAt, Index
<1>6. CASE SelectLow
  <2>1. Then(<<"low">>) /\ UNCHANGED <<rx, ry, term>> /\ crt' = 15 /\ IsAt(todo, "index")
    BY <1>6 DEF SelectLow, Step, IsAt
  <2>2. Ends(todo')
    BY <1>0, <2>1, EndsNext DEF Then, Placing, Labels
  <2> QED BY <1>1, <1>2, <2>1, <2>2 DEF PlacedSoFar, IsAt, Index
<1>7. CASE Low
  <2>1. Then(<<>>)
    BY <1>7 DEF Low
  <2>2. todo' # <<>> => Ends(todo')
    BY <1>0, <2>1, EndsNext DEF Then
  <2> QED BY <1>1, <1>2, <1>7, <2>1, <2>2 DEF PlacedSoFar, IsAt, Base
<1>8. ASSUME ~(Place \/ Placed \/ High \/ SelectLow \/ Low)
      PROVE  todo' # <<>> /\ Ends(todo') /\ PlacedSoFar'
  <2> DEFINE Others == {"column", "newline", "row", "scroll", "clamp", "left", "up",
                        "margin", "erase", "place"}
  <2>1. /\ Head(todo) \notin Placing
        /\ Then(<<>>) \/ \E label \in Others : Then(<<label>>)
    BY <1>8 DEF Putting, StoreEntry, EraseEntry, Column, Return, Row, ScrollUp, Clamp,
       Back, Left, Up, Margin, Step, Placing
  <2>2. todo' # <<>> /\ Ends(todo')
    BY <1>0, <1>1, <2>1, EndsNext DEF Then, Labels, Base
  <2>3. Head(todo') \notin {"high", "index", "low"}
    BY <1>1, <2>1, <2>2 DEF Base
  <2> QED BY <1>2, <2>2, <2>3 DEF PlacedSoFar, IsAt
<1> QED BY <1>3, <1>4, <1>5, <1>6, <1>7, <1>8

(* What every step of the thread leaves alone.                             *)
LEMMA StepFrame ==
    ASSUME Putting
    PROVE  todo # <<>> /\ left = 0 /\ UNCHANGED <<editVars, left, calm, hit>>
BY DEF Putting, StoreEntry, EraseEntry, Column, Return, Row, ScrollUp, Clamp,
   Back, Left, Up, Margin, Place, Placed, High, SelectLow, Low, Step

LEMMA WorkEnds == ASSUME NEW c PROVE Ends(Work(c))
<1>1. CASE c \in {"NL", "CR", "BS", "TAB"}
  BY <1>1 DEF Work, Ends
<1>2. CASE c \notin {"NL", "CR", "BS", "TAB"}
  <2>1. c # "NL" /\ c # "CR" /\ c # "BS" /\ c # "TAB"
    BY <1>2
  <2>2. Work(c) = <<"store", "place">>
    BY <2>1, Zenon DEF Work
  <2> QED BY <2>2 DEF Ends
<1> QED BY <1>1, <1>2

LEMMA CalmInit == ConInit => CalmInv
BY DEF ConInit, Init, CalmInv

LEMMA CalmNext == ConInv /\ CalmInv /\ [ConNext]_allVars => CalmInv'
<1> SUFFICES ASSUME ConInv, CalmInv, [ConNext]_allVars PROVE CalmInv'
  OBVIOUS
<1>1. ASSUME NEW c \in Printable \cup Control, BeginPut(c)
      PROVE  CalmInv'
  <2>1. /\ todo' = Work(c) /\ rx' = term'.col /\ ry' = term'.row
        /\ pc' # "gets" /\ ~ hit' /\ left' = 0
    BY <1>1 DEF BeginPut, Quiet, vars
  <2>2. Ends(todo') /\ Head(todo') \in {"newline", "return", "back", "store"}
    BY <2>1, WorkEnds, WorkShape
  <2> QED BY <2>1, <2>2 DEF CalmInv, PlacedSoFar, IsAt
<1>2. CASE Putting
  <2>1. todo # <<>> /\ left = 0 /\ UNCHANGED <<pc, left, calm, hit>>
    BY <1>2, StepFrame DEF editVars
  <2>2. pc' # "gets"
    BY <2>1 DEF CalmInv
  <2>3. ASSUME calm' PROVE ~ hit' /\ left' = 0 /\ (todo' # <<>> => Ends(todo') /\ PlacedSoFar')
    <3>1. ~ hit /\ left = 0 /\ Ends(todo) /\ PlacedSoFar
      BY <2>1, <2>3 DEF CalmInv
    <3> QED BY <1>2, <2>1, <3>1, KeptInv, CalmStep
  <2> QED BY <2>2, <2>3 DEF CalmInv
<1>3. CASE Whole \/ BeginLine
  BY <1>3 DEF Whole, BeginLine, Quiet, CalmInv, conVars, callVars
<1>4. CASE timer_callback
  BY <1>4 DEF timer_callback, CalmInv, callVars, editVars
<1>5. CASE StatusChar
  <2>1. ~ calm
    BY <1>5 DEF StatusChar, CalmInv
  <2> QED BY <1>5, <2>1 DEF StatusChar, CalmInv, callVars, editVars
<1>6. ASSUME NEW c \in EchoKeys, Echo(c)
      PROVE  CalmInv'
  BY <1>6 DEF Echo, CalmInv, callVars, editVars
<1>7. CASE UNCHANGED allVars
  BY <1>7 DEF CalmInv, PlacedSoFar, allVars, vars, conVars, callVars, Index
<1> QED BY <1>1, <1>2, <1>3, <1>4, <1>5, <1>6, <1>7 DEF ConNext

LEMMA CalmAlways == ConSpec => [](ConInv /\ CalmInv)
<1>1. ConInit => ConInv /\ CalmInv
  BY InitInv, CalmInit
<1>2. ConInv /\ CalmInv /\ [ConNext]_allVars => (ConInv /\ CalmInv)'
  BY NextInv, CalmNext
<1> QED BY <1>1, <1>2, PTL DEF ConSpec

(***************************************************************************)
(* A call of terminal_putchar that no handler enters ends with the CRT     *)
(* registers, written byte by byte, at the terminal's own cursor, whatever *)
(* handlers and interrupted calls have left in them before.                *)
(***************************************************************************)
THEOREM CursorFollowsAlways == ConSpec => CursorFollows
<1>1. ConInv /\ CalmInv /\ [ConNext]_allVars
        => [todo # <<>> /\ todo' = <<>> /\ calm =>
               term'.hw = Index(term'.col, term'.row)]_allVars
  <2> SUFFICES ASSUME ConInv, CalmInv, ConNext, todo # <<>>, todo' = <<>>, calm
               PROVE  term'.hw = Index(term'.col, term'.row)
    OBVIOUS
  <2>1. Putting
    BY DEF ConNext, BeginPut, Quiet, Whole, BeginLine, timer_callback, StatusChar, Echo,
       callVars
  <2>2. Kept /\ Ends(todo) /\ PlacedSoFar
    BY KeptInv DEF CalmInv
  <2>3. Low
    BY <2>1, <2>2, CalmStep
  <2>4. term'.hw = Index(rx, ry) /\ UNCHANGED <<rx, ry>>
    BY <2>2, <2>3, BytesWritten DEF Low
  <2>5. rx' = term'.col /\ ry' = term'.row
    BY <2>1, <2>2, Together DEF PlacedSoFar
  <2> QED BY <2>4, <2>5
<1> QED BY <1>1, CalmAlways, PTL DEF ConSpec, CursorFollows

-----------------------------------------------------------------------------
(***************************************************************************)
(* What terminal_gets shows of its buffer.                                 *)
(***************************************************************************)
(* Two positions, one line apart.                                          *)
LEMMA RowBelow ==
    ASSUME NEW x \in Nat, NEW y \in Nat
    PROVE  /\ Index(x, y) \in Nat /\ Index(x + 1, y) = Index(x, y) + 1
           /\ Index(0, y + 1) = Index(W - 1, y) + 1
           /\ Index(0, y + 1) = Index(0, y) + W
           /\ Index(x, y) >= y * W /\ Index(x, y) >= x
<1>1. W \in Nat /\ y * W \in Nat /\ (y + 1) * W = y * W + W
  BY TerminalAssumption
<1> QED BY <1>1 DEF Index

(* After a printed character the cursor stands behind it, and what stood   *)
(* in front of the cursor stands in front of the character, as far back as *)
(* the screen reaches.                                                     *)
LEMMA AdvanceShows ==
    ASSUME NEW e \in Good
    PROVE  LET p == Index(e.col, e.row)
               a == Advance(e)
               q == Index(a.col, a.row)
           IN /\ a \in Good /\ q \in 1 .. p + 1
              /\ \A k \in 1 .. q : a.cell[q - k] = e.cell[p + 1 - k]
<1> DEFINE p == Index(e.col, e.row)
           a == Advance(e)
           q == Index(a.col, a.row)
<1>0. a \in Good
  BY AdvanceGood
<1>1. /\ e.col \in 0 .. W - 1 /\ e.row \in 0 .. H - 1 /\ e.cell \in [Cells -> Printable]
      /\ W \in Nat /\ H \in Nat /\ W > 1 /\ H > 1 /\ e.col \in Nat /\ e.row \in Nat
  BY TerminalAssumption DEF Good
<1>2. (e.col + 1) % Modulus = e.col + 1 /\ (e.row + 1) % Modulus = e.row + 1
  BY <1>1, TerminalAssumption
<1>3. p \in Nat /\ Index(e.col + 1, e.row) = p + 1
  BY <1>1, RowBelow
<1>4. CASE e.col + 1 # W
  <2>1. a = [e EXCEPT !.col = e.col + 1]
    BY <1>2, <1>4 DEF Advance
  <2>2. a.col = e.col + 1 /\ a.row = e.row /\ a.cell = e.cell
    BY <2>1 DEF Good
  <2>3. q = p + 1
    BY <1>3, <2>2
  <2> QED BY <1>0, <1>3, <2>2, <2>3
<1>5. CASE e.col + 1 = W
  <2> DEFINE f == [e EXCEPT !.col = W]
  <2>1. f.row = e.row /\ f.cell = e.cell /\ f \in Box(W)
    <3>1. W \in 0 .. W /\ W - 1 \in Nat /\ e \in Box(W - 1)
      BY <1>1, GoodIsBox
    <3>2. f \in Box(W)
      BY <1>1, <3>1, SetColumn
    <3> QED BY <3>2 DEF Good
  <2>2. a = terminal_newline(f)
    BY <1>2, <1>5 DEF Advance
  <2>3. e.col = W - 1 /\ Index(0, e.row + 1) = p + 1
    <3>1. e.col = W - 1
      BY <1>1, <1>5
    <3> QED BY <1>1, <3>1, RowBelow
  <2>4. CASE e.row + 1 # H
    <3>1. a = [f EXCEPT !.col = 0, !.row = e.row + 1]
      BY <1>2, <2>1, <2>2, <2>4 DEF terminal_newline
    <3>2. a.col = 0 /\ a.row = e.row + 1 /\ a.cell = e.cell
      <4> HIDE DEF f
      <4> QED BY <2>1, <3>1 DEF Box
    <3>3. q = p + 1
      BY <2>3, <3>2
    <3> QED BY <1>0, <1>3, <3>2, <3>3
  <2>5. CASE e.row + 1 = H
    <3> DEFINE d == [i \in Cells |->
                       IF i + 1 * W \in Cells THEN f.cell[i + 1 * W] ELSE Blank]
               g == [f EXCEPT !.cell = d]
    <3>1. terminal_scroll(f, 1) = g
      BY <1>1 DEF terminal_scroll
    <3>2. a = [g EXCEPT !.col = 0, !.row = H - 1]
      BY <1>2, <2>1, <2>2, <2>5, <3>1 DEF terminal_newline
    <3>3. a.col = 0 /\ a.row = H - 1 /\ a.cell = d
      <4> HIDE DEF f, d
      <4> QED BY <2>1, <3>2 DEF Box
    <3>4. p + 1 = W * H /\ q = p + 1 - W /\ q >= W
      <4>1. e.row = H - 1 /\ e.row >= 1
        BY <1>1, <2>5
      <4>2. Index(0, e.row + 1) = Index(0, e.row) + W /\ Index(0, e.row) \in Nat
        BY <1>1, RowBelow
      <4>3. Index(0, H) = W * H
        BY <1>1 DEF Index
      <4>4. Index(0, e.row) = e.row * W /\ e.row * W >= W
        BY <1>1, <4>1 DEF Index
      <4> QED BY <1>1, <1>3, <2>3, <2>5, <3>3, <4>1, <4>2, <4>3, <4>4
    <3>5. ASSUME NEW k \in 1 .. q PROVE a.cell[q - k] = e.cell[p + 1 - k]
      <4>1. q - k \in Cells /\ q - k + 1 * W \in Cells /\ q - k + 1 * W = p + 1 - k
        <5> HIDE DEF p, q
        <5>1. W * H \in Nat /\ q \in Nat /\ k \in Nat /\ 1 <= k /\ k <= q
          BY <1>1, <1>3, <3>4
        <5> QED BY <1>1, <1>3, <3>4, <5>1 DEF Cells
      <4>2. d[q - k] = f.cell[q - k + 1 * W]
        BY <4>1
      <4> QED BY <2>1, <3>3, <4>1, <4>2
    <3>6. q \in 1 .. p + 1
      BY <1>1, <1>3, <3>4
    <3> QED BY <1>0, <3>5, <3>6
  <2> QED BY <2>4, <2>5
<1> QED BY <1>4, <1>5

LEMMA SyncedSame ==
    ASSUME NEW t \in Good
    PROVE  /\ Synced(t) \in Good
           /\ Synced(t).cell = t.cell /\ Synced(t).col = t.col /\ Synced(t).row = t.row
<1>1. Synced(t) \in Good
  BY SyncedGood
<1> QED BY <1>1 DEF Synced, terminal_move_cursor, Good

LEMMA PutcharShows ==
    ASSUME NEW t \in Good, NEW c \in Printable
    PROVE  LET p == Index(t.col, t.row)
               u == terminal_putchar(t, c)
               q == Index(u.col, u.row)
           IN /\ p \in Nat /\ q \in 1 .. p + 1 /\ u.cell[q - 1] = c
              /\ \A k \in 2 .. q : u.cell[q - k] = t.cell[p - (k - 1)]
<1> DEFINE p == Index(t.col, t.row)
           e == terminal_putentryat(t, c, t.col, t.row)
           a == Advance(e)
           u == terminal_putchar(t, c)
           q == Index(u.col, u.row)
<1>1. t.col \in 0 .. W - 1 /\ t.row \in 0 .. H - 1 /\ t.cell \in [Cells -> Printable]
  BY DEF Good
<1>2. p \in Cells /\ p \in Nat
  BY <1>1, IndexInCells
<1>3. e \in Good /\ e.row = t.row /\ e.col = t.col
  BY <1>1, PutEntryGood
<1>4. e.cell = [t.cell EXCEPT ![p] = c]
  BY <1>2 DEF terminal_putentryat, Good
<1>5. u = Synced(Synced(a))
  <2>1. c # "NL" /\ c # "CR" /\ c # "BS" /\ c # "TAB"
    BY TerminalAssumption
  <2>2. u = Synced(PutPlain(t, c))
    BY <2>1, Zenon DEF terminal_putchar
  <2> QED BY <2>2 DEF PutPlain
<1> HIDE DEF e, u
<1>6. /\ a \in Good /\ Index(a.col, a.row) \in 1 .. p + 1
      /\ \A k \in 1 .. Index(a.col, a.row) :
            a.cell[Index(a.col, a.row) - k] = e.cell[p + 1 - k]
  BY <1>3, AdvanceShows
<1> HIDE DEF a
<1>7. u.cell = a.cell /\ u.col = a.col /\ u.row = a.row
  BY <1>5, <1>6, SyncedSame
<1>8. q \in 1 .. p + 1 /\ \A k \in 1 .. q : u.cell[q - k] = e.cell[p + 1 - k]
  BY <1>6, <1>7
<1> HIDE DEF p, q
<1>9. u.cell[q - 1] = c
  <2>1. 1 \in 1 .. q /\ p + 1 - 1 = p
    BY <1>2, <1>8
  <2> QED BY <1>1, <1>2, <1>4, <1>8, <2>1
<1>10. ASSUME NEW k \in 2 .. q PROVE u.cell[q - k] = t.cell[p - (k - 1)]
  <2>1. k \in 1 .. q /\ p + 1 - k = p - (k - 1) /\ p - (k - 1) # p /\ p - (k - 1) \in Cells
    BY <1>2, <1>8, TerminalAssumption DEF Cells
  <2> QED BY <1>1, <1>4, <1>8, <2>1
<1> QED BY <1>2, <1>8, <1>9, <1>10 DEF p, q, u

(* terminal_backspace takes the cell in front of the cursor away.          *)
LEMMA BackspaceShows ==
    ASSUME NEW t \in Good
    PROVE  LET p == Index(t.col, t.row)
               u == terminal_backspace(t)
               q == Index(u.col, u.row)
           IN /\ p \in Nat /\ q = IF p > 0 THEN p - 1 ELSE 0
              /\ \A k \in 1 .. q : u.cell[q - k] = t.cell[p - (k + 1)]
<1> DEFINE p == Index(t.col, t.row)
           u == terminal_backspace(t)
           q == Index(u.col, u.row)
<1>1. /\ t.col \in 0 .. W - 1 /\ t.row \in 0 .. H - 1 /\ t.cell \in [Cells -> Printable]
      /\ t.col \in Nat /\ t.row \in Nat /\ W \in Nat /\ W > 1 /\ H \in Nat
  BY TerminalAssumption DEF Good
<1>2. p \in Nat /\ p \in Cells /\ Blank \in Printable
  BY <1>1, IndexInCells, TerminalAssumption DEF Blank
<1>3. ASSUME NEW x \in 0 .. W - 1, NEW y \in 0 .. H - 1, NEW s \in Good, s.cell = t.cell,
             u = terminal_move_cursor(terminal_putentryat(s, Blank, x, y), x, y),
             p = Index(x, y) + 1
      PROVE  q = p - 1 /\ p > 0 /\ \A k \in 1 .. q : u.cell[q - k] = t.cell[p - (k + 1)]
  <2> DEFINE e == terminal_putentryat(s, Blank, x, y)
             i == Index(x, y)
  <2>1. i \in Cells /\ i \in Nat /\ e \in Good
    BY <1>2, IndexInCells, PutEntryGood
  <2>2. e.cell = [t.cell EXCEPT ![i] = Blank]
    BY <1>3, <2>1 DEF terminal_putentryat, Good
  <2> HIDE DEF e
  <2>3. x \in Nat /\ y \in Nat /\ ~(x >= W \/ y >= H)
    BY <1>1
  <2>4. u = [e EXCEPT !.col = x, !.row = y, !.hw = i]
    BY <1>3, <2>3 DEF terminal_move_cursor, e
  <2> HIDE DEF i
  <2>5. u.col = x /\ u.row = y /\ u.cell = e.cell
    BY <2>1, <2>4 DEF Good
  <2>6. q = i
    BY <2>5 DEF i
  <2>7. p = i + 1
    BY <1>3 DEF i
  <2> HIDE DEF p, q, u
  <2>8. ASSUME NEW k \in 1 .. q PROVE u.cell[q - k] = t.cell[p - (k + 1)]
    <3>1. q - k \in Cells /\ q - k # i /\ p - (k + 1) = q - k
      BY <1>1, <2>1, <2>6, <2>7 DEF Cells
    <3> QED BY <1>1, <2>2, <2>5, <3>1
  <2> QED BY <2>1, <2>6, <2>7, <2>8
<1>4. CASE t.col > 0
  <2> DEFINE x == t.col - 1
             s == [t EXCEPT !.col = x]
  <2>1. x \in 0 .. W - 1 /\ x \in Nat /\ x + 1 = t.col
    BY <1>1, <1>4
  <2>2. u = terminal_move_cursor(terminal_putentryat(s, Blank, x, t.row), x, t.row)
    BY <1>4 DEF terminal_backspace
  <2> HIDE DEF x
  <2>3. p = Index(x, t.row) + 1
    <3>1. Index(x + 1, t.row) = Index(x, t.row) + 1
      BY <1>1, <2>1, RowBelow
    <3> QED BY <2>1, <3>1
  <2>4. s \in Good /\ s.cell = t.cell
    BY <1>1, <2>1, SetColumn, GoodIsBox DEF Good
  <2> HIDE DEF s, u, p, q
  <2>5. q = p - 1 /\ p > 0 /\ \A k \in 1 .. q : u.cell[q - k] = t.cell[p - (k + 1)]
    BY <1>1, <1>3, <2>1, <2>2, <2>3, <2>4
  <2> QED BY <1>2, <2>5 DEF p, q, u
<1>5. CASE ~(t.col > 0) /\ t.row > 0
  <2> DEFINE y == t.row - 1
             s == [t EXCEPT !.col = W - 1, !.row = y]
  <2>1. y \in 0 .. H - 1 /\ y \in Nat /\ y + 1 = t.row /\ W - 1 \in 0 .. W - 1 /\ t.col = 0
    BY <1>1, <1>5
  <2>2. u = terminal_move_cursor(terminal_putentryat(s, Blank, W - 1, y), W - 1, y)
    BY <1>5 DEF terminal_backspace
  <2>3. p = Index(W - 1, y) + 1
    BY <1>1, <2>1, RowBelow
  <2> HIDE DEF y
  <2>4. s \in Good /\ s.cell = t.cell
    BY <1>1, <2>1 DEF Good
  <2> HIDE DEF s, u, p, q
  <2>5. q = p - 1 /\ p > 0 /\ \A k \in 1 .. q : u.cell[q - k] = t.cell[p - (k + 1)]
    BY <1>1, <1>3, <2>1, <2>2, <2>3, <2>4
  <2> QED BY <1>2, <2>5 DEF p, q, u
<1>6. CASE ~(t.col > 0) /\ ~(t.row > 0)
  <2>1. u = t /\ t.col = 0 /\ t.row = 0
    BY <1>1, <1>6 DEF terminal_backspace
  <2>2. p = 0
    BY <1>1, <2>1 DEF Index
  <2> QED BY <2>1, <2>2
<1> QED BY <1>4, <1>5, <1>6

-----------------------------------------------------------------------------
(* A line without its last character.                                      *)
LEMMA Shortened ==
    ASSUME NEW s \in Seq(Printable), Len(s) > 0
    PROVE  LET r == SubSeq(s, 1, Len(s) - 1)
           IN /\ r \in Seq(Printable) /\ Len(r) = Len(s) - 1
              /\ \A i \in 1 .. Len(s) - 1 : r[i] = s[i]
<1> DEFINE n == Len(s) - 1
<1>1. n \in Nat /\ n <= Len(s) /\ Len(s) \in Nat
  OBVIOUS
<1> HIDE DEF n
<1>2. /\ SubSeq(s, 1, n) \in Seq(Printable) /\ Len(SubSeq(s, 1, n)) = n
      /\ \A i \in 1 .. n : SubSeq(s, 1, n)[i] = s[i]
  BY <1>1
<1> QED BY <1>2 DEF n

(* The buffer: one byte is always left for the terminating zero.           *)
LEMMA FitsNext == LineFits /\ (Editing \/ (\E n \in LineSizes : Gets(n))) => LineFits'
<1> SUFFICES ASSUME LineFits, Editing \/ (\E n \in LineSizes : Gets(n)) PROVE LineFits'
  OBVIOUS
<1>1. ASSUME NEW n \in LineSizes, Gets(n) PROVE LineFits'
  <2>1. n \in Nat /\ line' = <<>> /\ size' = n /\ pc' = IF n > 1 THEN "gets" ELSE "idle"
    BY <1>1, TerminalAssumption DEF Gets
  <2>2. line' \in Seq(Printable) /\ Len(line') = 0
    BY <2>1
  <2> QED BY <2>1, <2>2 DEF LineFits, TypeOK
<1>2. ASSUME NEW c \in Keyboard, GetsChar(c) PROVE LineFits'
  <2>1. /\ pc = "gets" /\ size' = size /\ line \in Seq(Printable) /\ Len(line) \in Nat
        /\ size \in LineSizes \cup {0} /\ size \in Nat /\ Len(line) < size - 1
    BY <1>2, TerminalAssumption DEF GetsChar, LineFits, TypeOK
  <2>2. CASE UNCHANGED line /\ pc' \in {"idle", pc}
    BY <2>1, <2>2 DEF LineFits, TypeOK
  <2>3. CASE Len(line) > 0 /\ line' = SubSeq(line, 1, Len(line) - 1) /\ pc' = pc
    <3>1. line' \in Seq(Printable) /\ Len(line') = Len(line) - 1
      BY <2>1, <2>3, Shortened
    <3> QED BY <2>1, <2>3, <3>1 DEF LineFits, TypeOK
  <2>4. CASE /\ c \in Printable /\ line' = Append(line, c)
             /\ pc' = IF Len(line') < size - 1 THEN "gets" ELSE "idle"
    <3>1. line' \in Seq(Printable) /\ Len(line') = Len(line) + 1
      BY <2>1, <2>4
    <3> QED BY <2>1, <2>4, <3>1 DEF LineFits, TypeOK
  <2> QED BY <1>2, <2>2, <2>3, <2>4 DEF GetsChar
<1> QED BY <1>1, <1>2 DEF Editing

(* The line on the screen, one turn of the loop.                           *)
LEMMA ShownNext ==
    ASSUME term \in Good, LineFits, LineOnScreen, Editing
    PROVE  LineOnScreen'
<1> SUFFICES ASSUME pc' = "gets" PROVE LineOnScreen'
  BY DEF LineOnScreen
<1> DEFINE n == Len(line)
           p == Index(term.col, term.row)
           q == Index(term'.col, term'.row)
<1>1. PICK c \in Keyboard : GetsChar(c)
  BY DEF Editing
<1>2. /\ pc = "gets" /\ line \in Seq(Printable) /\ n \in Nat
      /\ \A i \in 1 .. n : n - i + 1 <= p => term.cell[p - (n - i + 1)] = line[i]
  BY <1>1 DEF GetsChar, LineFits, TypeOK, LineOnScreen
<1>3. CASE UNCHANGED <<line, term>>
  BY <1>2, <1>3 DEF LineOnScreen, Index
<1>4. CASE /\ n > 0 /\ line' = SubSeq(line, 1, n - 1)
           /\ term' = terminal_backspace(term)
  <2>1. /\ p \in Nat /\ q = (IF p > 0 THEN p - 1 ELSE 0)
        /\ \A k \in 1 .. q : term'.cell[q - k] = term.cell[p - (k + 1)]
    BY <1>4, BackspaceShows
  <2>2. /\ Len(line') = n - 1 /\ \A i \in 1 .. n - 1 : line'[i] = line[i]
    BY <1>2, <1>4, Shortened
  <2> HIDE DEF n, p, q
  <2>3. ASSUME NEW i \in 1 .. n - 1, n - 1 - i + 1 <= q
        PROVE  term'.cell[q - (n - 1 - i + 1)] = line'[i]
    <3> DEFINE k == n - 1 - i + 1
    <3>1. k \in 1 .. q /\ k + 1 = n - i + 1 /\ n - i + 1 <= p /\ i \in 1 .. n
      BY <1>2, <2>1, <2>3
    <3>2. term'.cell[q - k] = term.cell[p - (n - i + 1)]
      BY <2>1, <3>1
    <3> QED BY <1>2, <2>2, <3>1, <3>2
  <2>4. \A i \in 1 .. Len(line') :
           Len(line') - i + 1 <= q => term'.cell[q - (Len(line') - i + 1)] = line'[i]
    <3>1. \A i \in 1 .. n - 1 :
             n - 1 - i + 1 <= q => term'.cell[q - (n - 1 - i + 1)] = line'[i]
      BY <2>3
    <3>2. Len(line') = n - 1
      BY <2>2
    <3> QED BY <3>1, <3>2, Zenon
  <2> QED BY <2>4 DEF LineOnScreen, q
<1>5. CASE /\ c \in Printable /\ line' = Append(line, c)
           /\ term' = terminal_putchar(term, c)
  <2>1. /\ p \in Nat /\ q \in 1 .. p + 1 /\ term'.cell[q - 1] = c
        /\ \A k \in 2 .. q : term'.cell[q - k] = term.cell[p - (k - 1)]
    BY <1>5, PutcharShows
  <2>2. Len(line') = n + 1 /\ line'[n + 1] = c /\ \A i \in 1 .. n : line'[i] = line[i]
    BY <1>2, <1>5
  <2> HIDE DEF n, p, q
  <2>3. ASSUME NEW i \in 1 .. n + 1, (n + 1) - i + 1 <= q
        PROVE  term'.cell[q - ((n + 1) - i + 1)] = line'[i]
    <3>1. CASE i = n + 1
      <4>1. (n + 1) - i + 1 = 1
        BY <1>2, <3>1
      <4> QED BY <2>1, <2>2, <3>1, <4>1
    <3>2. CASE i # n + 1
      <4> DEFINE k == (n + 1) - i + 1
      <4>1. k \in 2 .. q /\ k - 1 = n - i + 1 /\ n - i + 1 <= p /\ i \in 1 .. n
        BY <1>2, <2>1, <2>3, <3>2
      <4>2. term'.cell[q - k] = term.cell[p - (n - i + 1)]
        BY <2>1, <4>1
      <4> QED BY <1>2, <2>2, <4>1, <4>2
    <3> QED BY <3>1, <3>2
  <2>4. \A i \in 1 .. Len(line') :
           Len(line') - i + 1 <= q => term'.cell[q - (Len(line') - i + 1)] = line'[i]
    <3>1. \A i \in 1 .. n + 1 :
             (n + 1) - i + 1 <= q => term'.cell[q - ((n + 1) - i + 1)] = line'[i]
      BY <2>3
    <3>2. Len(line') = n + 1
      BY <2>2
    <3> QED BY <3>1, <3>2, Zenon
  <2> QED BY <2>4 DEF LineOnScreen, q
<1> QED BY <1>1, <1>2, <1>3, <1>4, <1>5 DEF GetsChar

LEMMA EditorInit == ConInit => EditorSound
<1> SUFFICES ASSUME ConInit PROVE EditorSound
  OBVIOUS
<1>1. pc = "idle" /\ size = 0 /\ line = <<>>
  BY DEF ConInit, Init
<1>2. line \in Seq(Printable)
  BY <1>1
<1> QED BY <1>1, <1>2 DEF EditorSound, LineFits, TypeOK, LineOnScreen

LEMMA EditorNext ==
    ConInv /\ CalmInv /\ EditorSound /\ [ConNext]_allVars => EditorSound'
<1> SUFFICES ASSUME ConInv, CalmInv, EditorSound, [ConNext]_allVars PROVE EditorSound'
  OBVIOUS
<1>0. LineFits /\ (calm => LineOnScreen)
  BY DEF EditorSound
<1>1. ASSUME UNCHANGED editVars, ~ calm' \/ pc' # "gets" PROVE EditorSound'
  BY <1>0, <1>1 DEF EditorSound, LineFits, TypeOK, LineOnScreen, editVars
<1>2. ASSUME NEW c \in Printable \cup Control, BeginPut(c) PROVE EditorSound'
  <2>1. UNCHANGED editVars /\ pc' # "gets"
    BY <1>2 DEF BeginPut, editVars, vars
  <2> QED BY <1>1, <2>1
<1>3. CASE Putting
  <2>1. UNCHANGED editVars /\ pc' # "gets"
    BY <1>3, StepFrame DEF CalmInv, editVars
  <2> QED BY <1>1, <2>1
<1>4. CASE Whole
  <2>1. Quiet /\ UNCHANGED <<calm, hit, left>>
    BY <1>4 DEF Whole, conVars
  <2>2. CASE Editing
    <3>1. term \in Good
      BY <2>1, KeptInv, QuietGood DEF Quiet
    <3>2. LineFits'
      BY <1>0, <2>2, FitsNext
    <3>3. calm' => LineOnScreen'
      BY <1>0, <2>1, <2>2, <3>1, ShownNext
    <3> QED BY <3>2, <3>3 DEF EditorSound
  <2>3. CASE ~ Editing
    <3>1. UNCHANGED editVars /\ pc' # "gets"
      BY <1>4, <2>3 DEF Whole, Newline, Backspace, Delete, Scroll, ClearLine, ClearFrom,
         ClearTo, Clear, MoveCursor, Idle, editVars
    <3> QED BY <1>1, <3>1
  <2> QED BY <2>2, <2>3
<1>5. CASE BeginLine
  <2>1. LineFits' /\ line' = <<>>
    BY <1>0, <1>5, FitsNext DEF BeginLine, Gets
  <2>2. LineOnScreen'
    BY <2>1 DEF LineOnScreen
  <2> QED BY <2>1, <2>2 DEF EditorSound
<1>6. CASE timer_callback \/ StatusChar
  <2>1. UNCHANGED editVars /\ ~ calm'
    BY <1>6 DEF timer_callback, StatusChar, CalmInv
  <2> QED BY <1>1, <2>1
<1>7. ASSUME NEW c \in EchoKeys, Echo(c) PROVE EditorSound'
  <2>1. UNCHANGED editVars /\ ~ calm'
    BY <1>7 DEF Echo
  <2> QED BY <1>1, <2>1
<1>8. CASE UNCHANGED allVars
  BY <1>0, <1>8 DEF EditorSound, LineFits, TypeOK, LineOnScreen, Index, allVars, vars, conVars
<1> QED BY <1>2, <1>3, <1>4, <1>5, <1>6, <1>7, <1>8 DEF ConNext

(***************************************************************************)
(* terminal_gets keeps one byte of its buffer for the terminating zero,    *)
(* and, as long as no handler prints, what it has stored is what stands in *)
(* front of the cursor, across line wraps, scrolling and erasures over the *)
(* left margin, for every screen size.                                     *)
(***************************************************************************)
THEOREM EditorSoundAlways == ConSpec => []EditorSound
<1>1. ConInv /\ CalmInv /\ EditorSound /\ [ConNext]_allVars => EditorSound'
  BY EditorNext
<1> QED BY <1>1, EditorInit, CalmAlways, PTL DEF ConSpec
=============================================================================
