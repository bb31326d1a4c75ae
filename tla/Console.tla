------------------------------ MODULE Console ------------------------------
(***************************************************************************)
(* The text console of kernel/console.c: the VGA text memory, the virtual  *)
(* terminals with their buffers and cursors, the ring of lines that left   *)
(* the screen and the view of it.  printk and the print functions are      *)
(* sequences of PrintChar.                                                 *)
(*                                                                         *)
(* A cell is a character; colours are left out, and a cell nobody wrote    *)
(* (static storage, 0) is a blank, which it looks like.  update_cursor     *)
(* only writes the CRT controller's ports and is left out too.             *)
(***************************************************************************)
EXTENDS Integers, Sequences

CONSTANTS
  VGA_WIDTH, VGA_HEIGHT, TTY_COUNT, HISTORY_SIZE,
  ColModulus,    \* 256 in the code: cursor_col is a uint8_t
  Letters        \* the printable characters in use besides the blank

ASSUME SizesAssumption ==
  /\ VGA_WIDTH \in Nat \ {0} /\ VGA_HEIGHT \in Nat \ {0, 1}
  /\ TTY_COUNT \in Nat \ {0} /\ HISTORY_SIZE \in Nat \ {0}
  /\ ColModulus \in Nat /\ ColModulus > VGA_WIDTH /\ ColModulus % 4 = 0

VARIABLES
  vga,                                    \* what is on the screen
  tty_buf, tty_row, tty_col, tty_cur,
  cursor_row, cursor_col,
  screen_backup,
  simple_history, history_write_pos, history_count,
  is_viewing_history, history_view_offset,
  lately         \* ghost: the last HISTORY_SIZE lines saved, the newest last

screenVars == <<vga, screen_backup>>
ttyVars == <<tty_buf, tty_row, tty_col, tty_cur>>
cursorVars == <<cursor_row, cursor_col>>
historyVars == <<simple_history, history_write_pos, history_count, lately>>
viewVars == <<is_viewing_history, history_view_offset>>
vars == <<screenVars, ttyVars, cursorVars, historyVars, viewVars>>

Less(a, b) == IF a < b THEN a ELSE b
Greater(a, b) == IF a > b THEN a ELSE b

Rows == 0..(VGA_HEIGHT - 1)
Cols == 0..(VGA_WIDTH - 1)
Area == VGA_WIDTH * VGA_HEIGHT
Ttys == 0..(TTY_COUNT - 1)

Blank == " "
PromptCell == "prompt"   \* a cell of the history view's last line
LF == "LF"
CR == "CR"
TAB == "TAB"
Printing == Letters \cup {Blank}
Cells == Printing \cup {PromptCell}
Screens == [0..(Area - 1) -> Cells]

Empty == [i \in 0..(Area - 1) |-> Blank]
Row(screen, r) == [c \in Cols |-> screen[r * VGA_WIDTH + c]]
TBUF == tty_buf[tty_cur]

\* Rows move up (or down) by one and the row left open is emptied.
RolledUp(s) ==
  [i \in 0..(Area - 1) |-> IF i < Area - VGA_WIDTH THEN s[i + VGA_WIDTH] ELSE Blank]
RolledDown(s) ==
  [i \in 0..(Area - 1) |-> IF i >= VGA_WIDTH THEN s[i - VGA_WIDTH] ELSE Blank]

\* save_line_to_history for each row of `lines`, in order.
Latest(lines) == SubSeq(lines, Greater(1, Len(lines) - HISTORY_SIZE + 1), Len(lines))

SaveLines(lines) ==
  /\ simple_history' =
       [h \in 0..(HISTORY_SIZE - 1) |->
          LET hits == {k \in 1..Len(lines) : (history_write_pos + k - 1) % HISTORY_SIZE = h} IN
          IF hits = {} THEN simple_history[h]
          ELSE lines[CHOOSE k \in hits : \A j \in hits : j <= k]]
  /\ history_write_pos' = (history_write_pos + Len(lines)) % HISTORY_SIZE
  /\ history_count' = Less(HISTORY_SIZE, history_count + Len(lines))
  /\ lately' = Latest(lately \o lines)

BlankRow == [c \in Cols |-> Blank]

\* After console_init: the rows the BIOS left went to the history.
Init ==
  /\ vga = Empty
  /\ tty_buf = [t \in Ttys |-> Empty]
  /\ tty_row = [t \in Ttys |-> 0]
  /\ tty_col = [t \in Ttys |-> 0]
  /\ tty_cur = 0
  /\ cursor_row = 0
  /\ cursor_col = 0
  /\ screen_backup = Empty
  /\ lately = Latest([r \in 1..VGA_HEIGHT |-> BlankRow])
  /\ simple_history = [h \in 0..(HISTORY_SIZE - 1) |-> BlankRow]
  /\ history_write_pos = VGA_HEIGHT % HISTORY_SIZE
  /\ history_count = Len(lately)
  /\ is_viewing_history = FALSE
  /\ history_view_offset = 0

-----------------------------------------------------------------------------
(* print_char_color. *)

Prints(ch) == ch \in Printing
Wraps == cursor_col >= VGA_WIDTH
RowAfter(ch) == IF ch = LF \/ (Prints(ch) /\ Wraps) THEN cursor_row + 1 ELSE cursor_row
ColAfter(ch) ==
  CASE ch \in {LF, CR} -> 0
    [] ch = TAB -> (((cursor_col + 4) \div 4) * 4) % ColModulus
    [] OTHER -> IF Wraps THEN 1 ELSE cursor_col + 1

\* The index a printed character is written to, and screen s with it there.  A
\* character that wraps off the last row has index Area, which no screen has.
CellOf(ch) == RowAfter(ch) * VGA_WIDTH + ColAfter(ch) - 1
Overfull(ch) == RowAfter(ch) > VGA_HEIGHT        \* faulty: the screen scrolls a row too late
Scrolls(ch) == RowAfter(ch) >= VGA_HEIGHT
With(s, ch) == IF Prints(ch) /\ CellOf(ch) < Area THEN [s EXCEPT ![CellOf(ch)] = ch] ELSE s
OverrunsScreen(ch) == Prints(ch) /\ CellOf(ch) = Area

\* Index Area of a buffer is the first cell of the next one.  After the last come
\* cursor_col and cursor_row (kernel.elf), which scroll_screen sets right after.
Overrun(ch) ==
  [t \in Ttys |->
     IF OverrunsScreen(ch) /\ t = tty_cur + 1 THEN [tty_buf[t] EXCEPT ![0] = ch] ELSE tty_buf[t]]

Leave(text) == IF is_viewing_history THEN screen_backup ELSE text

PrintChar(ch) ==
  LET text == With(Leave(TBUF), ch)
      seen == With(Leave(vga), ch)
  IN
  /\ tty_buf' = [Overrun(ch) EXCEPT ![tty_cur] = IF Scrolls(ch) THEN RolledUp(text) ELSE text]
  /\ vga' = IF Scrolls(ch) THEN RolledUp(text) ELSE seen
  /\ screen_backup' = vga'
  /\ IF Scrolls(ch)
       THEN cursor_row' = VGA_HEIGHT - 1 /\ cursor_col' = 0 /\ SaveLines(<<Row(seen, 0)>>)
       ELSE cursor_row' = RowAfter(ch) /\ cursor_col' = ColAfter(ch) /\ UNCHANGED historyVars
  /\ is_viewing_history' = FALSE
  /\ history_view_offset' = IF is_viewing_history THEN 0 ELSE history_view_offset
  /\ UNCHANGED <<tty_row, tty_col, tty_cur>>

ClearScreen ==
  /\ SaveLines([r \in 1..VGA_HEIGHT |-> Row(vga, r - 1)])
  /\ vga' = Empty
  /\ tty_buf' = [tty_buf EXCEPT ![tty_cur] = Empty]
  /\ cursor_row' = 0
  /\ cursor_col' = 0
  /\ screen_backup' = Empty
  /\ is_viewing_history' = FALSE
  /\ UNCHANGED <<tty_row, tty_col, tty_cur, history_view_offset>>

\* Faulty variants: the backup, or the column, of the terminal left is not saved.
VtSwitchWithoutBackup(t) ==
  /\ t \in Ttys \ {tty_cur}
  /\ tty_row' = [tty_row EXCEPT ![tty_cur] = cursor_row]
  /\ tty_col' = [tty_col EXCEPT ![tty_cur] = cursor_col]
  /\ tty_cur' = t
  /\ cursor_row' = tty_row[t]
  /\ cursor_col' = tty_col[t]
  /\ vga' = tty_buf[t]
  /\ UNCHANGED <<tty_buf, screen_backup, historyVars, viewVars>>

VtSwitchForgetting(t) ==
  /\ t \in Ttys \ {tty_cur}
  /\ tty_row' = [tty_row EXCEPT ![tty_cur] = cursor_row]
  /\ tty_cur' = t
  /\ cursor_row' = tty_row[t]
  /\ cursor_col' = tty_col[t]
  /\ vga' = tty_buf[t]
  /\ screen_backup' = vga'
  /\ UNCHANGED <<tty_buf, tty_col, historyVars, viewVars>>

\* vt_switch; for the active terminal or one that does not exist it returns at once.
VtSwitch(t) ==
  /\ t \in Ttys \ {tty_cur}
  /\ tty_row' = [tty_row EXCEPT ![tty_cur] = cursor_row]
  /\ tty_col' = [tty_col EXCEPT ![tty_cur] = cursor_col]
  /\ tty_cur' = t
  /\ cursor_row' = tty_row[t]
  /\ cursor_col' = tty_col[t]
  /\ vga' = tty_buf[t]
  /\ screen_backup' = vga'
  /\ UNCHANGED <<tty_buf, historyVars, viewVars>>

-----------------------------------------------------------------------------
(* The view of the history. *)

\* show_history_lines with the view `offset` lines back.  C's remainder of a
\* negative number is not positive; the code adds HISTORY_SIZE to it.
LinesToShow == Less(VGA_HEIGHT - 1, history_count)
StartAfter(offset) == (history_write_pos - offset) % HISTORY_SIZE   \* faulty: the lines shown are not counted
StartIndex(offset) == (history_write_pos - LinesToShow - offset) % HISTORY_SIZE

\* The characters from 32 to 126 are shown, the view's own prompt among them.
Shown(cell) == IF cell \in Cells THEN cell ELSE Blank
HistoryLine(offset, r) == simple_history[(StartIndex(offset) + r) % HISTORY_SIZE]
HistoryScreen(offset) ==
  [i \in 0..(Area - 1) |->
     LET r == i \div VGA_WIDTH  c == i % VGA_WIDTH IN
     IF r < LinesToShow THEN Shown(HistoryLine(offset, r)[c])
     ELSE IF r = LinesToShow THEN PromptCell ELSE Blank]

\* view_history_up and view_history_down.
OlderOffset == Greater(0, Less(history_view_offset + 1, history_count - (VGA_HEIGHT - 1)))

ViewHistoryUp ==
  /\ IF history_count = 0 THEN UNCHANGED <<screenVars, viewVars>>
     ELSE
       /\ is_viewing_history' = TRUE
       /\ screen_backup' = IF is_viewing_history THEN screen_backup ELSE vga
       /\ history_view_offset' = IF is_viewing_history THEN OlderOffset ELSE 0
       /\ vga' = HistoryScreen(history_view_offset')
  /\ UNCHANGED tty_buf

ViewHistoryDown ==
  IF ~is_viewing_history
    THEN UNCHANGED <<screenVars, viewVars, tty_buf>>
  ELSE IF history_view_offset = 0
    THEN /\ is_viewing_history' = FALSE
         /\ vga' = screen_backup
         /\ tty_buf' = [tty_buf EXCEPT ![tty_cur] = screen_backup]
         /\ UNCHANGED <<screen_backup, history_view_offset>>
    ELSE /\ history_view_offset' = history_view_offset - 1
         /\ vga' = HistoryScreen(history_view_offset')
         /\ UNCHANGED <<screen_backup, is_viewing_history, tty_buf>>

-----------------------------------------------------------------------------
(* Cursor movement and scrolling. *)

MoveCursorUp ==
  /\ IF cursor_row > 0
       THEN cursor_row' = cursor_row - 1 /\ UNCHANGED <<screenVars, viewVars, tty_buf>>
       ELSE ViewHistoryUp /\ UNCHANGED cursor_row
  /\ UNCHANGED <<tty_row, tty_col, tty_cur, cursor_col, historyVars>>

MoveCursorDown ==
  /\ IF cursor_row < VGA_HEIGHT - 1
       THEN cursor_row' = cursor_row + 1 /\ UNCHANGED <<screenVars, viewVars, tty_buf>>
       ELSE ViewHistoryDown /\ UNCHANGED cursor_row
  /\ UNCHANGED <<tty_row, tty_col, tty_cur, cursor_col, historyVars>>

MoveCursorLeft ==
  /\ IF cursor_col > 0
       THEN cursor_col' = cursor_col - 1 /\ UNCHANGED cursor_row
       ELSE /\ cursor_row > 0
            /\ cursor_row' = cursor_row - 1 /\ cursor_col' = VGA_WIDTH - 1
  /\ UNCHANGED <<screenVars, ttyVars, historyVars, viewVars>>

MoveCursorRight ==
  /\ IF cursor_col < VGA_WIDTH - 1
       THEN cursor_col' = cursor_col + 1 /\ UNCHANGED cursor_row
       ELSE /\ cursor_row < VGA_HEIGHT - 1
            /\ cursor_row' = cursor_row + 1 /\ cursor_col' = 0
  /\ UNCHANGED <<screenVars, ttyVars, historyVars, viewVars>>

SetCursorCol(c) ==
  /\ c \in Cols
  /\ cursor_col' = c
  /\ UNCHANGED <<cursor_row, screenVars, ttyVars, historyVars, viewVars>>

SetCursorRow(r) ==
  /\ r \in Rows
  /\ cursor_row' = r
  /\ UNCHANGED <<cursor_col, screenVars, ttyVars, historyVars, viewVars>>

ScrollUp ==
  /\ SaveLines(<<Row(vga, 0)>>)
  /\ vga' = RolledUp(TBUF)
  /\ tty_buf' = [tty_buf EXCEPT ![tty_cur] = vga']
  /\ screen_backup' = vga'
  /\ cursor_row' = Greater(0, cursor_row - 1)
  /\ UNCHANGED <<cursor_col, tty_row, tty_col, tty_cur, viewVars>>

ScrollDown ==
  /\ SaveLines(<<Row(vga, VGA_HEIGHT - 1)>>)
  /\ vga' = RolledDown(TBUF)
  /\ tty_buf' = [tty_buf EXCEPT ![tty_cur] = vga']
  /\ screen_backup' = vga'
  /\ cursor_row' = Less(VGA_HEIGHT - 1, cursor_row + 1)
  /\ UNCHANGED <<cursor_col, tty_row, tty_col, tty_cur, viewVars>>

\* Bound: a letter is printed when no terminal has it, to follow where it goes.
Nowhere(ch) == \A t \in Ttys, i \in 0..(Area - 1) : tty_buf[t][i] # ch

Next ==
  \/ \E ch \in Letters : Nowhere(ch) /\ PrintChar(ch)
  \/ \E ch \in {Blank, LF, CR, TAB} : PrintChar(ch)
  \/ ClearScreen
  \/ \E t \in Ttys : VtSwitch(t)
  \/ MoveCursorUp \/ MoveCursorDown \/ MoveCursorLeft \/ MoveCursorRight
  \/ \E c \in Cols : SetCursorCol(c)
  \/ \E r \in Rows : SetCursorRow(r)
  \/ ScrollUp \/ ScrollDown

Spec == Init /\ [][Next]_vars

-----------------------------------------------------------------------------
(* Properties. *)

Lines == [Cols -> Cells]

ConsoleTypeOK ==
  /\ vga \in Screens /\ screen_backup \in Screens
  /\ tty_buf \in [Ttys -> Screens]
  /\ tty_row \in [Ttys -> Rows] /\ tty_col \in [Ttys -> 0..(ColModulus - 1)]
  /\ tty_cur \in Ttys
  /\ cursor_row \in Rows /\ cursor_col \in 0..(ColModulus - 1)
  /\ simple_history \in [0..(HISTORY_SIZE - 1) -> Lines]
  /\ history_write_pos \in 0..(HISTORY_SIZE - 1) /\ history_count \in 0..HISTORY_SIZE
  /\ is_viewing_history \in BOOLEAN
  /\ history_view_offset \in 0..HISTORY_SIZE

\* The screen and the active terminal never drift apart: the screen shows the
\* terminal's text or, in the history view, the backup holds that text for the
\* return, through switches of terminal and scrolling inside the view.
ScreenIsTerminal ==
  IF is_viewing_history THEN screen_backup = TBUF ELSE vga = TBUF

\* A terminal as it will be when it is next switched to.
Terminal(t) ==
  IF t = tty_cur THEN <<cursor_row, cursor_col, tty_buf[t]>> ELSE <<tty_row[t], tty_col[t], tty_buf[t]>>

\* What is done on one terminal leaves the text and the cursor of the others alone,
\* and a switch changes none.  The one exception is a character that wraps off the
\* last row: it lands in the first cell of the next terminal's buffer.
TtysIsolated ==
  [][\A t \in Ttys :
       (t # tty_cur \/ tty_cur' # tty_cur) =>
         \/ Terminal(t)' = Terminal(t)
         \/ t = tty_cur + 1 /\ \E ch \in Printing : OverrunsScreen(ch) /\ PrintChar(ch)]_vars

\* Moving in the history view shows consecutive lines of the latest that left the
\* screen, the view's offset back from the newest, however often the ring wrapped.
ViewShowsHistory ==
  [][(MoveCursorUp \/ MoveCursorDown) /\ vga' # vga /\ is_viewing_history' =>
       \A r \in 0..(LinesToShow - 1) :
         LET k == Len(lately) - LinesToShow - history_view_offset' + r + 1 IN
         /\ k \in 1..Len(lately)
         /\ Row(vga', r) = [c \in Cols |-> Shown(lately[k][c])]]_vars

\* "Print a single character" (console.h): the character printed is on the screen,
\* before the cursor.
PrintedIsShown ==
  [][\A ch \in Printing :
       PrintChar(ch) =>
         \E i \in 0..(Area - 1) :
           i = cursor_row' * VGA_WIDTH + cursor_col' - 1 /\ vga'[i] = ch]_vars
=============================================================================
