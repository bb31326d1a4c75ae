------------------------------- MODULE Shell -------------------------------
(***************************************************************************)
(* The command line of kernel/shell.c: one action per key that             *)
(* shell_process_input handles once shell_init has run.                    *)
(*                                                                         *)
(* The screen is Rows rows of Width cells, numbered from its upper left    *)
(* corner: at a margin the console prints and moves on to the next row as  *)
(* if the rows were one.  What it does to text that comes to the screen's  *)
(* last cell is Console's; here the screen is followed up to there.        *)
(***************************************************************************)
EXTENDS Integers, Sequences, SequencesExt

CONSTANTS
  MAX_CMD_LEN, MAX_ARGS, MAX_CMD_HISTORY,
  Letters,       \* characters other than the blank that keys give
  Width, Rows,   \* of the screen
  BannerRows,    \* rows that shell_init prints
  OutputRows,    \* bound on the rows that a command prints
  MaxBlanks      \* bound on the blanks of a line

NUL == "NUL"
Blank == " "
Chars == Letters \cup {Blank}
PROMPT == <<">", Blank>>
Earlier == "earlier"     \* a cell above the prompt, whatever it shows

ASSUME ShellAssumption ==
  /\ NUL \notin Letters
  /\ MAX_CMD_LEN \in Nat /\ MAX_CMD_LEN > 1
  /\ MAX_ARGS \in Nat /\ MAX_ARGS > 1
  /\ MAX_CMD_HISTORY \in Nat \ {0}
  /\ Width \in Nat /\ Width > Len(PROMPT) /\ MAX_CMD_LEN + Len(PROMPT) <= 2 * Width + 1
  /\ Rows \in Nat /\ Rows > 1
  /\ BannerRows \in 0..(Rows - 1) /\ OutputRows \in Nat \ {0} /\ MaxBlanks \in Nat

VARIABLES
  cmd_history,       \* the entries in use, the oldest first
  history_current,
  cmd_buffer, cmd_pos, cursor_pos,
  saved_cmd,
  screen,            \* the console, as far as the shell uses it: see below
  base               \* ghost: where on the screen the line being typed began

lineVars == <<cmd_buffer, cmd_pos, cursor_pos>>
historyVars == <<cmd_history, history_current, saved_cmd>>
vars == <<lineVars, historyVars, screen, base>>

Indexes == 0..(MAX_CMD_LEN - 1)
Size == Rows * Width
LastRow == (Rows - 1) * Width
Positions == 0..(Size - 1)

\* strlen, the string at an index of a buffer, and str_copy into a buffer.
StrEnd(buf, from) == CHOOSE n \in from..(MAX_CMD_LEN - 1) :
                       buf[n] = NUL /\ \A m \in from..(n - 1) : buf[m] # NUL
Str(buf, from) == [k \in 1..(StrEnd(buf, from) - from) |-> buf[from + k - 1]]
Copied(buf, str) ==
  [i \in Indexes |->
     IF i < Len(str) THEN str[i + 1] ELSE IF i = Len(str) THEN NUL ELSE buf[i]]

-----------------------------------------------------------------------------
(* The console: what the cells show, the cursor's position, whether it is  *)
(* still after the last column of a row that a print filled (`full`: it is *)
(* the next print that wraps), and whether the screen is followed.         *)

Greater(a, b) == IF a > b THEN a ELSE b
Blanks(n) == [k \in 1..n |-> Blank]

Printed(t, str) ==
  [cells |-> [p \in Positions |->
                IF p >= t.at /\ p < t.at + Len(str) THEN str[p - t.at + 1] ELSE t.cells[p]],
   at |-> t.at + Len(str),
   full |-> IF Len(str) = 0 THEN t.full ELSE (t.at + Len(str)) % Width = 0,
   followed |-> t.followed /\ t.at + Len(str) < Size]

\* move_cursor_left, n times: it stops in the corner.
Left(t, n) ==
  IF n = 0 THEN t ELSE [t EXCEPT !.at = Greater(0, @ - n), !.full = FALSE]

\* move_cursor_right, n times: from after the last column the first only changes rows.
Right(t, n) ==
  IF n = 0 THEN t ELSE [t EXCEPT !.at = IF t.full THEN @ + n - 1 ELSE @ + n, !.full = FALSE]

\* n rows of output on what is there, from the row that begins at `from`, and the cursor
\* on the row after them; at the last row the screen scrolls.  What the rows above the
\* cursor show now is not told apart.
Output(t, from, n) ==
  LET to == from + n * Width
      scrolled == Greater(0, to - LastRow)
  IN [cells |-> [p \in Positions |->
                   IF p + scrolled < to THEN Earlier
                   ELSE IF p + scrolled < Size THEN t.cells[p + scrolled] ELSE Blank],
      at |-> to - scrolled, full |-> FALSE, followed |-> t.followed]

\* A line feed, then n rows of output: it goes below the cursor's row and clears nothing.
RowOf(t) == IF t.full THEN t.at - Width ELSE t.at - (t.at % Width)
Fed(t, n) == Output(t, RowOf(t) + Width, n)

Cleared == [cells |-> [p \in Positions |-> Blank], at |-> 0, full |-> FALSE, followed |-> TRUE]
Lost == [cells |-> [p \in Positions |-> Earlier], at |-> 0, full |-> FALSE, followed |-> FALSE]

Show(t) == screen' = IF t.followed THEN t ELSE Lost

\* redraw_from_cursor of a line of `pos` characters.
RedrawnShort(t, buf, pos, cursor) ==   \* faulty: the cell after the line is not cleared
  LET tail == IF cursor < pos THEN Str(buf, cursor) ELSE <<>> IN
  Left(Printed(t, tail), pos - cursor)

Redrawn(t, buf, pos, cursor) ==
  LET tail == IF cursor < pos THEN Str(buf, cursor) ELSE <<>> IN
  Left(Printed(t, tail \o Blanks(1)), pos + 1 - cursor)

-----------------------------------------------------------------------------
Init ==
  /\ cmd_history = <<>>
  /\ history_current = -1
  /\ cmd_buffer = [i \in Indexes |-> NUL]
  /\ cmd_pos = 0
  /\ cursor_pos = 0
  /\ saved_cmd = <<>>
  /\ screen = Printed(Output(Cleared, 0, BannerRows), PROMPT)
  /\ base = screen.at

\* A printable character, while there is room for it.
OpenedForwards(c) ==   \* faulty: copying upwards repeats the first character moved
  [i \in Indexes |->
     IF i = cursor_pos THEN c
     ELSE IF i > cursor_pos /\ i <= cmd_pos THEN cmd_buffer[cursor_pos]
     ELSE cmd_buffer[i]]

Opened(c) ==
  [i \in Indexes |->
     IF i = cursor_pos THEN c
     ELSE IF i > cursor_pos /\ i <= cmd_pos THEN cmd_buffer[i - 1]
     ELSE cmd_buffer[i]]

RoomWithoutEnd == cmd_pos < MAX_CMD_LEN   \* faulty: no room is kept for the NUL
Room == cmd_pos < MAX_CMD_LEN - 1

TypeChar(c) ==
  /\ Room
  /\ cmd_buffer' = [Opened(c) EXCEPT ![cmd_pos + 1] = NUL]
  /\ cmd_pos' = cmd_pos + 1
  /\ cursor_pos' = cursor_pos + 1
  /\ LET echoed == Printed(screen, <<c>>) IN
       Show(IF cursor_pos' < cmd_pos' THEN Redrawn(echoed, cmd_buffer', cmd_pos', cursor_pos') ELSE echoed)
  /\ UNCHANGED <<historyVars, base>>

\* The line without its character at index i.
ClosedWithoutEnd(i) ==   \* faulty: the shorter line is not ended
  [j \in Indexes |-> IF j >= i /\ j < cmd_pos - 1 THEN cmd_buffer[j + 1] ELSE cmd_buffer[j]]

Closed(i) ==
  [[j \in Indexes |-> IF j >= i /\ j < cmd_pos - 1 THEN cmd_buffer[j + 1] ELSE cmd_buffer[j]]
     EXCEPT ![cmd_pos - 1] = NUL]

Backspace ==
  /\ cursor_pos > 0
  /\ cmd_buffer' = Closed(cursor_pos - 1)
  /\ cmd_pos' = cmd_pos - 1
  /\ cursor_pos' = cursor_pos - 1
  /\ Show(Redrawn(Left(screen, 1), cmd_buffer', cmd_pos', cursor_pos'))
  /\ UNCHANGED <<historyVars, base>>

Delete ==
  /\ cursor_pos < cmd_pos
  /\ cmd_buffer' = Closed(cursor_pos)
  /\ cmd_pos' = cmd_pos - 1
  /\ Show(Redrawn(screen, cmd_buffer', cmd_pos', cursor_pos))
  /\ UNCHANGED <<cursor_pos, historyVars, base>>

\* Left, Right, Home and End.
MoveTo(pos) ==
  /\ cursor_pos' = pos
  /\ Show(IF pos > cursor_pos THEN Right(screen, pos - cursor_pos) ELSE Left(screen, cursor_pos - pos))
  /\ UNCHANGED <<cmd_buffer, cmd_pos, historyVars, base>>

KeyLeft == cursor_pos > 0 /\ MoveTo(cursor_pos - 1)
KeyRight == cursor_pos < cmd_pos /\ MoveTo(cursor_pos + 1)
KeyHome == MoveTo(0)
KeyEnd == MoveTo(cmd_pos)

\* history_show(1) and history_show(-1), whose index the two keys compute.
ShowEntry(index, draft) ==
  LET str == IF index = -1 THEN draft ELSE cmd_history[index + 1]
      written == Printed(Left(screen, cmd_pos), str)
      left == IF Len(str) < cmd_pos THEN cmd_pos - Len(str) ELSE 0
  IN
  /\ history_current' = index
  /\ saved_cmd' = draft
  /\ cmd_buffer' = Copied(cmd_buffer, str)
  /\ cmd_pos' = Len(str)
  /\ cursor_pos' = Len(str)
  /\ Show(Left(Printed(written, Blanks(left)), left))
  /\ UNCHANGED <<cmd_history, base>>

KeyUp ==
  /\ cmd_history # <<>>
  /\ ShowEntry(IF history_current < Len(cmd_history) - 1 THEN history_current + 1 ELSE history_current,
               IF history_current = -1 THEN Str(cmd_buffer, 0) ELSE saved_cmd)

KeyDown ==
  /\ cmd_history # <<>>
  /\ ShowEntry(Greater(-1, history_current - 1), saved_cmd)

\* history_add.
Added(str) ==
  IF str = <<>> \/ (cmd_history # <<>> /\ Last(cmd_history) = str) THEN cmd_history
  ELSE Append(IF Len(cmd_history) >= MAX_CMD_HISTORY THEN Tail(cmd_history) ELSE cmd_history, str)

\* parse_arguments: the first MAX_ARGS - 1 words of the line, each ended by a NUL in
\* place of the blank after it, but for the last of that many, where it stops.
Starts(buf) == {i \in 0..(StrEnd(buf, 0) - 1) : buf[i] # Blank /\ (i = 0 \/ buf[i - 1] = Blank)}
WordsUpTo(buf, i) == {s \in Starts(buf) : s <= i}
Cut(buf) ==
  [i \in Indexes |->
     IF /\ i > 0 /\ i < StrEnd(buf, 0) /\ buf[i] = Blank /\ buf[i - 1] # Blank
        /\ Cardinality(WordsUpTo(buf, i)) < MAX_ARGS - 1
       THEN NUL ELSE buf[i]]

\* What Enter shows of a line: one of blanks runs nothing and gets no prompt, `clear`
\* empties the screen, and every other command prints some rows.
Answers(buf) ==
  IF Starts(buf) = {} THEN {Fed(screen, 0)}
  ELSE {Printed(t, PROMPT) : t \in {Cleared} \cup {Fed(screen, n) : n \in 1..OutputRows}}

Enter ==
  /\ cmd_pos > 0
  /\ LET ended == [cmd_buffer EXCEPT ![cmd_pos] = NUL] IN
       /\ cmd_history' = Added(Str(ended, 0))
       /\ cmd_buffer' = Cut(ended)
       /\ \E t \in Answers(ended) : Show(t)
  /\ base' = screen'.at
  /\ cmd_pos' = 0
  /\ cursor_pos' = 0
  /\ UNCHANGED <<history_current, saved_cmd>>

EnterNothing ==
  /\ cmd_pos = 0
  /\ Show(Printed(Fed(screen, 0), PROMPT))
  /\ base' = screen'.at
  /\ UNCHANGED <<lineVars, historyVars>>

\* F1 to F4: keyboard_handler_c shows another terminal, and the shell goes on there.
SwitchTerminal ==
  /\ Show([screen EXCEPT !.followed = FALSE])
  /\ UNCHANGED <<lineVars, historyVars, base>>

\* Bound: a blank is typed into a line that has fewer than MaxBlanks.
Blanked == Cardinality({i \in 0..(cmd_pos - 1) : cmd_buffer[i] = Blank})

Next ==
  \/ \E c \in Letters : TypeChar(c)
  \/ Blanked < MaxBlanks /\ TypeChar(Blank)
  \/ Backspace \/ Delete
  \/ KeyLeft \/ KeyRight \/ KeyHome \/ KeyEnd
  \/ KeyUp \/ KeyDown
  \/ Enter \/ EnterNothing
  \/ SwitchTerminal

Spec == Init /\ [][Next]_vars

-----------------------------------------------------------------------------
(* Properties. *)

Commands == UNION {[1..n -> Chars] : n \in 0..(MAX_CMD_LEN - 1)}

ShellTypeOK ==
  /\ Len(cmd_history) <= MAX_CMD_HISTORY
  /\ \A i \in 1..Len(cmd_history) : cmd_history[i] \in Commands \ {<<>>}
  /\ history_current \in -1..(Len(cmd_history) - 1)
  /\ cmd_buffer \in [Indexes -> Chars \cup {NUL}]
  /\ cmd_pos \in Indexes /\ cursor_pos \in 0..cmd_pos
  /\ saved_cmd \in Commands
  /\ screen.at \in Positions /\ base \in Positions
  /\ screen.full \in BOOLEAN /\ screen.followed \in BOOLEAN

\* The string in the buffer and the length kept beside it never disagree, so what is
\* echoed, remembered and run (up to the NUL) is the whole line; and there is always
\* a NUL, also after parse_arguments has cut the line up.
LineEnds ==
  /\ cmd_pos > 0 => StrEnd(cmd_buffer, 0) = cmd_pos
  /\ cmd_buffer[MAX_CMD_LEN - 1] = NUL

\* The line is seen as it is: its characters stand where it began, after the prompt (if
\* it has one), nothing follows them on the screen, and the cursor stands where the next
\* key will act.
LineSeen ==
  LET row == base - (base % Width) IN
  /\ screen.followed
  /\ screen.at = base + cursor_pos
  /\ \A p \in Positions : p >= base =>
       screen.cells[p] = IF p < base + cmd_pos THEN cmd_buffer[p - base] ELSE Blank
  /\ \A p \in row..(base - 1) : screen.cells[p] = PROMPT[p - row + 1]

RecalledInside == cursor_pos < cmd_pos /\ (KeyUp \/ KeyDown)

\* What is seen is what will run: no key takes a line that is seen as it is out of sight,
\* wherever its rows wrap and whatever scrolls, but a recall from inside the line
\* (history_show then goes back too far) and what leaves the followed screen.
ScreenShowsLine ==
  /\ LineSeen
  /\ [][LineSeen => \/ LineSeen'
                     \/ RecalledInside
                     \/ ~screen'.followed]_vars

\* The shell implements the abstract editor.
Abstract ==
  INSTANCE AbstractEditor WITH
    AChars <- Chars, MaxLine <- MAX_CMD_LEN - 1, MaxPast <- MAX_CMD_HISTORY,
    line <- [k \in 1..cmd_pos |-> cmd_buffer[k - 1]], cursor <- cursor_pos,
    past <- cmd_history, draft <- saved_cmd

ImplementsEditor == Abstract!ASpec
=============================================================================
