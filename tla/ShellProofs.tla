---------------------------- MODULE ShellProofs ----------------------------
(***************************************************************************)
(* The command line for every size of line and history: its types, that    *)
(* the string and its length agree, that the screen shows the line, and    *)
(* that the shell implements the abstract editor.                          *)
(***************************************************************************)
EXTENDS Shell, Numbers, TLAPS

-----------------------------------------------------------------------------
(* Sequences. *)

LEMMA FunctionIsSeq ==
  ASSUME NEW S, NEW n \in Nat, NEW f \in [1..n -> S]
  PROVE  f \in Seq(S) /\ Len(f) = n
OBVIOUS

LEMMA ConcatFact ==
  ASSUME NEW S, NEW s \in Seq(S), NEW t \in Seq(S)
  PROVE  /\ s \o t \in Seq(S) /\ Len(s \o t) = Len(s) + Len(t)
         /\ \A k \in 1..Len(s) : (s \o t)[k] = s[k]
         /\ \A k \in (Len(s) + 1)..(Len(s) + Len(t)) : (s \o t)[k] = t[k - Len(s)]
OBVIOUS

LEMMA LenProperties ==
  ASSUME NEW S, NEW s \in Seq(S)
  PROVE  Len(s) \in Nat
OBVIOUS

LEMMA SameElements ==
  ASSUME NEW S, NEW s \in Seq(S), NEW t \in Seq(S), Len(s) = Len(t),
         \A k \in 1..Len(s) : s[k] = t[k]
  PROVE  s = t
OBVIOUS

LEMMA OneMoreFact ==
  ASSUME NEW S, NEW s \in Seq(S), NEW x \in S
  PROVE  /\ s \o <<x>> \in Seq(S) /\ Len(s \o <<x>>) = Len(s) + 1
         /\ \A k \in 1..Len(s) : (s \o <<x>>)[k] = s[k]
         /\ (s \o <<x>>)[Len(s) + 1] = x
OBVIOUS

-----------------------------------------------------------------------------
(* Strings in a buffer. *)

Buffers == [Indexes -> Chars \cup {NUL}]

LEMMA ShellSizes ==
  /\ MAX_CMD_LEN \in Nat /\ MAX_CMD_LEN > 1
  /\ MAX_CMD_HISTORY \in Nat /\ MAX_CMD_HISTORY > 0
  /\ NUL \notin Chars /\ Blank \in Chars
BY ShellAssumption DEF Chars, NUL, Blank

\* buf has a string of the characters from index `from` up to n.
EndsAt(buf, from, n) ==
  /\ n \in from..(MAX_CMD_LEN - 1) /\ buf[n] = NUL
  /\ \A i \in from..(n - 1) : buf[i] # NUL

LEMMA StrFact ==
  ASSUME NEW buf, NEW from \in Nat, NEW n, EndsAt(buf, from, n)
  PROVE  /\ StrEnd(buf, from) = n
         /\ Str(buf, from) = [k \in 1..(n - from) |-> buf[from + k - 1]]
<1>1. n \in from..(MAX_CMD_LEN - 1) /\ buf[n] = NUL /\ \A i \in from..(n - 1) : buf[i] # NUL
  BY DEF EndsAt
<1>2. ASSUME NEW m \in from..(MAX_CMD_LEN - 1), buf[m] = NUL, \A i \in from..(m - 1) : buf[i] # NUL
      PROVE  m = n
  <2>1. ~(m < n)
    BY <1>1, <1>2, ShellSizes
  <2>2. ~(n < m)
    BY <1>1, <1>2, ShellSizes
  <2> QED
    BY <1>1, <2>1, <2>2, ShellSizes
<1>3. StrEnd(buf, from) = n
  BY <1>1, <1>2 DEF StrEnd
<1> QED
  BY <1>3 DEF Str

LEMMA StrEnds ==
  ASSUME NEW buf, NEW from \in Indexes, buf[MAX_CMD_LEN - 1] = NUL
  PROVE  \E n \in from..(MAX_CMD_LEN - 1) : EndsAt(buf, from, n)
<1>1. PICK S \in SUBSET Nat : S = {n \in from..(MAX_CMD_LEN - 1) : buf[n] = NUL}
  <2>1. {n \in from..(MAX_CMD_LEN - 1) : buf[n] = NUL} \in SUBSET Nat
    BY ShellSizes DEF Indexes
  <2> QED
    BY <2>1
<1>2. MAX_CMD_LEN - 1 \in S
  BY <1>1, ShellSizes DEF Indexes
<1>3. PICK n \in S : \A m \in S : n <= m
  BY <1>2, LeastNatural
<1>4. n \in from..(MAX_CMD_LEN - 1) /\ buf[n] = NUL
  BY <1>1
<1>5. ASSUME NEW i \in from..(n - 1)
      PROVE  buf[i] # NUL
  <2>1. i \in from..(MAX_CMD_LEN - 1) /\ i < n
    BY <1>4, ShellSizes DEF Indexes
  <2> QED
    BY <1>1, <1>3, <1>4, <2>1 DEF Indexes
<1> QED
  BY <1>4, <1>5 DEF EndsAt

\* A string of a buffer is one a line can be.
LEMMA StrTyped ==
  ASSUME NEW buf \in Buffers, NEW n, EndsAt(buf, 0, n)
  PROVE  /\ Str(buf, 0) \in Commands /\ Str(buf, 0) \in Seq(Chars) /\ Len(Str(buf, 0)) = n
         /\ \A k \in 1..n : Str(buf, 0)[k] = buf[k - 1]
<1>1. n \in 0..(MAX_CMD_LEN - 1) /\ \A i \in 0..(n - 1) : buf[i] # NUL
  BY DEF EndsAt
<1>2. Str(buf, 0) = [k \in 1..n |-> buf[0 + k - 1]]
  <2>1. n - 0 = n
    BY <1>1
  <2> QED
    BY <2>1, StrFact
<1>3. \A k \in 1..n : buf[0 + k - 1] \in Chars /\ 0 + k - 1 = k - 1
  <2>1. ASSUME NEW k \in 1..n
        PROVE  k - 1 \in 0..(n - 1) /\ k - 1 \in Indexes /\ 0 + k - 1 = k - 1
    BY <1>1, ShellSizes DEF Indexes
  <2> QED
    BY <1>1, <2>1 DEF Buffers
<1>4. Str(buf, 0) \in [1..n -> Chars]
  BY <1>2, <1>3
<1>5. Str(buf, 0) \in Seq(Chars) /\ Len(Str(buf, 0)) = n
  BY <1>1, <1>4
<1>6. Str(buf, 0) \in Commands
  BY <1>1, <1>4 DEF Commands
<1> QED
  BY <1>2, <1>3, <1>5, <1>6

\* A line of the past, or a draft, copied into the buffer.
LEMMA CopiedFact ==
  ASSUME NEW buf \in Buffers, buf[MAX_CMD_LEN - 1] = NUL, NEW str \in Commands
  PROVE  /\ str \in Seq(Chars) /\ Len(str) \in Indexes
         /\ Copied(buf, str) \in Buffers /\ Copied(buf, str)[MAX_CMD_LEN - 1] = NUL
         /\ \A k \in 1..Len(str) : Copied(buf, str)[k - 1] = str[k]
         /\ EndsAt(Copied(buf, str), 0, Len(str))
<1>1. PICK n \in 0..(MAX_CMD_LEN - 1) : str \in [1..n -> Chars]
  BY DEF Commands
<1>2. str \in Seq(Chars) /\ Len(str) = n /\ \A k \in 1..n : str[k] \in Chars
  BY <1>1
<1>3. n \in Int /\ n <= MAX_CMD_LEN - 1
  BY <1>1, ShellSizes
<1>4. ASSUME NEW i \in Indexes
      PROVE  /\ Copied(buf, str)[i] = IF i < n THEN str[i + 1] ELSE IF i = n THEN NUL ELSE buf[i]
             /\ i < n => i + 1 \in 1..n
             /\ buf[i] \in Chars \cup {NUL}
  BY <1>2, <1>3, ShellSizes DEF Copied, Indexes, Buffers
<1>5. Copied(buf, str) \in Buffers
  <2>1. \A i \in Indexes : Copied(buf, str)[i] \in Chars \cup {NUL}
    BY <1>2, <1>4
  <2> QED
    BY <2>1 DEF Copied, Buffers
<1>6. n \in Indexes /\ MAX_CMD_LEN - 1 \in Indexes
  BY <1>1, ShellSizes DEF Indexes
<1>7. Copied(buf, str)[MAX_CMD_LEN - 1] = NUL /\ Copied(buf, str)[n] = NUL
  BY <1>3, <1>4, <1>6, ShellSizes
<1>8. ASSUME NEW k \in 1..n
      PROVE  Copied(buf, str)[k - 1] = str[k]
  <2>1. k - 1 \in Indexes /\ k - 1 < n /\ (k - 1) + 1 = k
    BY <1>3, ShellSizes DEF Indexes
  <2> QED
    BY <1>4, <2>1
<1>9. \A i \in 0..(n - 1) : Copied(buf, str)[i] # NUL
  <2>1. ASSUME NEW i \in 0..(n - 1)
        PROVE  i \in Indexes /\ i < n /\ i + 1 \in 1..n
    BY <1>3, ShellSizes DEF Indexes
  <2> QED
    BY <1>2, <1>4, <2>1, ShellSizes
<1>10. EndsAt(Copied(buf, str), 0, n)
  BY <1>1, <1>7, <1>9 DEF EndsAt
<1> QED
  BY <1>2, <1>5, <1>6, <1>7, <1>8, <1>10

-----------------------------------------------------------------------------
(* Rows of the screen. *)

LEMMA PromptFact == Len(PROMPT) = 2 /\ PROMPT[1] = ">" /\ PROMPT[2] = Blank
BY DEF PROMPT

LEMMA ScreenSizes ==
  /\ Width \in Nat \ {0} /\ Width > 2
  /\ Size \in Nat /\ LastRow \in Nat /\ Size = LastRow + Width
  /\ LastRow >= Width /\ LastRow % Width = 0
  /\ MAX_CMD_LEN + 1 <= 2 * Width
<1>1. /\ Width \in Nat \ {0} /\ Width > 2 /\ Rows \in Nat /\ Rows - 1 \in Nat /\ Rows - 1 >= 1
      /\ MAX_CMD_LEN + 1 <= 2 * Width
  BY ShellAssumption, PromptFact
<1>2. PICK n \in Nat : n = Rows - 1 /\ n >= 1 /\ Rows = n + 1
  BY <1>1
<1>3. (n + 1) * Width = n * Width + Width /\ n * Width \in Nat /\ n * Width = Width * n
  BY <1>1
<1>4. n * Width >= Width
  <2>1. Width * 1 <= Width * n
    BY <1>1, <1>2, ProductOrder
  <2> QED
    BY <1>1, <1>3, <2>1
<1>5. (n * Width) % Width = 0
  <2>1. (Width * n + 0) % Width = 0
    BY <1>1, ModUnique
  <2>2. Width * n + 0 = n * Width
    BY <1>3
  <2> QED
    BY <2>1, <2>2
<1>6. LastRow = n * Width /\ Size = (n + 1) * Width
  BY <1>2 DEF LastRow, Size
<1>7. LastRow \in Nat /\ Size = LastRow + Width /\ LastRow >= Width /\ LastRow % Width = 0
  BY <1>3, <1>4, <1>5, <1>6
<1>8. Size \in Nat
  BY <1>1, <1>7
<1> QED
  BY <1>1, <1>7, <1>8

LEMMA PositionFact ==
  ASSUME NEW p \in Positions
  PROVE  p \in Nat /\ p < Size
BY ScreenSizes DEF Positions

\* Where a position's row begins.
Row(a) == a - (a % Width)

LEMMA RowFact ==
  ASSUME NEW a \in Nat
  PROVE  /\ Row(a) \in Nat /\ Row(a) <= a /\ a < Row(a) + Width
         /\ Row(a) = Width * (a \div Width) /\ a \div Width \in Nat
<1>1. a % Width \in 0..(Width - 1) /\ a \div Width \in Int /\ a = Width * (a \div Width) + (a % Width)
  <2>1. a \in Int /\ Width \in Nat \ {0}
    BY ScreenSizes
  <2>2. a % Width \in 0..(Width - 1)
    BY <2>1, ModFact
  <2>3. a \div Width \in Int /\ a = Width * (a \div Width) + (a % Width)
    BY <2>1, DivFact
  <2> QED
    BY <2>2, <2>3
<1>2. PICK q \in Int, r \in Int : /\ q = a \div Width /\ r = a % Width /\ r >= 0 /\ r < Width
                                  /\ a = Width * q + r
  BY <1>1, ScreenSizes
<1>3. Width * q \in Int /\ a - r = Width * q
  BY <1>2, ScreenSizes
<1>4. q >= 0
  <2>1. SUFFICES ASSUME q < 0
                 PROVE  FALSE
    BY <1>2
  <2>2. Width * 0 >= Width * q + Width
    BY <1>2, <2>1, ScreenSizes, Product
  <2> QED
    BY <1>2, <1>3, <2>2, ScreenSizes
<1>5. Width * q >= 0
  <2>1. Width * 0 <= Width * q
    BY <1>2, <1>4, ScreenSizes, ProductOrder
  <2> QED
    BY <2>1, ScreenSizes
<1> QED
  BY <1>2, <1>3, <1>4, <1>5, ScreenSizes DEF Row

LEMMA MultipleFact ==
  ASSUME NEW q \in Int, NEW k \in 0..(Width - 1)
  PROVE  (Width * q) % Width = 0 /\ (Width * q + k) % Width = k
<1>1. (Width * q + k) % Width = k
  BY ScreenSizes, ModUnique
<1>2. (Width * q + 0) % Width = 0 /\ Width * q + 0 = Width * q
  <2>1. 0 \in 0..(Width - 1) /\ Width * q \in Int
    BY ScreenSizes
  <2> QED
    BY <2>1, ScreenSizes, ModUnique
<1> QED
  BY <1>1, <1>2

\* A position no later than another is in no later a row.
LEMMA RowOrder ==
  ASSUME NEW b \in Nat, NEW a \in Nat, b <= a
  PROVE  Row(b) <= Row(a)
<1>1. PICK m \in Nat, n \in Nat : /\ m = b \div Width /\ n = a \div Width
                                  /\ Row(b) = Width * m /\ Row(a) = Width * n
  BY RowFact
<1>2. Row(b) \in Nat /\ Row(b) <= b /\ Row(a) \in Nat /\ a < Row(a) + Width
  BY RowFact
<1>3. ~(m > n)
  <2>1. SUFFICES ASSUME m > n
                 PROVE  FALSE
    OBVIOUS
  <2>2. Width * m >= Width * n + Width
    BY <2>1, ScreenSizes, Product
  <2> QED
    BY <1>1, <1>2, <2>2, ScreenSizes
<1>4. Width * m <= Width * n
  BY <1>3, ScreenSizes, ProductOrder
<1> QED
  BY <1>1, <1>4

\* What ends a row's last column is a row later than what is before it.
LEMMA RowBefore ==
  ASSUME NEW b \in Nat, NEW a \in Nat, b < a, a % Width = 0
  PROVE  Row(b) <= a - Width /\ a - Width \in Nat /\ Row(a - Width) = a - Width
<1>1. PICK m \in Nat, n \in Nat : /\ m = b \div Width /\ n = a \div Width
                                  /\ Row(b) = Width * m /\ Row(a) = Width * n
  BY RowFact
<1>2. Row(b) \in Nat /\ Row(b) <= b /\ Row(a) = a
  BY RowFact DEF Row
<1>3. n > m
  <2>1. SUFFICES ASSUME n <= m
                 PROVE  FALSE
    BY <1>1
  <2>2. Width * n <= Width * m
    BY <2>1, ScreenSizes, ProductOrder
  <2> QED
    BY <1>1, <1>2, <2>2, ScreenSizes
<1>4. Width * n >= Width * m + Width
  BY <1>3, ScreenSizes, Product
<1>5. a - Width >= Row(b) /\ a - Width \in Nat
  BY <1>1, <1>2, <1>4, ScreenSizes
<1>6. a - Width = Width * (n - 1) /\ n - 1 \in Int
  <2>1. Width * (n - 1) = Width * n - Width
    BY ScreenSizes
  <2> QED
    BY <1>1, <1>2, <2>1
<1>7. (a - Width) % Width = 0
  <2>1. 0 \in 0..(Width - 1)
    BY ScreenSizes
  <2>2. (Width * (n - 1)) % Width = 0
    BY <1>6, <2>1, MultipleFact
  <2> QED
    BY <1>6, <2>2
<1> QED
  BY <1>5, <1>7 DEF Row

-----------------------------------------------------------------------------
(* The console. *)

TapeOf(cs, a, f, w) == [cells |-> cs, at |-> a, full |-> f, followed |-> w]

\* One whose cursor is not after a filled row's last column.
Free(cs, a, w) == TapeOf(cs, a, FALSE, w)

\* What printing makes of the cells.
Overwrites(cs2, cs, a, str) ==
  \A p \in Positions :
    cs2[p] = IF p >= a /\ p < a + Len(str) THEN str[p - a + 1] ELSE cs[p]

\* What it makes of the margin and of the end of the screen.
Fills(g, f, a, n) == IF n = 0 THEN g = f ELSE g \in BOOLEAN /\ (g => (a + n) % Width = 0)
Stays(v, w, a, n) == v \in BOOLEAN /\ (v => w /\ a + n < Size)

LEMMA PrintedFact ==
  ASSUME NEW cs, NEW a, NEW f, NEW w, NEW str
  PROVE  \E cs2, g, v :
           /\ Printed(TapeOf(cs, a, f, w), str) = TapeOf(cs2, a + Len(str), g, v)
           /\ Fills(g, f, a, Len(str)) /\ Stays(v, w, a, Len(str))
           /\ Overwrites(cs2, cs, a, str)
<1>1. PICK cs2 : cs2 = [p \in Positions |->
                          IF p >= a /\ p < a + Len(str) THEN str[p - a + 1] ELSE cs[p]]
  OBVIOUS
<1>2. PICK g : g = IF Len(str) = 0 THEN f ELSE (a + Len(str)) % Width = 0
  OBVIOUS
<1>3. PICK v : v = (w /\ a + Len(str) < Size)
  OBVIOUS
<1>4. Printed(TapeOf(cs, a, f, w), str) = TapeOf(cs2, a + Len(str), g, v)
  BY <1>1, <1>2, <1>3 DEF Printed, TapeOf
<1>5. Overwrites(cs2, cs, a, str)
  BY <1>1 DEF Overwrites
<1>6. Fills(g, f, a, Len(str))
  BY <1>2 DEF Fills
<1>7. Stays(v, w, a, Len(str))
  BY <1>3 DEF Stays
<1> QED
  BY <1>4, <1>5, <1>6, <1>7

LEMMA LeftFact ==
  ASSUME NEW cs, NEW a, NEW f, NEW w, NEW n
  PROVE  /\ n # 0 => Left(TapeOf(cs, a, f, w), n) = Free(cs, Greater(0, a - n), w)
         /\ n = 0 => Left(TapeOf(cs, a, f, w), n) = TapeOf(cs, a, f, w)
BY DEF Left, TapeOf, Free

LEMMA RightFact ==
  ASSUME NEW cs, NEW a, NEW f, ~f, NEW w, NEW n \in Nat, n > 0
  PROVE  Right(TapeOf(cs, a, f, w), n) = Free(cs, a + n, w)
<1>1. n # 0
  OBVIOUS
<1>2. PICK t : t = TapeOf(cs, a, f, w)
  OBVIOUS
<1>3. ~t.full
  BY <1>2 DEF TapeOf
<1>4. Right(t, n) = [t EXCEPT !.at = @ + n, !.full = FALSE]
  BY <1>1, <1>3 DEF Right
<1> QED
  BY <1>2, <1>4 DEF TapeOf, Free

\* Printed text and as many steps back, with nothing full afterwards.
LEMMA BackFact ==
  ASSUME NEW a \in Nat, NEW n \in Nat
  PROVE  Greater(0, (a + n) - n) = a
<1>1. (a + n) - n = a
  OBVIOUS
<1> QED
  BY <1>1 DEF Greater

\* What redraw_from_cursor makes of the cells: it puts back what the line has from the
\* cursor on and clears the cell after it.
Redraws(cs2, cs, a, buf, pos, cursor) ==
  \A p \in Positions :
    cs2[p] = IF p >= a /\ p < a + (pos - cursor) THEN buf[cursor + (p - a)]
             ELSE IF p = a + (pos - cursor) THEN Blank ELSE cs[p]

\* The string from the cursor on.
LEMMA TailFact ==
  ASSUME NEW buf \in Buffers, NEW pos \in Indexes, NEW cursor \in 0..(pos - 1),
         EndsAt(buf, 0, pos)
  PROVE  /\ Str(buf, cursor) \in Seq(Chars) /\ Len(Str(buf, cursor)) = pos - cursor
         /\ \A k \in 1..(pos - cursor) : Str(buf, cursor)[k] = buf[cursor + k - 1]
<1>1. pos \in Nat /\ cursor \in Nat /\ cursor < pos /\ pos <= MAX_CMD_LEN - 1
  BY ShellSizes DEF Indexes
<1>2. EndsAt(buf, cursor, pos)
  BY <1>1, ShellSizes DEF EndsAt
<1>3. PICK n \in Nat : n = pos - cursor
  BY <1>1
<1>4. Str(buf, cursor) = [k \in 1..n |-> buf[cursor + k - 1]]
  BY <1>1, <1>2, <1>3, StrFact
<1>5. ASSUME NEW k \in 1..n
      PROVE  buf[cursor + k - 1] \in Chars
  <2>1. cursor + k - 1 \in 0..(pos - 1) /\ cursor + k - 1 \in Indexes
    BY <1>1, <1>3, ShellSizes DEF Indexes
  <2> QED
    BY <2>1 DEF Buffers, EndsAt
<1>6. [k \in 1..n |-> buf[cursor + k - 1]] \in [1..n -> Chars]
  BY <1>5
<1>7. PICK f \in [1..n -> Chars] : f = [k \in 1..n |-> buf[cursor + k - 1]]
  BY <1>6
<1>8. f \in Seq(Chars) /\ Len(f) = n
  BY <1>3, FunctionIsSeq
<1>9. \A k \in 1..n : f[k] = buf[cursor + k - 1]
  BY <1>7, Zenon
<1> QED
  BY <1>3, <1>4, <1>7, <1>8, <1>9

LEMMA RedrawnFact ==
  ASSUME NEW cs, NEW a \in Nat, NEW f, NEW w,
         NEW buf \in Buffers, NEW pos \in Indexes, NEW cursor \in 0..pos,
         EndsAt(buf, 0, pos)
  PROVE  \E cs2, v :
           /\ Redrawn(TapeOf(cs, a, f, w), buf, pos, cursor) = Free(cs2, a, v)
           /\ Stays(v, w, a, pos + 1 - cursor)
           /\ Redraws(cs2, cs, a, buf, pos, cursor)
<1>1. pos \in Nat /\ cursor \in Nat /\ cursor <= pos /\ pos <= MAX_CMD_LEN - 1
  BY ShellSizes DEF Indexes
<1>2. PICK n \in Nat : n = pos - cursor
  BY <1>1
<1>3. PICK tail \in Seq(Chars) :
        /\ tail = IF cursor < pos THEN Str(buf, cursor) ELSE <<>>
        /\ Len(tail) = n
        /\ \A k \in 1..n : tail[k] = buf[cursor + k - 1]
  <2>1. CASE cursor < pos
    <3>1. cursor \in 0..(pos - 1)
      BY <1>1, <2>1
    <3> QED
      BY <1>2, <2>1, <3>1, TailFact
  <2>2. CASE ~(cursor < pos)
    <3>1. n = 0
      BY <1>1, <1>2, <2>2
    <3>2. <<>> \in Seq(Chars) /\ Len(<<>>) = n /\ \A k \in 1..n : <<>>[k] = buf[cursor + k - 1]
      BY <3>1
    <3> QED
      BY <2>2, <3>2
  <2> QED
    BY <2>1, <2>2
<1>4. PICK text \in Seq(Chars) :
        /\ text = tail \o Blanks(1) /\ Len(text) = n + 1
        /\ \A k \in 1..n : text[k] = tail[k]
        /\ text[n + 1] = Blank
  <2>1. Blanks(1) = <<Blank>>
    BY DEF Blanks
  <2>2. Blank \in Chars
    BY ShellSizes
  <2>3. /\ tail \o <<Blank>> \in Seq(Chars) /\ Len(tail \o <<Blank>>) = Len(tail) + 1
        /\ \A k \in 1..Len(tail) : (tail \o <<Blank>>)[k] = tail[k]
        /\ (tail \o <<Blank>>)[Len(tail) + 1] = Blank
    BY <2>2, OneMoreFact
  <2> QED
    BY <1>3, <2>1, <2>3
<1>5. PICK m \in Nat : m = pos + 1 - cursor /\ m = n + 1 /\ m # 0 /\ Len(text) = m
  BY <1>1, <1>2, <1>4
<1>6. PICK cs2, g, v :
        /\ Printed(TapeOf(cs, a, f, w), text) = TapeOf(cs2, a + Len(text), g, v)
        /\ Fills(g, f, a, Len(text)) /\ Stays(v, w, a, Len(text))
        /\ Overwrites(cs2, cs, a, text)
  BY PrintedFact
<1>7. Printed(TapeOf(cs, a, f, w), text) = TapeOf(cs2, a + m, g, v) /\ Stays(v, w, a, pos + 1 - cursor)
  BY <1>5, <1>6
<1>8. Redrawn(TapeOf(cs, a, f, w), buf, pos, cursor) = Free(cs2, a, v)
  <2>1. Redrawn(TapeOf(cs, a, f, w), buf, pos, cursor) =
          Left(Printed(TapeOf(cs, a, f, w), tail \o Blanks(1)), pos + 1 - cursor)
    BY <1>3, Zenon DEF Redrawn
  <2>2. tail \o Blanks(1) = text /\ pos + 1 - cursor = m
    BY <1>4, <1>5
  <2>3. Left(TapeOf(cs2, a + m, g, v), m) = Free(cs2, Greater(0, (a + m) - m), v)
    BY <1>5, LeftFact
  <2>4. Greater(0, (a + m) - m) = a
    BY BackFact
  <2> QED
    BY <1>7, <2>1, <2>2, <2>3, <2>4
<1>9. ASSUME NEW p \in Positions
      PROVE  cs2[p] = IF p >= a /\ p < a + n THEN buf[cursor + (p - a)]
                      ELSE IF p = a + n THEN Blank ELSE cs[p]
  <2>1. p \in Int
    BY PositionFact
  <2>2. cs2[p] = IF p >= a /\ p < a + (n + 1) THEN text[p - a + 1] ELSE cs[p]
    BY <1>4, <1>5, <1>6 DEF Overwrites
  <2>3. CASE p >= a /\ p < a + n
    <3>1. PICK k \in 1..n : k = p - a + 1
      BY <1>2, <2>1, <2>3
    <3>2. cursor + k - 1 = cursor + (p - a) /\ p < a + (n + 1)
      BY <1>1, <1>2, <2>1, <2>3, <3>1
    <3>3. cs2[p] = buf[cursor + k - 1]
      BY <1>3, <1>4, <2>2, <2>3, <3>1, <3>2
    <3> QED
      BY <2>3, <3>2, <3>3
  <2>4. CASE p = a + n
    <3>1. p - a + 1 = n + 1 /\ p >= a /\ p < a + (n + 1) /\ ~(p < a + n)
      BY <1>2, <2>1, <2>4
    <3>2. cs2[p] = Blank
      BY <1>4, <2>2, <3>1
    <3> QED
      BY <2>4, <3>1, <3>2
  <2>5. CASE ~(p >= a /\ p < a + n) /\ p # a + n
    <3>1. ~(p >= a /\ p < a + (n + 1))
      BY <1>2, <2>1, <2>5
    <3> QED
      BY <2>2, <2>5, <3>1
  <2> QED
    BY <2>3, <2>4, <2>5
<1>10. Redraws(cs2, cs, a, buf, pos, cursor)
  BY <1>2, <1>9 DEF Redraws
<1> QED
  BY <1>7, <1>8, <1>10

LEMMA GreaterFact ==
  ASSUME NEW x \in Int
  PROVE  /\ Greater(0, x) \in Nat
         /\ x > 0 => Greater(0, x) = x
         /\ ~(x > 0) => Greater(0, x) = 0
BY DEF Greater

\* The screen is clear from a cell on.
ClearFrom(cs, b) == \A p \in Positions : p >= b => cs[p] = Blank

\* Rows of output, from a row to a row: the cursor begins one, and where the screen was
\* clear to its end from some cell above on, it is so from the cursor on.
StillClear(cs2, to, cs, end) ==
  \A b \in Nat : b <= end /\ ClearFrom(cs, b) => ClearFrom(cs2, to)

\* n rows, from one that begins at `from` to one that begins at `end`.
RowsTo(from, n, end) ==
  /\ from \in Nat /\ from % Width = 0
  /\ n \in Nat /\ end \in Nat /\ end = from + n * Width

LEMMA OutputFact ==
  ASSUME NEW cs, NEW a, NEW f, NEW w, NEW from, NEW n, NEW end, RowsTo(from, n, end)
  PROVE  \E cs2, to :
           /\ to \in Nat
           /\ Output(TapeOf(cs, a, f, w), from, n) = Free(cs2, to, w)
           /\ to <= LastRow /\ to % Width = 0
           /\ StillClear(cs2, to, cs, end)
<1> USE DEF RowsTo
<1>1. PICK x \in Int : x = end - LastRow
  BY ScreenSizes
<1>2. PICK s \in Nat : s = Greater(0, x)
  BY GreaterFact
<1>3. PICK to \in Nat : to = end - s /\ to <= LastRow /\ (to = end \/ to = LastRow)
  <2>1. LastRow \in Nat
    BY ScreenSizes
  <2>2. CASE x > 0
    <3>1. s = end - LastRow
      BY <1>1, <1>2, <2>2, GreaterFact
    <3> QED
      BY <2>1, <3>1
  <2>3. CASE ~(x > 0)
    <3>1. s = 0 /\ end <= LastRow
      BY <1>1, <1>2, <2>1, <2>3, GreaterFact
    <3> QED
      BY <2>1, <3>1
  <2> QED
    BY <2>2, <2>3
<1>4. to % Width = 0
  <2>1. PICK q \in Nat : from = Width * q
    <3>1. Row(from) = from
      BY DEF Row
    <3> QED
      BY <3>1, RowFact
  <2>2. from + n * Width = Width * (q + n) /\ q + n \in Int /\ 0 \in 0..(Width - 1)
    <3>1. Width * (q + n) = Width * q + n * Width
      BY ScreenSizes
    <3> QED
      BY <2>1, <3>1, ScreenSizes
  <2>3. end % Width = 0
    BY <2>2, MultipleFact
  <2> QED
    BY <1>3, <2>3, ScreenSizes
<1>5. PICK cs2 : cs2 = [p \in Positions |->
                          IF p + Greater(0, (from + n * Width) - LastRow) < from + n * Width THEN Earlier
                          ELSE IF p + Greater(0, (from + n * Width) - LastRow) < Size
                            THEN cs[p + Greater(0, (from + n * Width) - LastRow)] ELSE Blank]
  OBVIOUS
<1>6. Output(TapeOf(cs, a, f, w), from, n) = Free(cs2, to, w)
  <2>1. PICK t : t = TapeOf(cs, a, f, w)
    OBVIOUS
  <2>2. t.cells = cs /\ t.followed = w
    BY <2>1 DEF TapeOf
  <2>3. Output(t, from, n) =
          [cells |-> [p \in Positions |->
                        IF p + Greater(0, (from + n * Width) - LastRow) < from + n * Width THEN Earlier
                        ELSE IF p + Greater(0, (from + n * Width) - LastRow) < Size
                          THEN t.cells[p + Greater(0, (from + n * Width) - LastRow)] ELSE Blank],
           at |-> (from + n * Width) - Greater(0, (from + n * Width) - LastRow),
           full |-> FALSE, followed |-> t.followed]
    BY Zenon DEF Output
  <2>4. Greater(0, (from + n * Width) - LastRow) = s /\ from + n * Width = end
    BY <1>1, <1>2, Zenon
  <2>5. Output(t, from, n) =
          [cells |-> cs2, at |-> (from + n * Width) - Greater(0, (from + n * Width) - LastRow),
           full |-> FALSE, followed |-> w]
    BY <1>5, <2>2, <2>3, Zenon
  <2> QED
    BY <1>3, <2>1, <2>4, <2>5 DEF Free, TapeOf
<1>7. ASSUME NEW b \in Nat, b <= end, ClearFrom(cs, b), NEW p \in Positions, p >= to
      PROVE  cs2[p] = Blank
  <2>1. p \in Nat /\ p + s \in Nat /\ ~(p + s < end) /\ p + s >= b
    BY <1>3, <1>7, PositionFact
  <2>2. cs2[p] = IF p + s < Size THEN cs[p + s] ELSE Blank
    <3>1. Greater(0, (from + n * Width) - LastRow) = s /\ from + n * Width = end
      BY <1>1, <1>2, Zenon
    <3>2. cs2[p] = IF p + s < end THEN Earlier ELSE IF p + s < Size THEN cs[p + s] ELSE Blank
      BY <1>5, <3>1
    <3> QED
      BY <2>1, <3>2
  <2>3. CASE p + s < Size
    <3>1. p + s \in Positions
      BY <2>1, <2>3, ScreenSizes DEF Positions
    <3> QED
      BY <1>7, <2>1, <2>2, <2>3, <3>1 DEF ClearFrom
  <2> QED
    BY <2>2, <2>3
<1>8. ASSUME NEW b \in Nat, b <= end, ClearFrom(cs, b)
      PROVE  ClearFrom(cs2, to)
  BY <1>7, <1>8 DEF ClearFrom
<1>9. StillClear(cs2, to, cs, end)
  BY <1>8 DEF StillClear
<1> QED
  BY <1>3, <1>4, <1>6, <1>9

\* The row of the cursor, where it is known.
CursorOK(a, f) == a \in Nat /\ (f => a > 0 /\ a % Width = 0)

\* A cell before the cursor's, in its row or an earlier one.
Before(c, a, f) == c <= a /\ (f => c < a)

\* A row below every cell before the cursor's.
Below(from, a, f) == \A b \in Nat : Before(b, a, f) => Row(b) + Width <= from

LEMMA RowOfFact ==
  ASSUME NEW cs, NEW a, NEW f, NEW w, CursorOK(a, f)
  PROVE  \E from \in Nat : /\ RowOf(TapeOf(cs, a, f, w)) + Width = from
                           /\ from % Width = 0 /\ a <= from
                           /\ Below(from, a, f)
<1>1. a \in Nat
  BY DEF CursorOK
<1>2. ASSUME NEW r \in Nat, Row(r) = r
      PROVE  (r + Width) % Width = 0
  <2>1. PICK n \in Nat : n = r \div Width /\ r = Width * n
    BY <1>2, RowFact
  <2>2. n + 1 \in Int /\ Width * (n + 1) = Width * n + Width /\ 0 \in 0..(Width - 1)
    BY ScreenSizes
  <2>3. (Width * (n + 1)) % Width = 0
    BY <2>2, MultipleFact
  <2> QED
    BY <2>1, <2>2, <2>3
<1>3. ASSUME f
      PROVE  /\ RowOf(TapeOf(cs, a, f, w)) + Width = a /\ a % Width = 0
             /\ Below(a, a, f)
  <2>1. a > 0 /\ a % Width = 0
    BY <1>3 DEF CursorOK
  <2>2. RowOf(TapeOf(cs, a, f, w)) = a - Width
    BY <1>3 DEF RowOf, TapeOf
  <2>3. (a - Width) + Width = a
    BY <1>1, ScreenSizes
  <2>4. ASSUME NEW b \in Nat, Before(b, a, f)
        PROVE  Row(b) + Width <= a
    <3>1. b < a
      BY <1>3, <2>4 DEF Before
    <3>2. Row(b) <= a - Width /\ Row(b) \in Nat
      BY <1>1, <2>1, <3>1, RowBefore, RowFact
    <3> QED
      BY <1>1, <3>2, ScreenSizes
  <2> QED
    BY <2>1, <2>2, <2>3, <2>4 DEF Below
<1>4. ASSUME ~f
      PROVE  /\ RowOf(TapeOf(cs, a, f, w)) + Width = Row(a) + Width
             /\ (Row(a) + Width) % Width = 0 /\ a <= Row(a) + Width
             /\ Below(Row(a) + Width, a, f)
  <2>1. RowOf(TapeOf(cs, a, f, w)) = Row(a)
    BY <1>4 DEF RowOf, TapeOf, Row
  <2>2. Row(a) \in Nat /\ a < Row(a) + Width /\ Row(a) = Width * (a \div Width) /\ a \div Width \in Nat
    BY <1>1, RowFact
  <2>3. Row(Row(a)) = Row(a)
    <3>1. PICK n \in Nat : Row(a) = Width * n
      BY <2>2
    <3>2. n \in Int /\ 0 \in 0..(Width - 1)
      BY ScreenSizes
    <3>3. Row(a) % Width = 0
      BY <3>1, <3>2, MultipleFact
    <3> QED
      BY <2>2, <3>3 DEF Row
  <2>4. (Row(a) + Width) % Width = 0
    BY <1>2, <2>2, <2>3
  <2>5. ASSUME NEW b \in Nat, Before(b, a, f)
        PROVE  Row(b) + Width <= Row(a) + Width
    <3>1. b <= a
      BY <2>5 DEF Before
    <3>2. Row(b) <= Row(a) /\ Row(b) \in Nat
      BY <1>1, <3>1, RowOrder, RowFact
    <3> QED
      BY <2>2, <3>2, ScreenSizes
  <2>6. a <= Row(a) + Width
    BY <1>1, <2>2, ScreenSizes
  <2> QED
    BY <2>1, <2>4, <2>5, <2>6 DEF Below
<1>5. Row(a) + Width \in Nat
  <2>1. Row(a) \in Nat
    BY <1>1, RowFact
  <2>2. Width \in Nat
    BY ScreenSizes
  <2> QED
    BY <2>1, <2>2
<1>6. CASE f
  <2>1. a <= a
    BY <1>1
  <2> QED
    BY <1>1, <1>3, <1>6, <2>1, Zenon
<1>7. CASE ~f
  BY <1>4, <1>5, <1>7, Zenon
<1> QED
  BY <1>6, <1>7

ClearBelow(cs2, to, cs, a, f, n) ==
  \A c \in Nat, b \in Nat :
    Before(c, a, f) /\ n > 0 /\ b <= Row(c) + Width + Width /\ ClearFrom(cs, b)
      => ClearFrom(cs2, to)

\* A line feed and rows of output, below what is before the cursor.
LEMMA FedFact ==
  ASSUME NEW cs, NEW a, NEW f, NEW w, CursorOK(a, f), NEW n \in Nat
  PROVE  \E cs2, to :
           /\ to \in Nat
           /\ Fed(TapeOf(cs, a, f, w), n) = Free(cs2, to, w)
           /\ to <= LastRow /\ to % Width = 0
           /\ StillClear(cs2, to, cs, a) /\ ClearBelow(cs2, to, cs, a, f, n)
<1>1. PICK from \in Nat : /\ RowOf(TapeOf(cs, a, f, w)) + Width = from
                         /\ from % Width = 0 /\ a <= from
                         /\ Below(from, a, f)
  BY RowOfFact
<1>2. PICK y \in Nat, end \in Nat : y = n * Width /\ end = from + n * Width /\ end = from + y
  BY ScreenSizes
<1>3. PICK cs2, to :
        /\ to \in Nat
        /\ Output(TapeOf(cs, a, f, w), from, n) = Free(cs2, to, w)
        /\ to <= LastRow /\ to % Width = 0
        /\ StillClear(cs2, to, cs, end)
  <2>1. RowsTo(from, n, end)
    BY <1>1, <1>2 DEF RowsTo
  <2> QED
    BY <2>1, OutputFact
<1>4. Fed(TapeOf(cs, a, f, w), n) = Free(cs2, to, w)
  BY <1>1, <1>3 DEF Fed
<1>5. a \in Nat
  BY DEF CursorOK
<1>6. ASSUME NEW b \in Nat, b <= a, ClearFrom(cs, b)
      PROVE  ClearFrom(cs2, to)
  <2>1. b <= end
    BY <1>1, <1>2, <1>5, <1>6
  <2> QED
    BY <1>3, <1>6, <2>1 DEF StillClear
<1>7. ASSUME NEW c \in Nat, NEW b \in Nat,
             Before(c, a, f), n > 0, b <= Row(c) + Width + Width, ClearFrom(cs, b)
      PROVE  ClearFrom(cs2, to)
  <2>1. y >= Width
    <3>1. Width * 1 <= Width * n /\ Width * n = n * Width
      BY <1>7, ScreenSizes, ProductOrder
    <3> QED
      BY <1>2, <3>1, ScreenSizes
  <2>2. Row(c) \in Nat /\ Row(c) + Width <= from
    BY <1>1, <1>7, RowFact DEF Below
  <2>3. b <= end
    BY <1>2, <1>7, <2>1, <2>2, ScreenSizes
  <2> QED
    BY <1>3, <1>7, <2>3 DEF StillClear
<1>8. StillClear(cs2, to, cs, a)
  BY <1>6 DEF StillClear
<1>9. ClearBelow(cs2, to, cs, a, f, n)
  BY <1>7 DEF ClearBelow
<1> QED
  BY <1>3, <1>4, <1>8, <1>9

-----------------------------------------------------------------------------
(* The line. *)

\* The buffer always has an end, and a line that is not empty ends where it should.
LineOK ==
  /\ cmd_buffer \in Buffers /\ cmd_buffer[MAX_CMD_LEN - 1] = NUL
  /\ cmd_pos \in Indexes /\ cursor_pos \in 0..cmd_pos
  /\ cmd_pos > 0 => EndsAt(cmd_buffer, 0, cmd_pos)

HistoryOK ==
  /\ cmd_history \in Seq(Commands \ {<<>>}) /\ Len(cmd_history) <= MAX_CMD_HISTORY
  /\ history_current \in -1..(Len(cmd_history) - 1)
  /\ saved_cmd \in Commands

\* What the buffer holds beside an empty line: nothing, or what Enter left of the
\* last line of the past.
Leftover ==
  cmd_pos = 0 =>
    \/ Str(cmd_buffer, 0) = <<>>
    \/ cmd_history # <<>> /\ Str(cmd_buffer, 0) \in Prefixes(Last(cmd_history))

LEMMA LineNumbers ==
  ASSUME LineOK
  PROVE  /\ cmd_pos \in Nat /\ cursor_pos \in Nat /\ cursor_pos <= cmd_pos
         /\ cmd_pos <= MAX_CMD_LEN - 1
BY ShellSizes DEF LineOK, Indexes

LEMMA Nothing ==
  ASSUME NEW buf, EndsAt(buf, 0, 0)
  PROVE  Str(buf, 0) = <<>>
<1>1. Str(buf, 0) = [k \in 1..(0 - 0) |-> buf[0 + k - 1]]
  BY StrFact
<1>2. [k \in 1..0 |-> buf[0 + k - 1]] = <<>>
  OBVIOUS
<1> QED
  BY <1>1, <1>2

\* A character typed into the line.
TypedIn(c) == [Opened(c) EXCEPT ![cmd_pos + 1] = NUL]

LEMMA OpenedFact ==
  ASSUME LineOK, Room, NEW c \in Chars
  PROVE  /\ TypedIn(c) \in Buffers /\ TypedIn(c)[MAX_CMD_LEN - 1] = NUL
         /\ \A i \in 0..(cursor_pos - 1) : TypedIn(c)[i] = cmd_buffer[i]
         /\ TypedIn(c)[cursor_pos] = c
         /\ \A i \in (cursor_pos + 1)..cmd_pos : TypedIn(c)[i] = cmd_buffer[i - 1]
         /\ EndsAt(TypedIn(c), 0, cmd_pos + 1)
<1> PICK buf : buf = TypedIn(c)
  OBVIOUS
<1>1. /\ cmd_pos \in Nat /\ cursor_pos \in Nat /\ cursor_pos <= cmd_pos
      /\ cmd_pos + 1 <= MAX_CMD_LEN - 1 /\ cmd_buffer \in Buffers
  BY LineNumbers, ShellSizes DEF Room, LineOK
<1>2. ASSUME NEW i \in Indexes
      PROVE  buf[i] = IF i = cmd_pos + 1 THEN NUL ELSE IF i = cursor_pos THEN c
                      ELSE IF i > cursor_pos /\ i <= cmd_pos THEN cmd_buffer[i - 1]
                      ELSE cmd_buffer[i]
  BY DEF TypedIn, Opened
<1>3. ASSUME NEW i \in Indexes
      PROVE  /\ i \in Int /\ i >= 0 /\ i <= MAX_CMD_LEN - 1 /\ cmd_buffer[i] \in Chars \cup {NUL}
             /\ i > cursor_pos => i - 1 \in Indexes /\ cmd_buffer[i - 1] \in Chars \cup {NUL}
  BY <1>1, ShellSizes DEF Indexes, Buffers
<1>4. buf \in Buffers
  <2>1. \A i \in Indexes : buf[i] \in Chars \cup {NUL}
    BY <1>2, <1>3
  <2> QED
    BY <2>1 DEF Buffers, TypedIn, Opened
<1>5. \A i \in 0..(cmd_pos + 1) : i \in Indexes
  BY <1>1, ShellSizes DEF Indexes
<1>6. MAX_CMD_LEN - 1 \in Indexes /\ cmd_buffer[MAX_CMD_LEN - 1] = NUL
  BY ShellSizes DEF Indexes, LineOK
<1>7. buf[MAX_CMD_LEN - 1] = NUL
  BY <1>1, <1>2, <1>6, ShellSizes
<1>8. \A i \in 0..(cursor_pos - 1) : buf[i] = cmd_buffer[i]
  <2>1. ASSUME NEW i \in 0..(cursor_pos - 1)
        PROVE  i \in 0..(cmd_pos + 1) /\ i < cursor_pos /\ i # cmd_pos + 1 /\ i # cursor_pos
    BY <1>1
  <2> QED
    BY <1>1, <1>2, <1>5, <2>1
<1>9. buf[cursor_pos] = c
  BY <1>1, <1>2, <1>5
<1>10. \A i \in (cursor_pos + 1)..cmd_pos : buf[i] = cmd_buffer[i - 1]
  <2>1. ASSUME NEW i \in (cursor_pos + 1)..cmd_pos
        PROVE  i \in 0..(cmd_pos + 1) /\ i > cursor_pos /\ i <= cmd_pos /\ i # cmd_pos + 1 /\ i # cursor_pos
    BY <1>1
  <2> QED
    BY <1>2, <1>5, <2>1
<1>11. EndsAt(buf, 0, cmd_pos + 1)
  <2>1. \A i \in 0..(cmd_pos - 1) : cmd_buffer[i] # NUL
    BY <1>1 DEF LineOK, EndsAt
  <2>2. buf[cmd_pos + 1] = NUL /\ cmd_pos + 1 \in 0..(MAX_CMD_LEN - 1)
    BY <1>1, <1>2, <1>5
  <2>3. ASSUME NEW i \in 0..((cmd_pos + 1) - 1)
        PROVE  buf[i] # NUL
    <3>1. CASE i < cursor_pos
      <4>1. i \in 0..(cursor_pos - 1) /\ i \in 0..(cmd_pos - 1)
        BY <1>1, <3>1
      <4> QED
        BY <1>8, <2>1, <4>1
    <3>2. CASE i = cursor_pos
      BY <1>9, <3>2, ShellSizes
    <3>3. CASE i > cursor_pos
      <4>1. i \in (cursor_pos + 1)..cmd_pos /\ i - 1 \in 0..(cmd_pos - 1)
        BY <1>1, <3>3
      <4> QED
        BY <1>10, <2>1, <4>1
    <3> QED
      BY <1>1, <3>1, <3>2, <3>3
  <2> QED
    BY <2>2, <2>3, Zenon DEF EndsAt
<1> QED
  BY <1>4, <1>7, <1>8, <1>9, <1>10, <1>11

\* A character taken out of the line.
LEMMA ClosedFact ==
  ASSUME LineOK, NEW d \in 0..(cmd_pos - 1)
  PROVE  /\ Closed(d) \in Buffers /\ Closed(d)[MAX_CMD_LEN - 1] = NUL
         /\ \A i \in 0..(d - 1) : Closed(d)[i] = cmd_buffer[i]
         /\ \A i \in d..(cmd_pos - 2) : Closed(d)[i] = cmd_buffer[i + 1]
         /\ EndsAt(Closed(d), 0, cmd_pos - 1)
<1> PICK buf : buf = Closed(d)
  OBVIOUS
<1>1. /\ cmd_pos \in Nat /\ cmd_pos > 0 /\ d \in Nat /\ d < cmd_pos
      /\ cmd_pos <= MAX_CMD_LEN - 1 /\ cmd_buffer \in Buffers
  BY LineNumbers, ShellSizes DEF LineOK
<1>2. ASSUME NEW i \in Indexes
      PROVE  buf[i] = IF i = cmd_pos - 1 THEN NUL
                      ELSE IF i >= d /\ i < cmd_pos - 1 THEN cmd_buffer[i + 1]
                      ELSE cmd_buffer[i]
  BY DEF Closed
<1>3. ASSUME NEW i \in Indexes
      PROVE  /\ i \in Int /\ i >= 0 /\ i <= MAX_CMD_LEN - 1 /\ cmd_buffer[i] \in Chars \cup {NUL}
             /\ i < cmd_pos - 1 => i + 1 \in Indexes /\ cmd_buffer[i + 1] \in Chars \cup {NUL}
  BY <1>1, ShellSizes DEF Indexes, Buffers
<1>4. buf \in Buffers
  <2>1. \A i \in Indexes : buf[i] \in Chars \cup {NUL}
    BY <1>2, <1>3
  <2> QED
    BY <2>1 DEF Buffers, Closed
<1>5. \A i \in 0..cmd_pos : i \in Indexes
  BY <1>1, ShellSizes DEF Indexes
<1>6. MAX_CMD_LEN - 1 \in Indexes /\ cmd_buffer[MAX_CMD_LEN - 1] = NUL
  BY ShellSizes DEF Indexes, LineOK
<1>7. buf[MAX_CMD_LEN - 1] = NUL
  BY <1>1, <1>2, <1>6, ShellSizes
<1>8. \A i \in 0..(d - 1) : buf[i] = cmd_buffer[i]
  <2>1. ASSUME NEW i \in 0..(d - 1)
        PROVE  i \in 0..cmd_pos /\ i < d /\ i # cmd_pos - 1
    BY <1>1
  <2> QED
    BY <1>1, <1>2, <1>5, <2>1
<1>9. \A i \in d..(cmd_pos - 2) : buf[i] = cmd_buffer[i + 1]
  <2>1. ASSUME NEW i \in d..(cmd_pos - 2)
        PROVE  i \in 0..cmd_pos /\ i >= d /\ i < cmd_pos - 1 /\ i # cmd_pos - 1
    BY <1>1
  <2> QED
    BY <1>2, <1>5, <2>1
<1>10. EndsAt(buf, 0, cmd_pos - 1)
  <2>1. \A i \in 0..(cmd_pos - 1) : cmd_buffer[i] # NUL
    BY <1>1 DEF LineOK, EndsAt
  <2>2. buf[cmd_pos - 1] = NUL /\ cmd_pos - 1 \in 0..(MAX_CMD_LEN - 1)
    <3>1. cmd_pos - 1 \in 0..cmd_pos /\ cmd_pos - 1 \in 0..(MAX_CMD_LEN - 1)
      BY <1>1, ShellSizes
    <3> QED
      BY <1>2, <1>5, <3>1
  <2>3. ASSUME NEW i \in 0..(cmd_pos - 1 - 1)
        PROVE  buf[i] # NUL
    <3>1. CASE i < d
      <4>1. i \in 0..(d - 1) /\ i \in 0..(cmd_pos - 1)
        BY <1>1, <3>1
      <4> QED
        BY <1>8, <2>1, <4>1
    <3>2. CASE i >= d
      <4>1. i \in d..(cmd_pos - 2) /\ i + 1 \in 0..(cmd_pos - 1)
        BY <1>1, <3>2
      <4> QED
        BY <1>9, <2>1, <4>1
    <3> QED
      BY <1>1, <3>1, <3>2
  <2> QED
    BY <2>2, <2>3, Zenon DEF EndsAt
<1> QED
  BY <1>4, <1>7, <1>8, <1>9, <1>10
\* A line that ends where it should is an empty one with nothing left beside it, or
\* none that Leftover is about.
LEMMA EndedLine ==
  ASSUME cmd_pos' \in Nat, EndsAt(cmd_buffer', 0, cmd_pos')
  PROVE  Leftover'
<1>1. CASE cmd_pos' = 0
  BY <1>1, Nothing DEF Leftover
<1>2. CASE cmd_pos' # 0
  BY <1>2 DEF Leftover
<1> QED
  BY <1>1, <1>2

-----------------------------------------------------------------------------
(* What the screen shows. *)

\* From the row of the prompt on, the prompt (if there is one), the line and nothing else.
Shows(cs, b, buf, pos) ==
  /\ \A p \in Positions : p >= b => cs[p] = IF p < b + pos THEN buf[p - b] ELSE Blank
  /\ \A p \in Row(b)..(b - 1) : cs[p] = PROMPT[p - Row(b) + 1]

SeenAs(cs, a, b, buf, pos, cursor) == a = b + cursor /\ Shows(cs, b, buf, pos)

LEMMA SeenFact ==
  ASSUME NEW cs, NEW a, NEW f, NEW w, screen = TapeOf(cs, a, f, w), LineSeen
  PROVE  w /\ SeenAs(cs, a, base, cmd_buffer, cmd_pos, cursor_pos)
<1>1. screen.cells = cs /\ screen.at = a /\ screen.followed = w
  BY DEF TapeOf
<1> QED
  BY <1>1 DEF LineSeen, SeenAs, Shows, Row

LEMMA NextSeen ==
  ASSUME NEW cs, NEW a, NEW f, NEW w, screen' = TapeOf(cs, a, f, w), w,
         NEW b, NEW buf, NEW pos, NEW cursor,
         b = base', buf = cmd_buffer', pos = cmd_pos', cursor = cursor_pos',
         SeenAs(cs, a, b, buf, pos, cursor)
  PROVE  LineSeen'
<1>1. screen'.cells = cs /\ screen'.at = a /\ screen'.followed = w
  BY DEF TapeOf
<1>2. /\ screen'.followed
      /\ screen'.at = base' + cursor_pos'
      /\ \A p \in Positions : p >= base' =>
           screen'.cells[p] = IF p < base' + cmd_pos' THEN cmd_buffer'[p - base'] ELSE Blank
      /\ \A p \in (base' - (base' % Width))..(base' - 1) :
           screen'.cells[p] = PROMPT[p - (base' - (base' % Width)) + 1]
  BY <1>1 DEF SeenAs, Shows, Row
<1> QED
  BY <1>2 DEF LineSeen, Positions, Size

\* The cursor is after the last column of a row only at the end of a line.
Margin(f, a, pos, cursor) ==
  f \in BOOLEAN /\ (f => cursor = pos /\ pos > 0 /\ a > 0 /\ a % Width = 0)

\* The line may be gone to its end without leaving the screen.
Within(w, a, pos, cursor) == w \in BOOLEAN /\ (w => a + (pos - cursor) < Size)

\* Where a line can begin: at a row's first column, or after a prompt.
Begun(b) == b \in Nat /\ b < Size /\ b % Width \in {0, 2}

ScreenOK ==
  /\ screen = TapeOf(screen.cells, screen.at, screen.full, screen.followed)
  /\ screen.at \in Nat /\ screen.at + (cmd_pos - cursor_pos) < Size
  /\ screen.followed \in BOOLEAN
  /\ Margin(screen.full, screen.at, cmd_pos, cursor_pos)
  /\ Begun(base)

ShellInv == LineOK /\ HistoryOK /\ Leftover /\ ScreenOK

\* A line seen as it is stays so, but for what ScreenShowsLine excepts.
Kept == LineSeen => LineSeen' \/ RecalledInside \/ ~screen'.followed

LEMMA ScreenPicked ==
  ASSUME LineOK, ScreenOK
  PROVE  \E cs, a, f, w, b :
           /\ screen = TapeOf(cs, a, f, w) /\ a \in Nat /\ a + (cmd_pos - cursor_pos) < Size
           /\ Margin(f, a, cmd_pos, cursor_pos) /\ w \in BOOLEAN
           /\ b = base /\ Begun(b)
           /\ LineSeen => w /\ SeenAs(cs, a, b, cmd_buffer, cmd_pos, cursor_pos)
<1>1. PICK cs, a, f, w, b :
        cs = screen.cells /\ a = screen.at /\ f = screen.full /\ w = screen.followed /\ b = base
  OBVIOUS
<1>2. /\ screen = TapeOf(cs, a, f, w) /\ a \in Nat /\ a + (cmd_pos - cursor_pos) < Size
      /\ Margin(f, a, cmd_pos, cursor_pos) /\ w \in BOOLEAN /\ Begun(b)
  BY <1>1 DEF ScreenOK
<1>3. ASSUME LineSeen
      PROVE  w /\ SeenAs(cs, a, b, cmd_buffer, cmd_pos, cursor_pos)
  BY <1>1, <1>2, <1>3, SeenFact
<1> QED
  BY <1>1, <1>2, <1>3

LEMMA FreeTape ==
  ASSUME NEW cs, NEW a, NEW w, NEW pos, NEW cursor
  PROVE  \E f : Free(cs, a, w) = TapeOf(cs, a, f, w) /\ Margin(f, a, pos, cursor)
<1>1. PICK f : f = FALSE
  OBVIOUS
<1>2. Free(cs, a, w) = TapeOf(cs, a, f, w)
  BY <1>1 DEF Free, TapeOf
<1>3. Margin(f, a, pos, cursor)
  BY <1>1 DEF Margin
<1> QED
  BY <1>2, <1>3

LEMMA ShowFact ==
  ASSUME NEW cs, NEW a, NEW f, NEW w, Show(TapeOf(cs, a, f, w))
  PROVE  /\ w => screen' = TapeOf(cs, a, f, w)
         /\ ~w => screen' = Lost
<1>1. TapeOf(cs, a, f, w).followed = w
  BY DEF TapeOf
<1> QED
  BY <1>1 DEF Show

\* Every line fits the screen.
LEMMA LineFits ==
  ASSUME NEW pos \in Nat, pos <= MAX_CMD_LEN - 1, NEW cursor \in 0..pos
  PROVE  0 + (pos - cursor) < Size
<1>1. PICK width \in Nat, last \in Nat :
        width = Width /\ last = LastRow /\ Size = last + width /\ last >= width /\ MAX_CMD_LEN + 1 <= 2 * width
  BY ScreenSizes
<1>2. MAX_CMD_LEN + 1 <= Size
  BY <1>1, ShellSizes
<1>3. cursor \in Nat /\ pos + 2 <= Size /\ Size \in Nat
  BY <1>1, <1>2, ShellSizes
<1> QED
  BY <1>3

\* A step that shows a screen of which these things hold.
LEMMA ShownNext ==
  ASSUME NEW cs, NEW a \in Nat, NEW f, NEW w, NEW b, NEW buf, NEW pos \in Nat, NEW cursor \in 0..pos,
         Show(TapeOf(cs, a, f, w)),
         buf = cmd_buffer', pos = cmd_pos', cursor = cursor_pos', b = base',
         pos <= MAX_CMD_LEN - 1,
         Margin(f, a, pos, cursor), Within(w, a, pos, cursor), Begun(b),
         LineSeen /\ ~RecalledInside /\ w => SeenAs(cs, a, b, buf, pos, cursor)
  PROVE  ScreenOK' /\ Kept
<1>1. CASE w
  <2>1. screen' = TapeOf(cs, a, f, w)
    BY <1>1, ShowFact
  <2>2. screen'.cells = cs /\ screen'.at = a /\ screen'.full = f /\ screen'.followed = w
    BY <2>1 DEF TapeOf
  <2>3. w \in BOOLEAN /\ a + (pos - cursor) < Size
    BY <1>1 DEF Within
  <2>4. ScreenOK'
    BY <2>1, <2>2, <2>3 DEF ScreenOK, Margin, Begun, Size, TapeOf
  <2>5. ASSUME LineSeen, ~RecalledInside
        PROVE  LineSeen'
    <3>1. SeenAs(cs, a, b, buf, pos, cursor)
      BY <1>1, <2>5
    <3> QED
      BY <1>1, <2>1, <3>1, NextSeen
  <2> QED
    BY <2>4, <2>5 DEF Kept
<1>2. CASE ~w
  <2>1. screen' = Lost
    BY <1>2, ShowFact
  <2>2. /\ screen' = TapeOf(screen'.cells, screen'.at, screen'.full, screen'.followed)
        /\ screen'.at = 0 /\ screen'.full = FALSE /\ screen'.followed = FALSE
    BY <2>1 DEF Lost, TapeOf
  <2>3. 0 \in Nat /\ 0 + (pos - cursor) < Size
    BY LineFits
  <2>4. Margin(FALSE, 0, pos, cursor)
    BY DEF Margin
  <2>5. ScreenOK'
    BY <2>2, <2>3, <2>4 DEF ScreenOK, Margin, Begun, Size, TapeOf
  <2>6. ~screen'.followed
    BY <2>2
  <2> QED
    BY <2>5, <2>6 DEF Kept
<1> QED
  BY <1>1, <1>2 DEF Within

\* The cells before the redrawn ones already show the new line's beginning, and those
\* after it are clear.
Begins(cs, b, buf, pos, cursor) ==
  /\ \A p \in Positions : p >= b /\ p < b + cursor => cs[p] = buf[p - b]
  /\ \A p \in Positions : p > b + pos => cs[p] = Blank
  /\ \A p \in Row(b)..(b - 1) : cs[p] = PROMPT[p - Row(b) + 1]

LEMMA PromptPositions ==
  ASSUME NEW b, Begun(b)
  PROVE  /\ b \in Nat
         /\ \A p \in Row(b)..(b - 1) : p \in Positions /\ p \in Nat /\ p < b
<1>1. b \in Nat /\ b < Size
  BY DEF Begun
<1>2. Row(b) \in Nat
  BY <1>1, RowFact
<1> QED
  BY <1>1, <1>2, ScreenSizes DEF Positions

LEMMA RedrawnShows ==
  ASSUME NEW cs, NEW cs2, NEW b, Begun(b), NEW buf, NEW pos \in Nat, NEW cursor \in 0..pos,
         Begins(cs, b, buf, pos, cursor), Redraws(cs2, cs, b + cursor, buf, pos, cursor)
  PROVE  Shows(cs2, b, buf, pos)
<1>1. b \in Nat /\ cursor \in Nat /\ cursor <= pos
  BY PromptPositions
<1>2. ASSUME NEW p \in Positions, p >= b
      PROVE  cs2[p] = IF p < b + pos THEN buf[p - b] ELSE Blank
  <2>1. p \in Int
    BY PositionFact
  <2>2. cs2[p] = IF p >= b + cursor /\ p < (b + cursor) + (pos - cursor)
                   THEN buf[cursor + (p - (b + cursor))]
                 ELSE IF p = (b + cursor) + (pos - cursor) THEN Blank ELSE cs[p]
    BY DEF Redraws
  <2>3. (b + cursor) + (pos - cursor) = b + pos /\ cursor + (p - (b + cursor)) = p - b
    BY <1>1, <2>1
  <2>4. cs2[p] = IF p >= b + cursor /\ p < b + pos THEN buf[p - b]
                 ELSE IF p = b + pos THEN Blank ELSE cs[p]
    BY <2>2, <2>3
  <2>5. CASE p < b + cursor
    <3>1. p < b + pos /\ p # b + pos /\ ~(p >= b + cursor)
      BY <1>1, <2>1, <2>5
    <3> QED
      BY <1>2, <2>4, <2>5, <3>1 DEF Begins
  <2>6. CASE p > b + pos
    <3>1. ~(p < b + pos) /\ p # b + pos
      BY <1>1, <2>1, <2>6
    <3> QED
      BY <2>4, <2>6, <3>1 DEF Begins
  <2>7. CASE p >= b + cursor /\ ~(p > b + pos)
    <3>1. p < b + pos \/ (p = b + pos /\ ~(p < b + pos))
      BY <1>1, <2>1, <2>7
    <3> QED
      BY <2>4, <2>7, <3>1
  <2> QED
    BY <1>1, <2>1, <2>5, <2>6, <2>7
<1>3. ASSUME NEW p \in Row(b)..(b - 1)
      PROVE  cs2[p] = PROMPT[p - Row(b) + 1]
  <2>1. p \in Positions /\ p \in Int /\ p < b
    BY PromptPositions
  <2>2. ~(p >= b + cursor) /\ p # (b + cursor) + (pos - cursor)
    BY <1>1, <2>1
  <2>3. cs2[p] = cs[p]
    BY <2>1, <2>2 DEF Redraws
  <2> QED
    BY <2>3 DEF Begins
<1> QED
  BY <1>2, <1>3 DEF Shows

-----------------------------------------------------------------------------
(* The steps that edit the line. *)

LEMMA TypeCharSafe ==
  ASSUME ShellInv, NEW c \in Chars, TypeChar(c)
  PROVE  ShellInv' /\ Kept
<1>1. PICK buf : buf = cmd_buffer' /\ buf = TypedIn(c)
  BY DEF TypeChar, TypedIn
<1>2. PICK pos \in Nat, cursor \in Nat : pos = cmd_pos /\ cursor = cursor_pos
  BY LineNumbers DEF ShellInv
<1>3. /\ cursor <= pos /\ pos + 1 <= MAX_CMD_LEN - 1
      /\ pos + 1 \in Indexes /\ cursor + 1 \in 0..(pos + 1)
  BY <1>2, LineNumbers, ShellSizes DEF TypeChar, Room, ShellInv, Indexes
<1>4. cmd_pos' = pos + 1 /\ cursor_pos' = cursor + 1
  BY <1>2 DEF TypeChar
<1>5. /\ buf \in Buffers /\ buf[MAX_CMD_LEN - 1] = NUL
      /\ \A i \in 0..(cursor - 1) : buf[i] = cmd_buffer[i]
      /\ buf[cursor] = c
      /\ EndsAt(buf, 0, pos + 1)
  <2>1. LineOK /\ Room
    BY DEF TypeChar, ShellInv
  <2>2. /\ buf \in Buffers /\ buf[MAX_CMD_LEN - 1] = NUL
        /\ \A i \in 0..(cursor_pos - 1) : buf[i] = cmd_buffer[i]
        /\ buf[cursor_pos] = c
        /\ EndsAt(buf, 0, cmd_pos + 1)
    BY <1>1, <2>1, OpenedFact
  <2> QED
    BY <1>2, <2>2
<1>6. LineOK'
  BY <1>1, <1>3, <1>4, <1>5 DEF LineOK, Buffers, Indexes
<1>7. HistoryOK'
  BY DEF ShellInv, HistoryOK, TypeChar, historyVars
<1>8. Leftover'
  BY <1>1, <1>2, <1>4, <1>5, EndedLine
<1>9. PICK cs, a, f, w, b :
        /\ screen = TapeOf(cs, a, f, w) /\ a \in Nat /\ b = base /\ Begun(b)
        /\ LineSeen => w /\ SeenAs(cs, a, b, cmd_buffer, cmd_pos, cursor_pos)
  BY ScreenPicked DEF ShellInv
<1>10. PICK cs1, g, v :
         /\ Printed(screen, <<c>>) = TapeOf(cs1, a + 1, g, v)
         /\ Fills(g, f, a, 1) /\ Stays(v, w, a, 1)
         /\ \A p \in Positions : cs1[p] = IF p >= a /\ p < a + 1 THEN c ELSE cs[p]
  <2>1. PICK cs1, g, v :
          /\ Printed(TapeOf(cs, a, f, w), <<c>>) = TapeOf(cs1, a + Len(<<c>>), g, v)
          /\ Fills(g, f, a, Len(<<c>>)) /\ Stays(v, w, a, Len(<<c>>))
          /\ Overwrites(cs1, cs, a, <<c>>)
    BY PrintedFact
  <2>2. Len(<<c>>) = 1 /\ <<c>>[1] = c
    OBVIOUS
  <2>3. ASSUME NEW p \in Positions
        PROVE  cs1[p] = IF p >= a /\ p < a + 1 THEN c ELSE cs[p]
    <3>1. cs1[p] = IF p >= a /\ p < a + 1 THEN <<c>>[p - a + 1] ELSE cs[p]
      BY <2>1, <2>2 DEF Overwrites
    <3>2. CASE p >= a /\ p < a + 1
      <4>1. p - a + 1 = 1
        BY <1>9, <3>2, PositionFact
      <4> QED
        BY <2>2, <3>1, <3>2, <4>1
    <3>3. CASE ~(p >= a /\ p < a + 1)
      BY <3>1, <3>3
    <3> QED
      BY <3>2, <3>3
  <2> QED
    BY <1>9, <2>1, <2>2, <2>3
<1> PICK a1 \in Nat : a1 = a + 1
  BY <1>9
<1> PICK pos1 \in Indexes : pos1 = pos + 1 /\ pos1 \in Nat
  BY <1>3
<1> PICK cursor1 \in 0..pos1 : cursor1 = cursor + 1 /\ cursor1 \in Nat
  BY <1>3
<1>11. PICK cs2, g2, v2 :
         /\ Show(TapeOf(cs2, a1, g2, v2))
         /\ Margin(g2, a1, pos1, cursor1) /\ Within(v2, a1, pos1, cursor1)
         /\ \/ Redraws(cs2, cs1, a1, buf, pos1, cursor1)
            \/ cursor = pos /\ cs2 = cs1
  <2>1. Show(IF cursor1 < pos1 THEN Redrawn(TapeOf(cs1, a1, g, v), buf, pos1, cursor1)
             ELSE TapeOf(cs1, a1, g, v))
    BY <1>1, <1>4, <1>10 DEF TypeChar
  <2>2. CASE cursor1 < pos1
    <3>1. buf \in Buffers /\ EndsAt(buf, 0, pos1)
      BY <1>5
    <3>2. PICK cs2, v2 :
            /\ Redrawn(TapeOf(cs1, a1, g, v), buf, pos1, cursor1) = Free(cs2, a1, v2)
            /\ Stays(v2, v, a1, pos1 + 1 - cursor1)
            /\ Redraws(cs2, cs1, a1, buf, pos1, cursor1)
      BY <3>1, RedrawnFact
    <3>3. PICK g2 : /\ Free(cs2, a1, v2) = TapeOf(cs2, a1, g2, v2)
                    /\ Margin(g2, a1, pos1, cursor1)
      BY FreeTape
    <3>4. Show(TapeOf(cs2, a1, g2, v2))
      BY <2>1, <2>2, <3>2, <3>3
    <3>5. Within(v2, a1, pos1, cursor1)
      BY <1>3, <1>9, <3>2, ScreenSizes DEF Within, Stays
    <3> QED
      BY <3>2, <3>3, <3>4, <3>5
  <2>3. CASE ~(cursor1 < pos1)
    <3>1. cursor = pos
      BY <1>3, <2>3
    <3>2. Margin(g, a1, pos1, cursor1)
      BY <1>9, <1>10, <3>1 DEF Margin, Fills
    <3>3. Within(v, a1, pos1, cursor1)
      BY <1>9, <1>10, <3>1, ScreenSizes DEF Within, Stays
    <3> QED
      BY <2>1, <2>3, <3>1, <3>2, <3>3
  <2> QED
    BY <2>2, <2>3
<1>12. ASSUME LineSeen
       PROVE  SeenAs(cs2, a1, b, buf, pos1, cursor1)
  <2>1. a = b + cursor /\ Shows(cs, b, cmd_buffer, pos) /\ b \in Nat
    BY <1>2, <1>9, <1>12, PromptPositions DEF SeenAs
  <2>2. Begins(cs1, b, buf, pos1, cursor1)
    <3>1. ASSUME NEW p \in Positions, p >= b, p < b + cursor1
          PROVE  cs1[p] = buf[p - b]
      <4>1. p \in Int
        BY PositionFact
      <4>2. CASE p = a
        <5>1. p >= a /\ p < a1 /\ p - b = cursor
          BY <1>9, <2>1, <4>1, <4>2
        <5> QED
          BY <1>5, <1>10, <5>1
      <4>3. CASE p # a
        <5>1. p < a /\ p < b + pos /\ p - b \in 0..(cursor - 1)
          BY <1>3, <1>9, <2>1, <3>1, <4>1, <4>3
        <5>2. cs1[p] = cs[p]
          BY <1>9, <1>10, <4>1, <5>1
        <5>3. cs[p] = cmd_buffer[p - b]
          BY <2>1, <3>1, <5>1 DEF Shows
        <5> QED
          BY <1>5, <5>1, <5>2, <5>3
      <4> QED
        BY <4>2, <4>3
    <3>2. ASSUME NEW p \in Positions, p > b + pos1
          PROVE  cs1[p] = Blank
      <4>1. p \in Int /\ p >= b /\ ~(p < b + pos) /\ ~(p < a1)
        BY <1>3, <1>9, <2>1, <3>2, PositionFact
      <4> QED
        BY <1>10, <2>1, <4>1 DEF Shows
    <3>3. ASSUME NEW p \in Row(b)..(b - 1)
          PROVE  cs1[p] = PROMPT[p - Row(b) + 1]
      <4>1. p \in Positions /\ p \in Int /\ p < b
        BY <1>9, PromptPositions
      <4>2. ~(p >= a)
        BY <1>9, <2>1, <4>1
      <4> QED
        BY <1>10, <2>1, <4>1, <4>2 DEF Shows
    <3> QED
      BY <3>1, <3>2, <3>3 DEF Begins
  <2>3. a1 = b + cursor1
    BY <1>9, <2>1
  <2>4. CASE Redraws(cs2, cs1, a1, buf, pos1, cursor1)
    <3>1. Redraws(cs2, cs1, b + cursor1, buf, pos1, cursor1)
      BY <2>3, <2>4
    <3>2. pos1 \in Nat
      OBVIOUS
    <3>3. Shows(cs2, b, buf, pos1)
      BY <1>3, <1>9, <2>2, <3>1, <3>2, RedrawnShows, Zenon
    <3> QED
      BY <2>3, <3>3 DEF SeenAs
  <2>5. CASE cursor = pos /\ cs2 = cs1
    <3>1. ASSUME NEW p \in Positions, p >= b
          PROVE  cs1[p] = IF p < b + pos1 THEN buf[p - b] ELSE Blank
      <4>1. p \in Int
        BY PositionFact
      <4>2. CASE p < b + pos1
        BY <2>2, <2>5, <3>1, <4>2 DEF Begins
      <4>3. CASE ~(p < b + pos1)
        <5>1. ~(p < b + pos) /\ ~(p < a1)
          BY <1>9, <2>1, <2>5, <4>1, <4>3
        <5> QED
          BY <1>10, <2>1, <3>1, <4>3, <5>1 DEF Shows
      <4> QED
        BY <4>2, <4>3
    <3>2. Shows(cs2, b, buf, pos1)
      BY <2>2, <2>5, <3>1 DEF Begins, Shows
    <3> QED
      BY <2>3, <3>2 DEF SeenAs
  <2> QED
    BY <1>11, <2>4, <2>5
<1>13. ScreenOK' /\ Kept
  <2>1. base' = b /\ cmd_pos' = pos1 /\ cursor_pos' = cursor1
    BY <1>4, <1>9 DEF TypeChar
  <2> QED
    BY <1>1, <1>3, <1>4, <1>9, <1>11, <1>12, <2>1, ShownNext
<1> QED
  BY <1>6, <1>7, <1>8, <1>13 DEF ShellInv

\* Both erasing keys close the gap at an index d, put the cursor there, and redraw
\* from the cell that shows it.
Erases(d, t) ==
  /\ cmd_buffer' = Closed(d)
  /\ cmd_pos' = cmd_pos - 1
  /\ cursor_pos' = d
  /\ Show(Redrawn(t, cmd_buffer', cmd_pos', cursor_pos'))
  /\ UNCHANGED <<historyVars, base>>

LEMMA ErasesSafe ==
  ASSUME ShellInv, NEW d \in 0..(cmd_pos - 1),
         NEW cs, NEW a \in Nat, NEW f, NEW w, Erases(d, TapeOf(cs, a, f, w)),
         LineSeen => a = base + d /\ Shows(cs, base, cmd_buffer, cmd_pos)
  PROVE  ShellInv' /\ Kept
<1>1. PICK buf : buf = cmd_buffer' /\ buf = Closed(d)
  BY DEF Erases
<1>2. PICK pos \in Nat : pos = cmd_pos
  BY LineNumbers DEF ShellInv
<1>3. PICK pos1 \in Nat : pos1 = pos - 1 /\ pos1 + 1 = pos
  BY <1>2
<1>4. pos1 \in Indexes /\ d \in 0..pos1 /\ pos1 <= MAX_CMD_LEN - 1
  BY <1>2, <1>3, LineNumbers, ShellSizes DEF ShellInv, Indexes
<1>5. /\ buf \in Buffers /\ buf[MAX_CMD_LEN - 1] = NUL
      /\ \A i \in 0..(d - 1) : buf[i] = cmd_buffer[i]
      /\ EndsAt(buf, 0, pos1)
  <2>1. /\ LineOK
    BY DEF ShellInv
  <2>2. /\ buf \in Buffers /\ buf[MAX_CMD_LEN - 1] = NUL
        /\ \A i \in 0..(d - 1) : buf[i] = cmd_buffer[i]
        /\ EndsAt(buf, 0, cmd_pos - 1)
    BY <1>1, <2>1, ClosedFact
  <2> QED
    BY <1>2, <1>3, <2>2
<1>6. cmd_pos' = pos1 /\ cursor_pos' = d
  BY <1>2, <1>3 DEF Erases
<1>7. LineOK'
  BY <1>1, <1>4, <1>5, <1>6 DEF LineOK, Buffers, Indexes
<1>8. HistoryOK'
  BY DEF ShellInv, HistoryOK, Erases, historyVars
<1>9. Leftover'
  BY <1>1, <1>5, <1>6, EndedLine
<1>10. PICK b : b = base /\ Begun(b) /\ b \in Nat /\ b = base'
  BY PromptPositions DEF ShellInv, ScreenOK, Erases
<1>11. PICK cs2, g2, v2 :
         /\ Show(TapeOf(cs2, a, g2, v2))
         /\ Margin(g2, a, pos1, d) /\ Within(v2, a, pos1, d)
         /\ Redraws(cs2, cs, a, buf, pos1, d)
  <2>1. Show(Redrawn(TapeOf(cs, a, f, w), buf, pos1, d))
    BY <1>1, <1>6 DEF Erases
  <2>2. PICK cs2, v2 : /\ Redrawn(TapeOf(cs, a, f, w), buf, pos1, d) = Free(cs2, a, v2)
                       /\ Stays(v2, w, a, pos1 + 1 - d)
                       /\ Redraws(cs2, cs, a, buf, pos1, d)
    BY <1>4, <1>5, RedrawnFact
  <2>3. PICK g2 : Free(cs2, a, v2) = TapeOf(cs2, a, g2, v2) /\ Margin(g2, a, pos1, d)
    BY FreeTape
  <2>4. Show(TapeOf(cs2, a, g2, v2))
    BY <2>1, <2>2, <2>3
  <2>5. Within(v2, a, pos1, d)
    BY <1>4, <2>2, ScreenSizes DEF Within, Stays
  <2> QED
    BY <2>2, <2>3, <2>4, <2>5
<1>12. ASSUME LineSeen
       PROVE  SeenAs(cs2, a, b, buf, pos1, d)
  <2>1. a = b + d /\ Shows(cs, b, cmd_buffer, pos)
    BY <1>2, <1>10, <1>12
  <2>2. Begins(cs, b, buf, pos1, d)
    <3>1. ASSUME NEW p \in Positions, p >= b, p < b + d
          PROVE  cs[p] = buf[p - b]
      <4>1. p - b \in 0..(d - 1) /\ p < b + pos
        BY <1>3, <1>4, <1>10, <3>1, PositionFact
      <4> QED
        BY <1>5, <2>1, <3>1, <4>1 DEF Shows
    <3>2. ASSUME NEW p \in Positions, p > b + pos1
          PROVE  cs[p] = Blank
      <4>1. p >= b /\ ~(p < b + pos)
        BY <1>3, <1>10, <3>2, PositionFact
      <4> QED
        BY <2>1, <4>1 DEF Shows
    <3> QED
      BY <2>1, <3>1, <3>2 DEF Begins, Shows
  <2>3. Redraws(cs2, cs, b + d, buf, pos1, d)
    BY <1>11, <2>1
  <2>4. Shows(cs2, b, buf, pos1)
    BY <1>4, <1>10, <2>2, <2>3, RedrawnShows
  <2> QED
    BY <2>1, <2>4 DEF SeenAs
<1>13. ScreenOK' /\ Kept
  BY <1>1, <1>4, <1>6, <1>10, <1>11, <1>12, ShownNext
<1> QED
  BY <1>7, <1>8, <1>9, <1>13 DEF ShellInv

LEMMA BackspaceSafe ==
  ASSUME ShellInv, Backspace
  PROVE  ShellInv' /\ Kept
<1>1. /\ cmd_pos \in Nat /\ cursor_pos \in Nat /\ cursor_pos <= cmd_pos /\ cursor_pos > 0
  BY LineNumbers DEF ShellInv, Backspace
<1>2. PICK cs, a, f, w, b :
        /\ screen = TapeOf(cs, a, f, w) /\ a \in Nat /\ b = base /\ Begun(b)
        /\ LineSeen => w /\ SeenAs(cs, a, b, cmd_buffer, cmd_pos, cursor_pos)
  BY ScreenPicked DEF ShellInv
<1>3. PICK a1 \in Nat : a1 = Greater(0, a - 1)
  BY <1>2, GreaterFact
<1>4. PICK d \in 0..(cmd_pos - 1) : d = cursor_pos - 1
  BY <1>1
<1>5. PICK g : Left(screen, 1) = TapeOf(cs, a1, g, w)
  <2>1. 1 # 0
    OBVIOUS
  <2>2. Left(TapeOf(cs, a, f, w), 1) = Free(cs, Greater(0, a - 1), w)
    BY <2>1, LeftFact
  <2>3. PICK g : Free(cs, a1, w) = TapeOf(cs, a1, g, w)
    BY FreeTape
  <2> QED
    BY <1>2, <1>3, <2>2, <2>3
<1>6. LineSeen => a1 = base + d /\ Shows(cs, base, cmd_buffer, cmd_pos)
  <2>1. ASSUME LineSeen
        PROVE  a = base + cursor_pos /\ Shows(cs, base, cmd_buffer, cmd_pos) /\ base \in Nat
    BY <1>2, <2>1, PromptPositions DEF SeenAs
  <2>2. ASSUME LineSeen
        PROVE  a1 = base + d
    <3>1. a - 1 = base + d /\ base + d \in Nat /\ a - 1 \in Int
      BY <1>1, <1>4, <2>1, <2>2
    <3> QED
      BY <1>3, <3>1 DEF Greater
  <2> QED
    BY <2>1, <2>2
<1>7. Erases(d, TapeOf(cs, a1, g, w))
  BY <1>4, <1>5 DEF Erases, Backspace
<1> QED
  BY <1>6, <1>7, ErasesSafe

LEMMA DeleteSafe ==
  ASSUME ShellInv, Delete
  PROVE  ShellInv' /\ Kept
<1>1. /\ cmd_pos \in Nat /\ cursor_pos \in Nat /\ cursor_pos < cmd_pos
  BY LineNumbers DEF ShellInv, Delete
<1>2. PICK cs, a, f, w, b :
        /\ screen = TapeOf(cs, a, f, w) /\ a \in Nat /\ b = base /\ Begun(b)
        /\ LineSeen => w /\ SeenAs(cs, a, b, cmd_buffer, cmd_pos, cursor_pos)
  BY ScreenPicked DEF ShellInv
<1>3. PICK d \in 0..(cmd_pos - 1) : d = cursor_pos
  BY <1>1
<1>4. LineSeen => a = base + d /\ Shows(cs, base, cmd_buffer, cmd_pos)
  BY <1>2, <1>3 DEF SeenAs
<1>5. Erases(d, TapeOf(cs, a, f, w))
  BY <1>2, <1>3 DEF Erases, Delete
<1> QED
  BY <1>2, <1>4, <1>5, ErasesSafe

LEMMA MoveSafe ==
  ASSUME ShellInv, NEW to \in 0..cmd_pos, MoveTo(to)
  PROVE  ShellInv' /\ Kept
<1>1. PICK pos \in Nat, cursor \in Nat :
        /\ pos = cmd_pos /\ cursor = cursor_pos /\ cursor <= pos /\ pos <= MAX_CMD_LEN - 1
        /\ to \in Nat /\ to <= pos
  BY LineNumbers DEF ShellInv
<1>2. PICK cs, a, f, w, b :
        /\ screen = TapeOf(cs, a, f, w) /\ a \in Nat /\ a + (cmd_pos - cursor_pos) < Size
        /\ Margin(f, a, cmd_pos, cursor_pos) /\ w \in BOOLEAN
        /\ b = base /\ Begun(b)
        /\ LineSeen => w /\ SeenAs(cs, a, b, cmd_buffer, cmd_pos, cursor_pos)
  BY ScreenPicked DEF ShellInv
<1>3. cursor_pos' = to /\ UNCHANGED <<cmd_buffer, cmd_pos, cmd_history, history_current, saved_cmd, base>>
  BY DEF MoveTo, historyVars
<1>4. LineOK'
  BY <1>1, <1>3 DEF LineOK, ShellInv
<1>5. HistoryOK' /\ Leftover'
  BY <1>3 DEF HistoryOK, Leftover, ShellInv
<1>6. PICK a2, g :
        /\ a2 \in Nat /\ Show(TapeOf(cs, a2, g, w)) /\ Margin(g, a2, pos, to)
        /\ a2 + (pos - to) < Size
        /\ \A c \in Nat : a = c + cursor => a2 = c + to
  <2>1. CASE to > cursor
    <3>1. ~f
      BY <1>1, <1>2, <2>1 DEF Margin
    <3>2. PICK n \in Nat : n = to - cursor /\ n > 0
      BY <1>1, <2>1
    <3>3. Show(Right(TapeOf(cs, a, f, w), n))
      BY <1>1, <1>2, <2>1, <3>2 DEF MoveTo
    <3>4. PICK a2 \in Nat : a2 = a + n
      BY <1>2
    <3>5. PICK g : Free(cs, a2, w) = TapeOf(cs, a2, g, w) /\ Margin(g, a2, pos, to)
      BY FreeTape
    <3>6. Right(TapeOf(cs, a, f, w), n) = Free(cs, a + n, w)
      BY <3>1, <3>2, RightFact
    <3>7. Show(TapeOf(cs, a2, g, w))
      BY <3>3, <3>4, <3>5, <3>6
    <3>8. a2 + (pos - to) < Size /\ \A c \in Nat : a = c + cursor => a2 = c + to
      BY <1>1, <1>2, <3>2, <3>4, ScreenSizes
    <3> QED
      BY <3>5, <3>7, <3>8
  <2>2. CASE to = cursor
    <3>1. 0 = cursor - to
      BY <1>1, <2>2
    <3>2. Show(Left(TapeOf(cs, a, f, w), 0))
      BY <1>1, <1>2, <2>2, <3>1 DEF MoveTo
    <3>3. Left(TapeOf(cs, a, f, w), 0) = TapeOf(cs, a, f, w)
      BY LeftFact
    <3>4. Show(TapeOf(cs, a, f, w))
      BY <3>2, <3>3
    <3> QED
      BY <1>1, <1>2, <2>2, <3>4
  <2>3. CASE to < cursor
    <3>1. PICK n \in Nat : n = cursor - to /\ n # 0 /\ ~(to > cursor)
      BY <1>1, <2>3
    <3>2. Show(Left(TapeOf(cs, a, f, w), n))
      BY <1>1, <1>2, <3>1 DEF MoveTo
    <3>3. PICK a2 \in Nat : a2 = Greater(0, a - n)
      BY <1>2, GreaterFact
    <3>4. PICK g : Free(cs, a2, w) = TapeOf(cs, a2, g, w) /\ Margin(g, a2, pos, to)
      BY FreeTape
    <3>5. Left(TapeOf(cs, a, f, w), n) = Free(cs, a2, w)
      BY <3>1, <3>3, LeftFact
    <3>6. Show(TapeOf(cs, a2, g, w))
      BY <3>2, <3>4, <3>5
    <3>7. PICK x \in Int : x = a - n
      BY <1>2
    <3>8. a2 + (pos - to) < Size
      <4>1. CASE x > 0
        <5>1. a2 = a - n
          BY <3>3, <3>7, <4>1, GreaterFact
        <5> QED
          BY <1>1, <1>2, <3>1, <5>1, ScreenSizes
      <4>2. CASE ~(x > 0)
        <5>1. a2 = 0
          BY <3>3, <3>7, <4>2, GreaterFact
        <5>2. to \in 0..pos
          BY <1>1
        <5> QED
          BY <1>1, <5>1, <5>2, LineFits
      <4> QED
        BY <4>1, <4>2
    <3>9. ASSUME NEW c \in Nat, a = c + cursor
          PROVE  a2 = c + to
      <4>1. a - n = c + to /\ c + to \in Nat
        BY <1>1, <3>1, <3>9
      <4> QED
        BY <3>3, <4>1 DEF Greater
    <3> QED
      BY <3>4, <3>6, <3>8, <3>9
  <2> QED
    BY <1>1, <2>1, <2>2, <2>3
<1>7. PICK buf : buf = cmd_buffer /\ buf = cmd_buffer'
  BY <1>3
<1>8. ASSUME LineSeen
      PROVE  SeenAs(cs, a2, b, buf, pos, to)
  <2>1. a = b + cursor /\ Shows(cs, b, buf, pos) /\ b \in Nat
    BY <1>1, <1>2, <1>7, <1>8, PromptPositions DEF SeenAs
  <2> QED
    BY <1>6, <2>1 DEF SeenAs
<1>9. ScreenOK' /\ Kept
  <2>1. Within(w, a2, pos, to)
    BY <1>2, <1>6 DEF Within
  <2>2. to \in 0..pos /\ pos = cmd_pos' /\ to = cursor_pos' /\ b = base'
    BY <1>1, <1>2, <1>3
  <2> QED
    BY <1>1, <1>2, <1>6, <1>7, <1>8, <2>1, <2>2, ShownNext
<1> QED
  BY <1>4, <1>5, <1>9 DEF ShellInv

-----------------------------------------------------------------------------
(* The steps that recall a line of the past. *)

LEMMA BlanksFact ==
  ASSUME NEW n \in Nat
  PROVE  Len(Blanks(n)) = n /\ \A k \in 1..n : Blanks(n)[k] = Blank
<1>1. Blanks(n) = [k \in 1..n |-> Blank]
  BY DEF Blanks
<1>2. [k \in 1..n |-> Blank] \in [1..n -> {Blank}]
  OBVIOUS
<1>3. Len(Blanks(n)) = n
  BY <1>1, <1>2, FunctionIsSeq
<1> QED
  BY <1>1, <1>3

\* What history_show makes of the cells, from the one it went back to: the entry, then
\* blanks over what was longer.
Replaces(cs2, cs, a, str, left) ==
  \A p \in Positions :
    cs2[p] = IF p >= a /\ p < a + Len(str) THEN str[p - a + 1]
             ELSE IF p >= a + Len(str) /\ p < a + Len(str) + left THEN Blank ELSE cs[p]

\* A string printed from one position to another, and a number of blanks after it.
Spans(str, a, b, len, left) ==
  a \in Nat /\ b \in Nat /\ len \in Nat /\ left \in Nat /\ len = Len(str) /\ b = a + len

LEMMA ReplacedFact ==
  ASSUME NEW cs, NEW a, NEW f, NEW w, Margin(f, a, 0, 0),
         NEW str, NEW b, NEW len, NEW left, Spans(str, a, b, len, left),
         NEW t, t = Left(Printed(Printed(TapeOf(cs, a, f, w), str), Blanks(left)), left)
  PROVE  \E cs2, g, v :
           /\ t = TapeOf(cs2, b, g, v)
           /\ Margin(g, b, len, len) /\ Within(v, b, len, len)
           /\ Replaces(cs2, cs, a, str, left)
<1>1. a \in Nat /\ b \in Nat /\ len \in Nat /\ left \in Nat /\ len = Len(str) /\ b = a + len
  BY DEF Spans
<1>2. PICK cs1, g1, v1 :
        /\ Printed(TapeOf(cs, a, f, w), str) = TapeOf(cs1, b, g1, v1)
        /\ Fills(g1, f, a, len) /\ Stays(v1, w, a, len)
        /\ Overwrites(cs1, cs, a, str)
  <2>1. PICK cs1, g1, v1 :
          /\ Printed(TapeOf(cs, a, f, w), str) = TapeOf(cs1, a + Len(str), g1, v1)
          /\ Fills(g1, f, a, Len(str)) /\ Stays(v1, w, a, Len(str))
          /\ Overwrites(cs1, cs, a, str)
    BY PrintedFact
  <2> QED
    BY <1>1, <2>1
<1>3. PICK cs2, g2, v2 :
        /\ Printed(TapeOf(cs1, b, g1, v1), Blanks(left)) = TapeOf(cs2, b + left, g2, v2)
        /\ Fills(g2, g1, b, left) /\ Stays(v2, v1, b, left)
        /\ Overwrites(cs2, cs1, b, Blanks(left))
  <2>1. PICK cs2, g2, v2 :
          /\ Printed(TapeOf(cs1, b, g1, v1), Blanks(left)) = TapeOf(cs2, b + Len(Blanks(left)), g2, v2)
          /\ Fills(g2, g1, b, Len(Blanks(left))) /\ Stays(v2, v1, b, Len(Blanks(left)))
          /\ Overwrites(cs2, cs1, b, Blanks(left))
    BY PrintedFact
  <2>2. Len(Blanks(left)) = left
    BY <1>1, BlanksFact
  <2> QED
    BY <2>1, <2>2
<1>4. Left(Printed(Printed(TapeOf(cs, a, f, w), str), Blanks(left)), left) =
        Left(TapeOf(cs2, b + left, g2, v2), left)
  BY <1>2, <1>3
<1>5. PICK g : /\ Left(TapeOf(cs2, b + left, g2, v2), left) = TapeOf(cs2, b, g, v2)
               /\ Margin(g, b, len, len)
  <2>1. CASE left # 0
    <3>1. Left(TapeOf(cs2, b + left, g2, v2), left) = Free(cs2, Greater(0, (b + left) - left), v2)
      BY <2>1, LeftFact
    <3>2. Greater(0, (b + left) - left) = b
      BY <1>1, BackFact
    <3>3. PICK g : Free(cs2, b, v2) = TapeOf(cs2, b, g, v2) /\ Margin(g, b, len, len)
      BY FreeTape
    <3> QED
      BY <3>1, <3>2, <3>3
  <2>2. CASE left = 0
    <3>1. Left(TapeOf(cs2, b + left, g2, v2), left) = TapeOf(cs2, b + left, g2, v2)
      BY <2>2, LeftFact
    <3>2. b + left = b
      BY <1>1, <2>2
    <3>3. g2 = g1
      BY <1>3, <2>2 DEF Fills
    <3>4. CASE len = 0
      <4>1. g1 = f
        BY <1>2, <3>4 DEF Fills
      <4> QED
        BY <1>1, <3>1, <3>2, <3>3, <3>4, <4>1 DEF Margin
    <3>5. CASE len # 0
      <4>1. g1 \in BOOLEAN /\ (g1 => b % Width = 0) /\ b > 0 /\ len > 0
        BY <1>1, <1>2, <3>5 DEF Fills
      <4>2. Margin(g2, b, len, len)
        BY <3>3, <4>1 DEF Margin
      <4> QED
        BY <3>1, <3>2, <4>2
    <3> QED
      BY <3>4, <3>5
  <2> QED
    BY <2>1, <2>2
<1>6. Within(v2, b, len, len)
  <2>1. v2 \in BOOLEAN /\ (v2 => v1 /\ b + left < Size)
    BY <1>3 DEF Stays
  <2>2. b + left < Size => b + (len - len) < Size
    BY <1>1, ScreenSizes
  <2> QED
    BY <2>1, <2>2 DEF Within
<1>7. ASSUME NEW p \in Positions
      PROVE  cs2[p] = IF p >= a /\ p < a + Len(str) THEN str[p - a + 1]
                      ELSE IF p >= a + Len(str) /\ p < a + Len(str) + left THEN Blank ELSE cs[p]
  <2>1. p \in Int
    BY PositionFact
  <2>2. cs2[p] = IF p >= b /\ p < b + left THEN Blanks(left)[p - b + 1] ELSE cs1[p]
    BY <1>1, <1>3, BlanksFact DEF Overwrites
  <2>3. cs1[p] = IF p >= a /\ p < b THEN str[p - a + 1] ELSE cs[p]
    BY <1>1, <1>2 DEF Overwrites
  <2>4. CASE p >= b /\ p < b + left
    <3>1. p - b + 1 \in 1..left
      BY <1>1, <2>1, <2>4
    <3>2. Blanks(left)[p - b + 1] = Blank
      BY <1>1, <3>1, BlanksFact
    <3>3. ~(p < a + Len(str)) /\ p >= a + Len(str) /\ p < a + Len(str) + left
      BY <1>1, <2>1, <2>4
    <3> QED
      BY <2>2, <2>4, <3>2, <3>3
  <2>5. CASE ~(p >= b /\ p < b + left)
    BY <1>1, <2>2, <2>3, <2>5
  <2> QED
    BY <2>4, <2>5
<1>8. Replaces(cs2, cs, a, str, left)
  BY <1>7 DEF Replaces
<1>9. /\ t = TapeOf(cs2, b, g, v2)
      /\ Margin(g, b, len, len) /\ Within(v2, b, len, len)
  BY <1>1, <1>4, <1>5, <1>6
<1> QED
  BY <1>8, <1>9

LEMMA ReplacedShows ==
  ASSUME NEW cs, NEW cs2, NEW b, Begun(b), NEW old, NEW pos \in Nat, Shows(cs, b, old, pos),
         NEW buf, NEW str, Len(str) \in Nat, NEW left \in Nat, Len(str) + left >= pos,
         \A k \in 1..Len(str) : buf[k - 1] = str[k],
         Replaces(cs2, cs, b, str, left)
  PROVE  Shows(cs2, b, buf, Len(str))
<1>1. PICK len \in Nat : len = Len(str)
  OBVIOUS
<1>2. b \in Nat
  BY PromptPositions
<1>3. ASSUME NEW p \in Positions
      PROVE  cs2[p] = IF p >= b /\ p < b + len THEN str[p - b + 1]
                      ELSE IF p >= b + len /\ p < b + len + left THEN Blank ELSE cs[p]
  BY <1>1 DEF Replaces
<1>4. ASSUME NEW p \in Positions, p >= b
      PROVE  cs2[p] = IF p < b + len THEN buf[p - b] ELSE Blank
  <2>1. p \in Int
    BY PositionFact
  <2>2. CASE p < b + len
    <3>1. PICK k \in 1..Len(str) : k = p - b + 1 /\ k - 1 = p - b
      BY <1>1, <1>2, <1>4, <2>1, <2>2
    <3>2. cs2[p] = str[k]
      BY <1>3, <1>4, <2>2, <3>1
    <3> QED
      BY <2>2, <3>1, <3>2
  <2>3. CASE p >= b + len /\ p < b + len + left
    BY <1>1, <1>2, <1>3, <2>1, <2>3
  <2>4. CASE p >= b + len + left
    <3>1. ~(p < b + pos) /\ ~(p < b + len) /\ ~(p < b + len + left)
      BY <1>1, <1>2, <2>1, <2>4
    <3>2. cs2[p] = cs[p]
      BY <1>3, <3>1
    <3> QED
      BY <1>4, <3>1, <3>2 DEF Shows
  <2> QED
    BY <1>1, <1>2, <2>1, <2>2, <2>3, <2>4
<1>5. ASSUME NEW p \in Row(b)..(b - 1)
      PROVE  cs2[p] = PROMPT[p - Row(b) + 1]
  <2>1. p \in Positions /\ p \in Int /\ p < b /\ ~(p >= b + len)
    BY <1>2, PromptPositions
  <2>2. cs2[p] = cs[p]
    BY <1>2, <1>3, <2>1
  <2> QED
    BY <2>2 DEF Shows
<1> QED
  BY <1>1, <1>4, <1>5 DEF Shows

\* The cell `pos` before another one, if there is one.
BackTo(a1, a, pos) == \A c \in Nat : a = c + pos => a1 = c

\* Back from the cursor over as many cells as the line has characters.
LEMMA WentBack ==
  ASSUME NEW cs, NEW a, NEW f, NEW w, NEW pos, NEW cursor,
         a \in Nat, pos \in Nat, Margin(f, a, pos, cursor),
         NEW t, t = Left(TapeOf(cs, a, f, w), pos)
  PROVE  \E a1, f1 :
           /\ t = TapeOf(cs, a1, f1, w)
           /\ a1 \in Nat /\ Margin(f1, a1, 0, 0)
           /\ BackTo(a1, a, pos)
<1>1. CASE pos = 0
  <2>1. Left(TapeOf(cs, a, f, w), pos) = TapeOf(cs, a, f, w)
    BY <1>1, LeftFact
  <2>2. Margin(f, a, 0, 0)
    BY <1>1 DEF Margin
  <2>3. BackTo(a, a, pos)
    BY <1>1 DEF BackTo
  <2> QED
    BY <2>1, <2>2, <2>3
<1>2. CASE pos # 0
  <2>1. PICK a1 \in Nat : a1 = Greater(0, a - pos)
    BY GreaterFact
  <2>2. Left(TapeOf(cs, a, f, w), pos) = Free(cs, a1, w)
    BY <1>2, <2>1, LeftFact
  <2>3. PICK f1 : Free(cs, a1, w) = TapeOf(cs, a1, f1, w) /\ Margin(f1, a1, 0, 0)
    BY FreeTape
  <2>4. ASSUME NEW c \in Nat, a = c + pos
        PROVE  a1 = c
    <3>1. a - pos = c
      BY <2>4
    <3> QED
      BY <2>1, <3>1 DEF Greater
  <2>5. BackTo(a1, a, pos)
    BY <2>4 DEF BackTo
  <2> QED
    BY <2>2, <2>3, <2>5
<1> QED
  BY <1>1, <1>2

LEMMA ShowEntrySafe ==
  ASSUME ShellInv, NEW index \in -1..(Len(cmd_history) - 1), NEW draft \in Commands,
         ShowEntry(index, draft), cursor_pos < cmd_pos => RecalledInside
  PROVE  ShellInv' /\ Kept
<1>1. PICK str \in Commands : str = IF index = -1 THEN draft ELSE cmd_history[index + 1]
  <2>1. index # -1 => index + 1 \in 1..Len(cmd_history)
    BY DEF ShellInv, HistoryOK
  <2> QED
    BY <2>1 DEF ShellInv, HistoryOK
<1>2. PICK len \in Nat : len = Len(str) /\ len <= MAX_CMD_LEN - 1
  BY CopiedFact, ShellSizes DEF ShellInv, LineOK, Indexes
<1>3. PICK pos \in Nat, cursor \in Nat : pos = cmd_pos /\ cursor = cursor_pos /\ cursor <= pos
  BY LineNumbers DEF ShellInv
<1>4. PICK left \in Nat : left = (IF len < pos THEN pos - len ELSE 0) /\ len + left >= pos
  <2>1. CASE len < pos
    <3>1. pos - len \in Nat /\ len + (pos - len) >= pos
      BY <2>1
    <3> QED
      BY <2>1, <3>1
  <2>2. CASE ~(len < pos)
    <3>1. len + 0 >= pos /\ 0 \in Nat
      BY <2>2
    <3> QED
      BY <2>2, <3>1
  <2> QED
    BY <2>1, <2>2
<1>5. PICK buf \in Buffers :
        /\ buf = cmd_buffer' /\ buf[MAX_CMD_LEN - 1] = NUL
        /\ \A k \in 1..Len(str) : buf[k - 1] = str[k]
        /\ EndsAt(buf, 0, Len(str)) /\ Len(str) \in Indexes
  <2>1. cmd_buffer \in Buffers /\ cmd_buffer[MAX_CMD_LEN - 1] = NUL
    BY DEF ShellInv, LineOK
  <2>2. cmd_buffer' = Copied(cmd_buffer, str)
    BY <1>1 DEF ShowEntry
  <2> QED
    BY <2>1, <2>2, CopiedFact
<1>6. cmd_pos' = len /\ cursor_pos' = len
  BY <1>1, <1>2 DEF ShowEntry
<1>7. LineOK'
  BY <1>2, <1>5, <1>6 DEF LineOK, Buffers, Indexes
<1>8. HistoryOK'
  BY DEF ShellInv, HistoryOK, ShowEntry
<1>9. Leftover'
  BY <1>2, <1>5, <1>6, EndedLine
<1>10. PICK cs, a, f, w, b :
        /\ screen = TapeOf(cs, a, f, w) /\ a \in Nat /\ Margin(f, a, pos, cursor)
        /\ b = base /\ Begun(b)
        /\ LineSeen => w /\ SeenAs(cs, a, b, cmd_buffer, pos, cursor)
  BY <1>3, ScreenPicked DEF ShellInv
<1>11. PICK a1, f1 :
        /\ Left(TapeOf(cs, a, f, w), pos) = TapeOf(cs, a1, f1, w)
        /\ a1 \in Nat /\ Margin(f1, a1, 0, 0)
        /\ BackTo(a1, a, pos)
  <2>1. PICK t : t = Left(TapeOf(cs, a, f, w), pos)
    OBVIOUS
  <2>2. \E a1, f1 : /\ t = TapeOf(cs, a1, f1, w)
                    /\ a1 \in Nat /\ Margin(f1, a1, 0, 0)
                    /\ BackTo(a1, a, pos)
    BY <1>10, <2>1, WentBack
  <2> QED
    BY <2>1, <2>2
<1>12. PICK a2 \in Nat : a2 = a1 + len
  BY <1>11
<1>13. PICK cs2, g, v :
        /\ Show(TapeOf(cs2, a2, g, v))
        /\ Margin(g, a2, len, len) /\ Within(v, a2, len, len)
        /\ Replaces(cs2, cs, a1, str, left)
  <2>1. left = IF Len(str) < cmd_pos THEN cmd_pos - Len(str) ELSE 0
    BY <1>2, <1>3, <1>4
  <2>2. PICK t : t = Left(Printed(Printed(TapeOf(cs, a1, f1, w), str), Blanks(left)), left)
    OBVIOUS
  <2>3. Show(t)
    BY <1>1, <1>3, <1>10, <1>11, <2>1, <2>2 DEF ShowEntry
  <2>4. Margin(f1, a1, 0, 0) /\ Spans(str, a1, a2, len, left)
    BY <1>2, <1>11, <1>12 DEF Spans
  <2>5. PICK cs2, g, v :
          /\ t = TapeOf(cs2, a2, g, v)
          /\ Margin(g, a2, len, len) /\ Within(v, a2, len, len)
          /\ Replaces(cs2, cs, a1, str, left)
    BY <2>2, <2>4, ReplacedFact
  <2> QED
    BY <2>3, <2>5
<1>14. ASSUME LineSeen, ~RecalledInside
       PROVE  SeenAs(cs2, a2, b, buf, len, len)
  <2>1. cursor = pos
    BY <1>3, <1>14
  <2>2. a = b + pos /\ Shows(cs, b, cmd_buffer, pos) /\ b \in Nat
    BY <1>10, <1>14, <2>1, PromptPositions DEF SeenAs
  <2>3. a1 = b
    BY <1>11, <2>2 DEF BackTo
  <2>4. Replaces(cs2, cs, b, str, left) /\ Len(str) \in Nat /\ Len(str) + left >= pos
    BY <1>2, <1>4, <1>13, <2>3
  <2>5. Shows(cs2, b, buf, Len(str))
    BY <1>5, <1>10, <2>2, <2>4, ReplacedShows
  <2> QED
    BY <1>2, <1>12, <2>3, <2>5 DEF SeenAs
<1>15. ScreenOK' /\ Kept
  <2>1. len \in 0..len /\ b = base'
    BY <1>10 DEF ShowEntry
  <2>2. Show(TapeOf(cs2, a2, g, v)) /\ Margin(g, a2, len, len) /\ Within(v, a2, len, len)
    BY <1>13
  <2> QED
    BY <1>2, <1>5, <1>6, <1>10, <1>14, <2>1, <2>2, ShownNext
<1> QED
  BY <1>7, <1>8, <1>9, <1>15 DEF ShellInv

\* The string in the buffer, as KeyUp takes it for the draft.
LEMMA DraftFact ==
  ASSUME LineOK
  PROVE  Str(cmd_buffer, 0) \in Commands
<1>1. 0 \in Indexes /\ cmd_buffer[MAX_CMD_LEN - 1] = NUL /\ cmd_buffer \in Buffers
  BY ShellSizes DEF LineOK, Indexes
<1>2. PICK n \in 0..(MAX_CMD_LEN - 1) : EndsAt(cmd_buffer, 0, n)
  BY <1>1, StrEnds
<1> QED
  BY <1>1, <1>2, StrTyped

LEMMA KeyUpSafe ==
  ASSUME ShellInv, KeyUp
  PROVE  ShellInv' /\ Kept
<1>1. PICK index : index = IF history_current < Len(cmd_history) - 1 THEN history_current + 1 ELSE history_current
  OBVIOUS
<1>2. PICK draft : draft = IF history_current = -1 THEN Str(cmd_buffer, 0) ELSE saved_cmd
  OBVIOUS
<1>3. index \in -1..(Len(cmd_history) - 1)
  <2>1. cmd_history \in Seq(Commands \ {<<>>}) /\ history_current \in -1..(Len(cmd_history) - 1)
    BY DEF ShellInv, HistoryOK
  <2>2. Len(cmd_history) \in Nat
    BY <2>1
  <2> QED
    BY <1>1, <2>1, <2>2
<1>4. draft \in Commands
  BY <1>2, DraftFact DEF ShellInv, HistoryOK
<1>5. ShowEntry(index, draft)
  BY <1>1, <1>2 DEF KeyUp
<1>6. cursor_pos < cmd_pos => RecalledInside
  BY DEF RecalledInside
<1> QED
  BY <1>3, <1>4, <1>5, <1>6, ShowEntrySafe

LEMMA KeyDownSafe ==
  ASSUME ShellInv, KeyDown
  PROVE  ShellInv' /\ Kept
<1>1. PICK index : index = Greater(-1, history_current - 1)
  OBVIOUS
<1>2. index \in -1..(Len(cmd_history) - 1)
  <2>1. cmd_history \in Seq(Commands \ {<<>>}) /\ history_current \in -1..(Len(cmd_history) - 1)
    BY DEF ShellInv, HistoryOK
  <2>2. Len(cmd_history) \in Nat
    BY <2>1
  <2> QED
    BY <1>1, <2>1, <2>2 DEF Greater
<1>3. saved_cmd \in Commands
  BY DEF ShellInv, HistoryOK
<1>4. ShowEntry(index, saved_cmd)
  BY <1>1 DEF KeyDown
<1>5. cursor_pos < cmd_pos => RecalledInside
  BY DEF RecalledInside
<1> QED
  BY <1>2, <1>3, <1>4, <1>5, ShowEntrySafe

-----------------------------------------------------------------------------
(* Enter. *)

\* parse_arguments leaves in the buffer a beginning of the line.
LEMMA CutFact ==
  ASSUME NEW buf \in Buffers, buf[MAX_CMD_LEN - 1] = NUL, NEW n, EndsAt(buf, 0, n)
  PROVE  /\ Cut(buf) \in Buffers /\ Cut(buf)[MAX_CMD_LEN - 1] = NUL
         /\ Str(Cut(buf), 0) \in Prefixes(Str(buf, 0))
<1>1. n \in 0..(MAX_CMD_LEN - 1) /\ buf[n] = NUL
  BY DEF EndsAt
<1>2. StrEnd(buf, 0) = n
  BY StrFact
<1>3. PICK cut : cut = Cut(buf)
  OBVIOUS
<1>4. ASSUME NEW i \in Indexes
      PROVE  cut[i] = NUL \/ cut[i] = buf[i]
  BY <1>3 DEF Cut
<1>5. n \in Indexes /\ MAX_CMD_LEN - 1 \in Indexes /\ 0 \in Indexes
  BY <1>1, ShellSizes DEF Indexes
<1>6. cut[MAX_CMD_LEN - 1] = NUL /\ cut[n] = NUL
  BY <1>1, <1>4, <1>5
<1>7. cut \in Buffers
  <2>1. \A i \in Indexes : cut[i] \in Chars \cup {NUL}
    BY <1>4 DEF Buffers
  <2>2. cut = [i \in Indexes |-> cut[i]]
    BY <1>3 DEF Cut
  <2> QED
    BY <2>1, <2>2 DEF Buffers
<1>8. PICK m \in 0..(MAX_CMD_LEN - 1) : EndsAt(cut, 0, m)
  BY <1>5, <1>6, StrEnds
<1>9. m <= n
  <2>1. \A i \in 0..(m - 1) : cut[i] # NUL
    BY <1>8 DEF EndsAt
  <2>2. ~(n < m)
    BY <1>1, <1>6, <1>8, <2>1, ShellSizes
  <2> QED
    BY <1>1, <1>8, <2>2, ShellSizes
<1>10. m \in Nat /\ n \in Nat /\ m \in 0..n
  BY <1>1, <1>8, <1>9, ShellSizes
<1>11. PICK s \in Seq(Chars) : /\ s = Str(buf, 0) /\ Len(s) = n
                               /\ \A k \in 1..n : s[k] = buf[k - 1]
  BY StrTyped
<1>12. PICK t \in Seq(Chars) : /\ t = Str(cut, 0) /\ Len(t) = m
                               /\ \A k \in 1..m : t[k] = cut[k - 1]
  BY <1>7, <1>8, StrTyped
<1>13. ASSUME NEW k \in 1..m
       PROVE  t[k] = s[k]
  <2>1. k \in 1..n /\ k - 1 \in Indexes /\ k - 1 \in 0..(m - 1)
    BY <1>1, <1>10, ShellSizes DEF Indexes
  <2>2. cut[k - 1] # NUL
    BY <1>8, <2>1 DEF EndsAt
  <2> QED
    BY <1>4, <1>11, <1>12, <2>1, <2>2
<1>14. t = SubSeq(s, 1, m)
  <2>1. SubSeq(s, 1, m) \in Seq(Chars) /\ Len(SubSeq(s, 1, m)) = m
    BY <1>10, <1>11
  <2>2. \A k \in 1..m : SubSeq(s, 1, m)[k] = s[k]
    BY <1>10, <1>11
  <2> QED
    BY <1>12, <1>13, <2>1, <2>2
<1>15. t \in Prefixes(s)
  BY <1>10, <1>11, <1>14 DEF Prefixes
<1> QED
  BY <1>3, <1>6, <1>7, <1>11, <1>12, <1>15

LEMMA TailAppend ==
  ASSUME NEW S, NEW h \in Seq(S), NEW x \in S
  PROVE  /\ Append(h, x) \in Seq(S) /\ Append(h, x) # <<>> /\ Len(Append(h, x)) = Len(h) + 1
         /\ Last(Append(h, x)) = x
         /\ h # <<>> => Tail(h) \in Seq(S) /\ Len(Tail(h)) = Len(h) - 1
BY DEF Last

LEMMA TailOfAppend ==
  ASSUME NEW S, NEW h \in Seq(S), h # <<>>, NEW x \in S
  PROVE  Append(Tail(h), x) = Tail(Append(h, x))
<1>1. PICK g, f : g = Tail(h) /\ f = Append(h, x)
  OBVIOUS
<1>2. g \in Seq(S) /\ Len(g) = Len(h) - 1 /\ \A k \in 1..(Len(h) - 1) : g[k] = h[k + 1]
  BY <1>1
<1>3. /\ f \in Seq(S) /\ Len(f) = Len(h) + 1 /\ f[Len(h) + 1] = x
      /\ \A k \in 1..Len(h) : f[k] = h[k]
  BY <1>1
<1>4. PICK n \in Nat : n = Len(h)
  BY LenProperties
<1>5. n > 0
  BY <1>4
<1>6. PICK u, v : u = Append(g, x) /\ v = Tail(f)
  OBVIOUS
<1>7. u \in Seq(S) /\ Len(u) = n /\ u[n] = x /\ \A k \in 1..(n - 1) : u[k] = g[k]
  BY <1>2, <1>4, <1>5, <1>6
<1>8. v \in Seq(S) /\ Len(v) = n /\ \A k \in 1..n : v[k] = f[k + 1]
  BY <1>3, <1>4, <1>5, <1>6
<1>9. ASSUME NEW k \in 1..n
      PROVE  u[k] = v[k]
  <2>1. CASE k = n
    BY <1>3, <1>4, <1>7, <1>8, <2>1
  <2>2. CASE k # n
    <3>1. k \in 1..(n - 1) /\ k + 1 \in 1..n
      BY <1>4, <2>2
    <3> QED
      BY <1>2, <1>3, <1>4, <1>7, <1>8, <3>1
  <2> QED
    BY <2>1, <2>2
<1>10. u = v
  BY <1>7, <1>8, <1>9, SameElements
<1> QED
  BY <1>1, <1>6, <1>10

LEMMA AddedFact ==
  ASSUME HistoryOK, NEW str \in Commands \ {<<>>}
  PROVE  /\ Added(str) \in Seq(Commands \ {<<>>}) /\ Len(Added(str)) <= MAX_CMD_HISTORY
         /\ Len(Added(str)) >= Len(cmd_history)
         /\ Added(str) # <<>> /\ Last(Added(str)) = str
<1>1. PICK S : S = Commands \ {<<>>}
  OBVIOUS
<1>2. PICK h \in Seq(S) : h = cmd_history /\ Len(h) <= MAX_CMD_HISTORY /\ Len(h) \in Nat
  BY <1>1 DEF HistoryOK
<1>3. str \in S /\ str # <<>> /\ MAX_CMD_HISTORY \in Nat /\ MAX_CMD_HISTORY > 0
  BY <1>1, ShellSizes
<1>4. Added(str) = IF h # <<>> /\ Last(h) = str THEN h
                   ELSE Append(IF Len(h) >= MAX_CMD_HISTORY THEN Tail(h) ELSE h, str)
  BY <1>2, <1>3 DEF Added
<1>5. CASE h # <<>> /\ Last(h) = str
  <2>1. Added(str) = h
    BY <1>4, <1>5
  <2> QED
    BY <1>1, <1>2, <1>5, <2>1
<1>6. CASE ~(h # <<>> /\ Last(h) = str) /\ Len(h) >= MAX_CMD_HISTORY
  <2>1. h # <<>>
    BY <1>2, <1>3, <1>6
  <2>2. PICK g \in Seq(S) : g = Tail(h) /\ Len(g) = Len(h) - 1
    BY <1>3, <2>1, TailAppend
  <2>3. Added(str) = Append(g, str)
    BY <1>4, <1>6, <2>2
  <2>4. Append(g, str) \in Seq(S) /\ Append(g, str) # <<>> /\ Len(Append(g, str)) = Len(g) + 1 /\ Last(Append(g, str)) = str
    BY <1>3, TailAppend
  <2> QED
    BY <1>1, <1>2, <1>3, <2>2, <2>3, <2>4
<1>7. CASE ~(h # <<>> /\ Last(h) = str) /\ ~(Len(h) >= MAX_CMD_HISTORY)
  <2>1. Added(str) = Append(h, str)
    BY <1>4, <1>7
  <2>2. Append(h, str) \in Seq(S) /\ Append(h, str) # <<>> /\ Len(Append(h, str)) = Len(h) + 1 /\ Last(Append(h, str)) = str
    BY <1>3, TailAppend
  <2> QED
    BY <1>1, <1>2, <1>3, <1>7, <2>1, <2>2
<1> QED
  BY <1>5, <1>6, <1>7

\* An empty line, whatever is left in the buffer.
ShowsEmpty(cs, a) == \A buf : SeenAs(cs, a, a, buf, 0, 0)

\* The prompt, printed where a row begins on a screen that is clear from there on.
LEMMA PromptShows ==
  ASSUME NEW cs, NEW to \in Nat, to <= LastRow, to % Width = 0, NEW f, NEW w,
         NEW t, t = TapeOf(cs, to, f, w)
  PROVE  \E cs2, a, g, v :
           /\ Printed(t, PROMPT) = TapeOf(cs2, a, g, v)
           /\ a \in Nat /\ Begun(a) /\ Margin(g, a, 0, 0) /\ Within(v, a, 0, 0)
           /\ ClearFrom(cs, to) => ShowsEmpty(cs2, a)
<1>1. PICK cs2, g, v : /\ Printed(TapeOf(cs, to, f, w), PROMPT) = TapeOf(cs2, to + Len(PROMPT), g, v)
                       /\ Fills(g, f, to, Len(PROMPT)) /\ Stays(v, w, to, Len(PROMPT))
                       /\ Overwrites(cs2, cs, to, PROMPT)
  BY PrintedFact
<1>2. PICK a \in Nat : a = to + Len(PROMPT) /\ a = to + 2
  BY PromptFact
<1>3. Row(to) = to /\ a % Width = 2 /\ Row(a) = to
  <2>1. Row(to) = to
    BY DEF Row
  <2>2. PICK q \in Int : to = Width * q
    BY <2>1, RowFact
  <2>3. 2 \in 0..(Width - 1)
    BY ScreenSizes
  <2>4. (Width * q + 2) % Width = 2
    BY <2>3, MultipleFact
  <2>5. a % Width = 2
    BY <1>2, <2>2, <2>4
  <2> QED
    BY <1>2, <2>1, <2>5 DEF Row
<1>4. a < Size
  BY <1>2, ScreenSizes
<1>5. Begun(a)
  BY <1>3, <1>4 DEF Begun
<1>6. Margin(g, a, 0, 0)
  <2>1. g \in BOOLEAN /\ (g => a % Width = 0)
    BY <1>1, <1>2, PromptFact DEF Fills
  <2> QED
    BY <1>3, <2>1 DEF Margin
<1>7. Within(v, a, 0, 0)
  <2>1. v \in BOOLEAN
    BY <1>1 DEF Stays
  <2>2. a + (0 - 0) < Size
    BY <1>4, ScreenSizes
  <2> QED
    BY <2>1, <2>2 DEF Within
<1>8. ASSUME NEW p \in Positions
      PROVE  cs2[p] = IF p >= to /\ p < a THEN PROMPT[p - to + 1] ELSE cs[p]
  BY <1>1, <1>2 DEF Overwrites
<1>9. ASSUME NEW buf, ClearFrom(cs, to)
      PROVE  SeenAs(cs2, a, a, buf, 0, 0)
  <2>1. ASSUME NEW p \in Positions, p >= a
        PROVE  cs2[p] = IF p < a + 0 THEN buf[p - a] ELSE Blank
    <3>1. p \in Nat /\ ~(p < a) /\ p >= to /\ ~(p < a + 0)
      BY <1>2, <2>1, PositionFact
    <3> QED
      BY <1>8, <1>9, <3>1 DEF ClearFrom
  <2>2. ASSUME NEW p \in Row(a)..(a - 1)
        PROVE  cs2[p] = PROMPT[p - Row(a) + 1]
    <3>1. p \in Positions /\ p >= to /\ p < a
      BY <1>2, <1>3, <1>4, ScreenSizes DEF Positions
    <3> QED
      BY <1>3, <1>8, <3>1
  <2>3. a = a + 0
    OBVIOUS
  <2> QED
    BY <2>1, <2>2, <2>3 DEF SeenAs, Shows
<1>10. ClearFrom(cs, to) => ShowsEmpty(cs2, a)
  BY <1>9 DEF ShowsEmpty
<1>11. Printed(t, PROMPT) = TapeOf(cs2, a, g, v)
  BY <1>1, <1>2
<1> QED
  BY <1>2, <1>5, <1>6, <1>7, <1>10, <1>11

\* No word begins in a line of blanks only.
LEMMA BlankLine ==
  ASSUME NEW buf, NEW n \in Nat, StrEnd(buf, 0) = n, Starts(buf) = {}
  PROVE  \A i \in 0..(n - 1) : buf[i] = Blank
<1>1. SUFFICES ASSUME NEW j \in 0..(n - 1), buf[j] # Blank
               PROVE  FALSE
  OBVIOUS
<1>2. PICK S \in SUBSET Nat : S = {i \in 0..(n - 1) : buf[i] # Blank}
  <2>1. {i \in 0..(n - 1) : buf[i] # Blank} \in SUBSET Nat
    OBVIOUS
  <2> QED
    BY <2>1
<1>3. j \in S
  BY <1>1, <1>2
<1>4. PICK i \in S : \A m \in S : i <= m
  BY <1>3, LeastNatural
<1>5. i \in 0..(n - 1) /\ buf[i] # Blank /\ i \in Nat
  BY <1>2
<1>6. i = 0 \/ buf[i - 1] = Blank
  <2>1. ASSUME i # 0, buf[i - 1] # Blank
        PROVE  FALSE
    <3>1. i - 1 \in 0..(n - 1) /\ ~(i <= i - 1)
      BY <1>5, <2>1
    <3>2. i - 1 \in S
      BY <1>2, <2>1, <3>1
    <3> QED
      BY <1>4, <3>1, <3>2
  <2> QED
    BY <2>1
<1>7. i \in Starts(buf)
  BY <1>5, <1>6 DEF Starts
<1> QED
  BY <1>7

\* Below the line, the screen is clear, and so it is from the row that the output ends on.
LEMMA LineClear ==
  ASSUME NEW cs, NEW b, Begun(b), NEW buf, NEW pos \in Nat, Shows(cs, b, buf, pos)
  PROVE  /\ ClearFrom(cs, b + pos)
         /\ (\A i \in 0..(pos - 1) : buf[i] = Blank) => ClearFrom(cs, b)
<1>1. b \in Nat
  BY DEF Begun
<1>2. ASSUME NEW p \in Positions, p >= b
      PROVE  p \in Nat /\ cs[p] = IF p < b + pos THEN buf[p - b] ELSE Blank
  BY <1>2, PositionFact DEF Shows
<1>3. ASSUME NEW p \in Positions, p >= b + pos
      PROVE  cs[p] = Blank
  <2>1. p \in Nat /\ p >= b /\ ~(p < b + pos)
    BY <1>1, <1>3, PositionFact
  <2> QED
    BY <1>2, <2>1
<1>4. ASSUME \A i \in 0..(pos - 1) : buf[i] = Blank, NEW p \in Positions, p >= b
      PROVE  cs[p] = Blank
  <2>1. p \in Nat
    BY PositionFact
  <2>2. CASE p < b + pos
    <3>1. p - b \in 0..(pos - 1)
      BY <1>1, <1>4, <2>1, <2>2
    <3> QED
      BY <1>2, <1>4, <2>2, <3>1
  <2>3. CASE ~(p < b + pos)
    BY <1>2, <1>4, <2>3
  <2> QED
    BY <2>2, <2>3
<1> QED
  BY <1>3, <1>4 DEF ClearFrom

\* A line feed and rows of output leave the screen clear from the cursor on, if there is
\* a row of output or nothing but blanks in the line.
AllBlank == \A i \in 0..(cmd_pos - 1) : cmd_buffer[i] = Blank

LEMMA FedShows ==
  ASSUME LineOK, ScreenOK, NEW n \in Nat
  PROVE  \E cs2, to, w :
           /\ to \in Nat /\ w \in BOOLEAN
           /\ Fed(screen, n) = Free(cs2, to, w)
           /\ to <= LastRow /\ to % Width = 0
           /\ LineSeen /\ (n > 0 \/ AllBlank) => ClearFrom(cs2, to)
<1>1. PICK pos \in Nat, cursor \in Nat :
        pos = cmd_pos /\ cursor = cursor_pos /\ cursor <= pos /\ pos <= MAX_CMD_LEN - 1
  BY LineNumbers
<1>2. PICK cs, a, f, w, b :
        /\ screen = TapeOf(cs, a, f, w) /\ a \in Nat /\ Margin(f, a, pos, cursor) /\ w \in BOOLEAN
        /\ b = base /\ Begun(b)
        /\ LineSeen => w /\ SeenAs(cs, a, b, cmd_buffer, pos, cursor)
  BY <1>1, ScreenPicked
<1>3. CursorOK(a, f)
  BY <1>2 DEF CursorOK, Margin
<1>4. PICK cs2, to :
        /\ to \in Nat
        /\ Fed(TapeOf(cs, a, f, w), n) = Free(cs2, to, w)
        /\ to <= LastRow /\ to % Width = 0
        /\ StillClear(cs2, to, cs, a) /\ ClearBelow(cs2, to, cs, a, f, n)
  BY <1>3, FedFact
<1>5. ASSUME LineSeen
      PROVE  /\ b \in Nat /\ a = b + cursor /\ Shows(cs, b, cmd_buffer, pos)
             /\ ClearFrom(cs, b + pos)
             /\ (\A i \in 0..(pos - 1) : cmd_buffer[i] = Blank) => ClearFrom(cs, b)
  <2>1. a = b + cursor /\ Shows(cs, b, cmd_buffer, pos)
    BY <1>2, <1>5 DEF SeenAs
  <2>2. b \in Nat
    BY <1>2, PromptPositions
  <2> QED
    BY <1>2, <2>1, <2>2, LineClear
<1>6. ASSUME LineSeen, AllBlank
      PROVE  ClearFrom(cs2, to)
  <2>1. ClearFrom(cs, b)
    BY <1>1, <1>5, <1>6 DEF AllBlank
  <2>2. b \in Nat /\ b <= a
    BY <1>1, <1>5, <1>6
  <2> QED
    BY <1>4, <2>1, <2>2 DEF StillClear
<1>7. ASSUME LineSeen, n > 0
      PROVE  ClearFrom(cs2, to)
  <2>1. PICK d \in Nat : d = b + pos
    BY <1>1, <1>5, <1>7
  <2>2. ClearFrom(cs, d) /\ b \in Nat
    BY <1>5, <1>7, <2>1
  <2>3. Before(b, a, f)
    BY <1>1, <1>2, <1>5, <1>7 DEF Before, Margin
  <2>4. d <= Row(b) + Width + Width
    <3>1. b % Width \in {0, 2}
      BY <1>2 DEF Begun
    <3>2. Row(b) \in Nat /\ b <= Row(b) + 2
      BY <2>2, <3>1, RowFact DEF Row
    <3>3. d <= Row(b) + 2 + (MAX_CMD_LEN - 1)
      BY <1>1, <2>1, <2>2, <3>2, ShellSizes
    <3> QED
      BY <3>2, <3>3, ShellSizes, ScreenSizes
  <2> QED
    BY <1>4, <1>7, <2>2, <2>3, <2>4 DEF ClearBelow
<1> QED
  BY <1>2, <1>4, <1>6, <1>7

\* The step to the next line.
LEMMA NextLine ==
  ASSUME NEW cs, NEW a \in Nat, NEW f, NEW w, Show(TapeOf(cs, a, f, w)),
         base' = screen'.at, cmd_pos' = 0, cursor_pos' = 0,
         Begun(a), Margin(f, a, 0, 0), Within(w, a, 0, 0),
         LineSeen => SeenAs(cs, a, a, cmd_buffer', 0, 0)
  PROVE  ScreenOK' /\ Kept
<1>1. 0 \in 0..0 /\ 0 <= MAX_CMD_LEN - 1 /\ 0 \in Nat
  BY ShellSizes
<1>2. PICK buf : buf = cmd_buffer'
  OBVIOUS
<1>3. CASE w
  <2>1. screen' = TapeOf(cs, a, f, w)
    BY <1>3, ShowFact
  <2>2. a = base'
    BY <2>1 DEF TapeOf
  <2> QED
    BY <1>1, <1>2, <2>2, ShownNext
<1>4. CASE ~w
  <2>1. screen' = Lost
    BY <1>4, ShowFact
  <2>2. PICK b \in Nat : b = 0 /\ b = base'
    BY <2>1 DEF Lost
  <2>3. Begun(b)
    <3>1. 0 % Width = 0 /\ 0 < Size
      <4>1. 0 \in 0..(Width - 1)
        BY ScreenSizes
      <4>2. Width * 0 = 0 /\ (Width * 0) % Width = 0
        BY <4>1, ScreenSizes, MultipleFact
      <4> QED
        BY <4>2, ScreenSizes
    <3> QED
      BY <2>2, <3>1 DEF Begun
  <2> QED
    BY <1>1, <1>2, <1>4, <2>2, <2>3, ShownNext
<1> QED
  BY <1>3, <1>4 DEF Within

\* The prompt below rows of output, or on a screen that `clear` has emptied.
LEMMA PromptNext ==
  ASSUME NEW cs, NEW to \in Nat, to <= LastRow, to % Width = 0, NEW f, NEW w,
         Show(Printed(TapeOf(cs, to, f, w), PROMPT)),
         base' = screen'.at, cmd_pos' = 0, cursor_pos' = 0,
         LineSeen => ClearFrom(cs, to)
  PROVE  ScreenOK' /\ Kept
<1>1. PICK t : t = TapeOf(cs, to, f, w)
  OBVIOUS
<1>2. PICK cs2, a, g, v :
        /\ Printed(t, PROMPT) = TapeOf(cs2, a, g, v)
        /\ a \in Nat /\ Begun(a) /\ Margin(g, a, 0, 0) /\ Within(v, a, 0, 0)
        /\ ClearFrom(cs, to) => ShowsEmpty(cs2, a)
  BY <1>1, PromptShows
<1>3. Show(TapeOf(cs2, a, g, v))
  BY <1>1, <1>2
<1>4. LineSeen => SeenAs(cs2, a, a, cmd_buffer', 0, 0)
  BY <1>2 DEF ShowsEmpty
<1> QED
  BY <1>2, <1>3, <1>4, NextLine

LEMMA ClearedFact ==
  \E cs, f, w : /\ Cleared = TapeOf(cs, 0, f, w) /\ w = TRUE /\ f = FALSE
                /\ ClearFrom(cs, 0)
<1>1. PICK cs, f, w : cs = [p \in Positions |-> Blank] /\ f = FALSE /\ w = TRUE
  OBVIOUS
<1>2. Cleared = TapeOf(cs, 0, f, w)
  BY <1>1 DEF Cleared, TapeOf
<1>3. ClearFrom(cs, 0)
  BY <1>1 DEF ClearFrom
<1> QED
  BY <1>1, <1>2, <1>3

LEMMA FirstRow == 0 \in Nat /\ 0 <= LastRow /\ 0 % Width = 0
<1>1. 0 \in 0..(Width - 1)
  BY ScreenSizes
<1>2. Width * 0 = 0 /\ (Width * 0) % Width = 0
  BY <1>1, ScreenSizes, MultipleFact
<1> QED
  BY <1>2, ScreenSizes

\* What Enter shows, whatever the line was.
LEMMA AnswersShow ==
  ASSUME LineOK, ScreenOK, NEW t, t \in Answers(cmd_buffer), Show(t),
         cmd_pos > 0, StrEnd(cmd_buffer, 0) = cmd_pos,
         base' = screen'.at, cmd_pos' = 0, cursor_pos' = 0
  PROVE  ScreenOK' /\ Kept
<1>1. CASE Starts(cmd_buffer) = {} /\ t = Fed(screen, 0)
  <2>1. AllBlank
    <3>1. PICK n \in Nat : n = cmd_pos
      BY LineNumbers
    <3>2. \A i \in 0..(n - 1) : cmd_buffer[i] = Blank
      BY <1>1, <3>1, BlankLine
    <3> QED
      BY <3>1, <3>2 DEF AllBlank
  <2>2. PICK cs2, to, w :
          /\ to \in Nat /\ w \in BOOLEAN
          /\ Fed(screen, 0) = Free(cs2, to, w)
          /\ to <= LastRow /\ to % Width = 0
          /\ LineSeen => ClearFrom(cs2, to)
    BY <2>1, FedShows
  <2>3. PICK f : Free(cs2, to, w) = TapeOf(cs2, to, f, w) /\ Margin(f, to, 0, 0)
    BY FreeTape
  <2>4. Show(TapeOf(cs2, to, f, w))
    BY <1>1, <2>2, <2>3
  <2>5. to + (0 - 0) < Size /\ to < Size
    BY <2>2, ScreenSizes
  <2>6. Begun(to) /\ Within(w, to, 0, 0)
    BY <2>2, <2>5 DEF Begun, Within
  <2>7. LineSeen => SeenAs(cs2, to, to, cmd_buffer', 0, 0)
    <3>1. ASSUME LineSeen, NEW p \in Positions, p >= to
          PROVE  cs2[p] = IF p < to + 0 THEN cmd_buffer'[p - to] ELSE Blank
      <4>1. ~(p < to + 0)
        BY <2>2, <3>1, PositionFact
      <4> QED
        BY <2>2, <3>1, <4>1 DEF ClearFrom
    <3>2. Row(to) = to
      BY <2>2 DEF Row
    <3>3. \A p \in Row(to)..(to - 1) : cs2[p] = PROMPT[p - Row(to) + 1]
      BY <2>2, <3>2
    <3>4. to = to + 0
      BY <2>2
    <3> QED
      BY <3>1, <3>3, <3>4 DEF SeenAs, Shows
  <2> QED
    BY <2>2, <2>3, <2>4, <2>6, <2>7, NextLine
<1>2. CASE t = Printed(Cleared, PROMPT)
  <2>1. PICK cs, f, w : Cleared = TapeOf(cs, 0, f, w) /\ ClearFrom(cs, 0)
    BY ClearedFact
  <2>2. Show(Printed(TapeOf(cs, 0, f, w), PROMPT))
    BY <1>2, <2>1
  <2> QED
    BY <2>1, <2>2, FirstRow, PromptNext
<1>3. ASSUME NEW n \in 1..OutputRows, t = Printed(Fed(screen, n), PROMPT)
      PROVE  ScreenOK' /\ Kept
  <2>1. n \in Nat /\ n > 0
    BY ShellAssumption
  <2>2. PICK cs2, to, w :
          /\ to \in Nat
          /\ Fed(screen, n) = Free(cs2, to, w)
          /\ to <= LastRow /\ to % Width = 0
          /\ LineSeen => ClearFrom(cs2, to)
    BY <2>1, FedShows
  <2>3. PICK f : Free(cs2, to, w) = TapeOf(cs2, to, f, w)
    BY FreeTape
  <2>4. Show(Printed(TapeOf(cs2, to, f, w), PROMPT))
    BY <1>3, <2>2, <2>3
  <2> QED
    BY <2>2, <2>4, PromptNext
<1> QED
  BY <1>1, <1>2, <1>3 DEF Answers

LEMMA EnterSafe ==
  ASSUME ShellInv, Enter
  PROVE  ShellInv' /\ Kept
<1>1. /\ cmd_buffer \in Buffers /\ cmd_buffer[MAX_CMD_LEN - 1] = NUL
      /\ cmd_pos \in Nat /\ cmd_pos > 0 /\ EndsAt(cmd_buffer, 0, cmd_pos)
  BY LineNumbers DEF ShellInv, LineOK, Enter
<1>2. [cmd_buffer EXCEPT ![cmd_pos] = NUL] = cmd_buffer
  <2>1. cmd_buffer[cmd_pos] = NUL
    BY <1>1 DEF EndsAt
  <2> QED
    BY <1>1, <2>1 DEF Buffers
<1>3. PICK str : str = Str(cmd_buffer, 0)
  OBVIOUS
<1>4. str \in Commands \ {<<>>}
  <2>1. str \in Commands /\ Len(str) = cmd_pos
    BY <1>1, <1>3, StrTyped
  <2> QED
    BY <1>1, <2>1
<1>5. /\ cmd_history' = Added(str) /\ cmd_buffer' = Cut(cmd_buffer)
      /\ cmd_pos' = 0 /\ cursor_pos' = 0 /\ base' = screen'.at
      /\ history_current' = history_current /\ saved_cmd' = saved_cmd
      /\ \E t \in Answers(cmd_buffer) : Show(t)
  BY <1>2, <1>3 DEF Enter
<1>6. /\ cmd_buffer' \in Buffers /\ cmd_buffer'[MAX_CMD_LEN - 1] = NUL
      /\ Str(cmd_buffer', 0) \in Prefixes(str)
  BY <1>1, <1>3, <1>5, CutFact
<1>7. /\ cmd_history' \in Seq(Commands \ {<<>>}) /\ Len(cmd_history') <= MAX_CMD_HISTORY
      /\ Len(cmd_history') >= Len(cmd_history)
      /\ cmd_history' # <<>> /\ Last(cmd_history') = str
  BY <1>4, <1>5, AddedFact DEF ShellInv
<1>8. LineOK'
  <2>1. 0 \in Indexes /\ 0 \in 0..0
    BY ShellSizes DEF Indexes
  <2> QED
    BY <1>5, <1>6, <2>1 DEF LineOK, Buffers, Indexes
<1>9. HistoryOK'
  <2>1. PICK n \in Nat : n = Len(cmd_history)
    BY DEF ShellInv, HistoryOK
  <2>2. PICK m \in Nat : m = Len(cmd_history') /\ m >= n
    BY <1>7, <2>1
  <2>3. history_current \in -1..(n - 1)
    BY <2>1 DEF ShellInv, HistoryOK
  <2>4. history_current \in -1..(m - 1)
    BY <2>1, <2>2, <2>3
  <2> QED
    BY <1>5, <1>7, <2>2, <2>4 DEF ShellInv, HistoryOK
<1>10. Leftover'
  <2>1. Leftover' <=> (cmd_pos' = 0 =>
          \/ Str(cmd_buffer', 0) = <<>>
          \/ cmd_history' # <<>> /\ Str(cmd_buffer', 0) \in Prefixes(Last(cmd_history')))
    BY DEF Leftover
  <2> QED
    BY <1>6, <1>7, <2>1
<1>11. ScreenOK' /\ Kept
  <2>1. StrEnd(cmd_buffer, 0) = cmd_pos
    BY <1>1, StrFact
  <2>2. PICK t \in Answers(cmd_buffer) : Show(t)
    BY <1>5
  <2> QED
    BY <1>1, <1>5, <2>1, <2>2, AnswersShow DEF ShellInv
<1> QED
  BY <1>8, <1>9, <1>10, <1>11 DEF ShellInv

LEMMA EnterNothingSafe ==
  ASSUME ShellInv, EnterNothing
  PROVE  ShellInv' /\ Kept
<1>1. cmd_pos = 0 /\ cmd_pos' = 0 /\ cursor_pos' = 0 /\ base' = screen'.at
  <2>1. cmd_pos = 0 /\ cursor_pos = 0
    BY LineNumbers DEF ShellInv, EnterNothing
  <2> QED
    BY <2>1 DEF EnterNothing, lineVars
<1>2. AllBlank
  BY <1>1 DEF AllBlank
<1>3. PICK cs2, to, w :
        /\ to \in Nat
        /\ Fed(screen, 0) = Free(cs2, to, w)
        /\ to <= LastRow /\ to % Width = 0
        /\ LineSeen => ClearFrom(cs2, to)
  BY <1>2, FedShows DEF ShellInv
<1>4. PICK f : Free(cs2, to, w) = TapeOf(cs2, to, f, w)
  BY FreeTape
<1>5. Show(Printed(TapeOf(cs2, to, f, w), PROMPT))
  BY <1>3, <1>4 DEF EnterNothing
<1>6. ScreenOK' /\ Kept
  BY <1>1, <1>3, <1>5, PromptNext
<1>7. LineOK' /\ HistoryOK' /\ Leftover'
  BY DEF EnterNothing, lineVars, historyVars, ShellInv, LineOK, HistoryOK, Leftover
<1> QED
  BY <1>6, <1>7 DEF ShellInv

LEMMA SwitchTerminalSafe ==
  ASSUME ShellInv, SwitchTerminal
  PROVE  ShellInv' /\ Kept
<1>1. screen' = Lost
  <2>1. screen = TapeOf(screen.cells, screen.at, screen.full, screen.followed)
    BY DEF ShellInv, ScreenOK
  <2>2. [screen EXCEPT !.followed = FALSE].followed = FALSE
    BY <2>1 DEF TapeOf
  <2> QED
    BY <2>2 DEF SwitchTerminal, Show
<1>2. UNCHANGED <<cmd_buffer, cmd_pos, cursor_pos, cmd_history, history_current, saved_cmd, base>>
  BY DEF SwitchTerminal, lineVars, historyVars
<1>3. PICK pos \in Nat, cursor \in Nat :
        pos = cmd_pos /\ cursor = cursor_pos /\ cursor \in 0..pos /\ pos <= MAX_CMD_LEN - 1
  BY LineNumbers DEF ShellInv
<1>4. 0 + (pos - cursor) < Size
  BY <1>3, LineFits
<1>5. /\ screen' = TapeOf(screen'.cells, screen'.at, screen'.full, screen'.followed)
      /\ screen'.at = 0 /\ screen'.full = FALSE /\ screen'.followed = FALSE
  BY <1>1 DEF Lost, TapeOf
<1>6. PICK b : Begun(b) /\ b = base'
  BY <1>2 DEF ShellInv, ScreenOK
<1>7. ScreenOK'
  <2>1. cmd_pos' = pos /\ cursor_pos' = cursor /\ 0 \in Nat
    BY <1>2, <1>3
  <2>2. Margin(FALSE, 0, pos, cursor)
    BY DEF Margin
  <2> QED
    BY <1>4, <1>5, <1>6, <2>1, <2>2 DEF ScreenOK, Margin, Begun, Size, TapeOf
<1>8. LineOK' /\ HistoryOK' /\ Leftover'
  BY <1>2 DEF ShellInv, LineOK, HistoryOK, Leftover
<1>9. Kept
  BY <1>5 DEF Kept
<1> QED
  BY <1>7, <1>8, <1>9 DEF ShellInv
-----------------------------------------------------------------------------
(* The invariant. *)

LEMMA ShellInit ==
  ASSUME Init
  PROVE  ShellInv /\ LineSeen
<1>1. PICK buf : buf = cmd_buffer /\ buf = [i \in Indexes |-> NUL]
  BY DEF Init
<1>2. buf \in Buffers /\ 0 \in Indexes /\ MAX_CMD_LEN - 1 \in Indexes
  BY <1>1, ShellSizes DEF Buffers, Indexes
<1>3. buf[MAX_CMD_LEN - 1] = NUL /\ buf[0] = NUL
  BY <1>1, <1>2
<1>4. EndsAt(buf, 0, 0)
  BY <1>2, <1>3, ShellSizes DEF EndsAt, Indexes
<1>5. LineOK
  <2>1. cmd_pos = 0 /\ cursor_pos = 0 /\ 0 \in 0..0
    BY DEF Init
  <2> QED
    BY <1>1, <1>2, <1>3, <2>1 DEF LineOK
<1>6. HistoryOK
  <2>1. <<>> \in Commands
    BY ShellSizes DEF Commands
  <2>2. <<>> \in Seq(Commands \ {<<>>}) /\ Len(<<>>) = 0 /\ -1 \in -1..(0 - 1)
    OBVIOUS
  <2> QED
    BY <2>1, <2>2, ShellSizes DEF Init, HistoryOK
<1>7. Leftover
  <2>1. Str(cmd_buffer, 0) = <<>>
    BY <1>1, <1>4, Nothing
  <2> QED
    BY <2>1 DEF Leftover
<1>8. PICK cs2, a, g, v :
        /\ screen = TapeOf(cs2, a, g, v)
        /\ a \in Nat /\ Begun(a) /\ Margin(g, a, 0, 0) /\ v = TRUE
        /\ SeenAs(cs2, a, a, buf, 0, 0)
  <2>1. PICK cs, f, w : Cleared = TapeOf(cs, 0, f, w) /\ w = TRUE /\ ClearFrom(cs, 0)
    BY ClearedFact
  <2>2. PICK end \in Nat : RowsTo(0, BannerRows, end)
    <3>1. BannerRows \in Nat
      BY ShellAssumption
    <3>2. BannerRows * Width \in Nat /\ 0 + BannerRows * Width = BannerRows * Width
      BY <3>1, ScreenSizes
    <3> QED
      BY <3>1, <3>2, FirstRow DEF RowsTo
  <2>3. PICK cs1, to :
          /\ to \in Nat
          /\ Output(TapeOf(cs, 0, f, w), 0, BannerRows) = Free(cs1, to, w)
          /\ to <= LastRow /\ to % Width = 0
          /\ StillClear(cs1, to, cs, end)
    BY <2>2, OutputFact
  <2>4. ClearFrom(cs1, to)
    BY <2>1, <2>2, <2>3 DEF StillClear, RowsTo
  <2>5. PICK h : Free(cs1, to, w) = TapeOf(cs1, to, h, w)
    BY FreeTape
  <2>6. PICK t : t = TapeOf(cs1, to, h, w)
    OBVIOUS
  <2>7. PICK cs2, a, g, v :
          /\ Printed(t, PROMPT) = TapeOf(cs2, a, g, v)
          /\ a \in Nat /\ Begun(a) /\ Margin(g, a, 0, 0)
          /\ ShowsEmpty(cs2, a)
    BY <2>3, <2>4, <2>6, PromptShows
  <2>8. screen = Printed(t, PROMPT)
    BY <2>1, <2>3, <2>5, <2>6 DEF Init
  <2>9. v = TRUE
    <3>1. Printed(t, PROMPT).followed = v /\ Printed(t, PROMPT).at = a
      BY <2>7 DEF TapeOf
    <3>2. /\ Printed(t, PROMPT).at = t.at + Len(PROMPT)
          /\ Printed(t, PROMPT).followed = (t.followed /\ t.at + Len(PROMPT) < Size)
      BY DEF Printed
    <3>3. t.followed = TRUE
      BY <2>1, <2>6 DEF TapeOf
    <3>4. t.at + Len(PROMPT) < Size
      BY <2>7, <3>1, <3>2 DEF Begun
    <3> QED
      BY <3>1, <3>2, <3>3, <3>4
  <2> QED
    BY <2>7, <2>8, <2>9 DEF ShowsEmpty
<1>9. /\ screen.cells = cs2 /\ screen.at = a /\ screen.full = g /\ screen.followed = v
      /\ base = a /\ cmd_pos = 0 /\ cursor_pos = 0
  <2>1. screen.cells = cs2 /\ screen.at = a /\ screen.full = g /\ screen.followed = v
    BY <1>8 DEF TapeOf
  <2>2. base = screen.at /\ cmd_pos = 0 /\ cursor_pos = 0
    BY DEF Init
  <2> QED
    BY <2>1, <2>2
<1>10. ScreenOK
  <2>1. a + (0 - 0) < Size
    BY <1>8, ScreenSizes DEF Begun
  <2> QED
    BY <1>8, <1>9, <2>1 DEF ScreenOK
<1>11. LineSeen
  <2>1. /\ a = a + 0
        /\ \A p \in Positions : p >= a => cs2[p] = IF p < a + 0 THEN buf[p - a] ELSE Blank
        /\ \A p \in (a - (a % Width))..(a - 1) : cs2[p] = PROMPT[p - (a - (a % Width)) + 1]
    BY <1>8 DEF SeenAs, Shows, Row
  <2> QED
    BY <1>1, <1>8, <1>9, <2>1 DEF LineSeen
<1> QED
  BY <1>5, <1>6, <1>7, <1>10, <1>11 DEF ShellInv

LEMMA ShellNext ==
  ASSUME ShellInv, [Next]_vars
  PROVE  ShellInv' /\ Kept
<1>1. ASSUME NEW c \in Letters, TypeChar(c)
      PROVE  ShellInv' /\ Kept
  BY <1>1, TypeCharSafe DEF Chars
<1>2. CASE TypeChar(Blank)
  BY <1>2, TypeCharSafe DEF Chars
<1>3. CASE Backspace
  BY <1>3, BackspaceSafe
<1>4. CASE Delete
  BY <1>4, DeleteSafe
<1>5. ASSUME NEW to \in 0..cmd_pos, MoveTo(to)
      PROVE  ShellInv' /\ Kept
  BY <1>5, MoveSafe
<1>6. CASE KeyLeft
  <2>1. cursor_pos - 1 \in 0..cmd_pos /\ MoveTo(cursor_pos - 1)
    BY <1>6, LineNumbers DEF KeyLeft, ShellInv
  <2> QED
    BY <1>5, <2>1
<1>7. CASE KeyRight
  <2>1. cursor_pos + 1 \in 0..cmd_pos /\ MoveTo(cursor_pos + 1)
    BY <1>7, LineNumbers DEF KeyRight, ShellInv
  <2> QED
    BY <1>5, <2>1
<1>8. CASE KeyHome
  <2>1. 0 \in 0..cmd_pos /\ MoveTo(0)
    BY <1>8, LineNumbers DEF KeyHome, ShellInv
  <2> QED
    BY <1>5, <2>1
<1>9. CASE KeyEnd
  <2>1. cmd_pos \in 0..cmd_pos /\ MoveTo(cmd_pos)
    BY <1>9, LineNumbers DEF KeyEnd, ShellInv
  <2> QED
    BY <1>5, <2>1
<1>10. CASE KeyUp
  BY <1>10, KeyUpSafe
<1>11. CASE KeyDown
  BY <1>11, KeyDownSafe
<1>12. CASE Enter
  BY <1>12, EnterSafe
<1>13. CASE EnterNothing
  BY <1>13, EnterNothingSafe
<1>14. CASE SwitchTerminal
  BY <1>14, SwitchTerminalSafe
<1>15. CASE UNCHANGED vars
  <2>1. UNCHANGED <<cmd_buffer, cmd_pos, cursor_pos, cmd_history, history_current, saved_cmd, screen, base>>
    BY <1>15 DEF vars, lineVars, historyVars
  <2>2. ShellInv'
    BY <2>1 DEF ShellInv, LineOK, HistoryOK, Leftover, ScreenOK
  <2>3. LineSeen => LineSeen'
    BY <2>1 DEF LineSeen
  <2> QED
    BY <2>2, <2>3 DEF Kept
<1> QED
  BY <1>1, <1>2, <1>3, <1>4, <1>6, <1>7, <1>8, <1>9, <1>10, <1>11, <1>12, <1>13, <1>14, <1>15 DEF Next

LEMMA ShellInvariant == Spec => []ShellInv
<1>1. Init => ShellInv
  BY ShellInit
<1>2. ShellInv /\ [Next]_vars => ShellInv'
  BY ShellNext
<1> QED
  BY <1>1, <1>2, PTL DEF Spec

\* Line, history and cursor keep their bounds, for every size of them.
THEOREM ShellTyped == Spec => []ShellTypeOK
<1>1. ShellInv => ShellTypeOK
  <2> SUFFICES ASSUME ShellInv
               PROVE  ShellTypeOK
    OBVIOUS
  <2>1. cmd_pos \in Nat /\ cursor_pos \in Nat /\ cursor_pos <= cmd_pos /\ cmd_pos <= MAX_CMD_LEN - 1
    BY LineNumbers DEF ShellInv
  <2>2. screen.at \in Nat /\ screen.at + (cmd_pos - cursor_pos) < Size /\ base \in Nat /\ base < Size
    BY DEF ShellInv, ScreenOK, Begun
  <2>3. screen.at \in Positions /\ base \in Positions
    BY <2>1, <2>2, ScreenSizes DEF Positions
  <2>4. \A i \in 1..Len(cmd_history) : cmd_history[i] \in Commands \ {<<>>}
    BY DEF ShellInv, HistoryOK
  <2> QED
    BY <2>2, <2>3, <2>4 DEF ShellTypeOK, ShellInv, LineOK, HistoryOK, ScreenOK, Margin, Buffers
<1> QED
  BY <1>1, ShellInvariant, PTL

\* The string in the buffer and the length kept beside it agree after every key.
THEOREM LineAlwaysEnds == Spec => []LineEnds
<1>1. ShellInv => LineEnds
  <2>1. ASSUME ShellInv, cmd_pos > 0
        PROVE  StrEnd(cmd_buffer, 0) = cmd_pos
    BY <2>1, StrFact DEF ShellInv, LineOK
  <2> QED
    BY <2>1 DEF LineEnds, ShellInv, LineOK
<1> QED
  BY <1>1, ShellInvariant, PTL

\* A line that is seen as it is stays so through every key, wherever its rows wrap, the
\* screen scrolls or the recalled line is shorter or longer, as ScreenShowsLine says: but
\* for a recall from inside the line and for what leaves the followed screen.
THEOREM LineShown == Spec => ScreenShowsLine
<1>1. Init => ShellInv /\ LineSeen
  BY ShellInit
<1>2. ShellInv /\ [Next]_vars => ShellInv' /\ Kept
  BY ShellNext
<1>3. ShellInv /\ [Next]_vars => [LineSeen => \/ LineSeen'
                                             \/ RecalledInside
                                             \/ ~screen'.followed]_vars
  BY <1>2 DEF Kept
<1> QED
  BY <1>1, <1>2, <1>3, PTL DEF Spec, ScreenShowsLine

-----------------------------------------------------------------------------
(* The shell implements the abstract editor. *)

LEMMA SubSeqFact ==
  ASSUME NEW S, NEW s \in Seq(S), NEW m \in 1..(Len(s) + 1), NEW n \in (m - 1)..Len(s)
  PROVE  /\ SubSeq(s, m, n) \in Seq(S) /\ Len(SubSeq(s, m, n)) = n + 1 - m
         /\ \A k \in 1..(n + 1 - m) : SubSeq(s, m, n)[k] = s[m + k - 1]
<1>1. Len(s) \in Nat
  OBVIOUS
<1>2. \A i \in m..n : i \in 1..Len(s)
  BY <1>1
<1>3. SubSeq(s, m, n) \in Seq(S) /\ Len(SubSeq(s, m, n)) = n + 1 - m
  BY <1>1, <1>2
<1> QED
  BY <1>1, <1>2, <1>3

LEMMA InsertedFact ==
  ASSUME NEW S, NEW s \in Seq(S), NEW t \in Seq(S), NEW x \in S, NEW i \in 1..(Len(s) + 1),
         Len(t) = Len(s) + 1, t[i] = x,
         \A k \in 1..(i - 1) : t[k] = s[k],
         \A k \in (i + 1)..(Len(s) + 1) : t[k] = s[k - 1]
  PROVE  t = InsertAt(s, i, x)
<1>1. PICK n \in Nat : n = Len(s)
  BY LenProperties
<1>2. PICK u : u = SubSeq(s, 1, i - 1)
  OBVIOUS
<1>3. u \in Seq(S) /\ Len(u) = i - 1 /\ \A k \in 1..(i - 1) : u[k] = s[k]
  <2>1. 1 \in 1..(Len(s) + 1) /\ i - 1 \in (1 - 1)..Len(s) /\ (i - 1) + 1 - 1 = i - 1
    BY <1>1
  <2>2. /\ u \in Seq(S) /\ Len(u) = (i - 1) + 1 - 1
        /\ \A k \in 1..((i - 1) + 1 - 1) : u[k] = s[1 + k - 1]
    BY <1>2, <2>1, SubSeqFact
  <2> QED
    BY <2>1, <2>2
<1>4. PICK v : v = SubSeq(s, i, Len(s))
  OBVIOUS
<1>5. v \in Seq(S) /\ Len(v) = n + 1 - i /\ \A k \in 1..(n + 1 - i) : v[k] = s[i + k - 1]
  <2>1. Len(s) \in (i - 1)..Len(s)
    BY <1>1
  <2>2. /\ v \in Seq(S) /\ Len(v) = Len(s) + 1 - i
        /\ \A k \in 1..(Len(s) + 1 - i) : v[k] = s[i + k - 1]
    BY <1>4, <2>1, SubSeqFact
  <2> QED
    BY <1>1, <2>2
<1>6. PICK w : w = u \o <<x>>
  OBVIOUS
<1>7. w \in Seq(S) /\ Len(w) = i /\ w[i] = x /\ \A k \in 1..(i - 1) : w[k] = u[k]
  <2>1. /\ w \in Seq(S) /\ Len(w) = Len(u) + 1 /\ w[Len(u) + 1] = x
        /\ \A k \in 1..Len(u) : w[k] = u[k]
    BY <1>3, <1>6, OneMoreFact
  <2>2. Len(u) + 1 = i
    BY <1>3
  <2> QED
    BY <1>3, <2>1, <2>2
<1>8. PICK z : z = w \o v
  OBVIOUS
<1>9. /\ z \in Seq(S) /\ Len(z) = n + 1
      /\ \A k \in 1..i : z[k] = w[k]
      /\ \A k \in (i + 1)..(n + 1) : z[k] = v[k - i]
  <2>1. /\ z \in Seq(S) /\ Len(z) = Len(w) + Len(v)
        /\ \A k \in 1..Len(w) : z[k] = w[k]
        /\ \A k \in (Len(w) + 1)..(Len(w) + Len(v)) : z[k] = v[k - Len(w)]
    <3>1. w \in Seq(S) /\ v \in Seq(S)
      BY <1>5, <1>7
    <3> QED
      BY <1>8, <3>1, ConcatFact
  <2>2. Len(w) = i /\ Len(w) + Len(v) = n + 1
    BY <1>1, <1>5, <1>7
  <2> QED
    BY <2>1, <2>2
<1>10. ASSUME NEW k \in 1..(n + 1)
       PROVE  z[k] = t[k]
  <2>1. CASE k < i
    <3>1. k \in 1..(i - 1) /\ k \in 1..i
      BY <2>1
    <3> QED
      BY <1>3, <1>7, <1>9, <3>1
  <2>2. CASE k = i
    BY <1>7, <1>9, <2>2
  <2>3. CASE k > i
    <3>1. k \in (i + 1)..(n + 1) /\ k - i \in 1..(n + 1 - i) /\ i + (k - i) - 1 = k - 1
      BY <1>1, <2>3
    <3> QED
      BY <1>1, <1>5, <1>9, <3>1
  <2> QED
    BY <2>1, <2>2, <2>3
<1>11. z = t
  BY <1>1, <1>9, <1>10, SameElements
<1> QED
  BY <1>2, <1>4, <1>6, <1>8, <1>11 DEF InsertAt

LEMMA RemovedFact ==
  ASSUME NEW S, NEW s \in Seq(S), NEW t \in Seq(S), NEW i \in 1..Len(s),
         Len(t) = Len(s) - 1,
         \A k \in 1..(i - 1) : t[k] = s[k],
         \A k \in i..(Len(s) - 1) : t[k] = s[k + 1]
  PROVE  t = RemoveAt(s, i)
<1>1. PICK n \in Nat : n = Len(s)
  BY LenProperties
<1>2. PICK u : u = SubSeq(s, 1, i - 1)
  OBVIOUS
<1>3. u \in Seq(S) /\ Len(u) = i - 1 /\ \A k \in 1..(i - 1) : u[k] = s[k]
  <2>1. 1 \in 1..(Len(s) + 1) /\ i - 1 \in (1 - 1)..Len(s) /\ (i - 1) + 1 - 1 = i - 1
    BY <1>1
  <2>2. /\ u \in Seq(S) /\ Len(u) = (i - 1) + 1 - 1
        /\ \A k \in 1..((i - 1) + 1 - 1) : u[k] = s[1 + k - 1]
    BY <1>2, <2>1, SubSeqFact
  <2> QED
    BY <2>1, <2>2
<1>4. PICK v : v = SubSeq(s, i + 1, Len(s))
  OBVIOUS
<1>5. v \in Seq(S) /\ Len(v) = n - i /\ \A k \in 1..(n - i) : v[k] = s[i + k]
  <2>1. i + 1 \in 1..(Len(s) + 1) /\ Len(s) \in (i + 1 - 1)..Len(s) /\ Len(s) + 1 - (i + 1) = n - i
    BY <1>1
  <2>2. /\ v \in Seq(S) /\ Len(v) = Len(s) + 1 - (i + 1)
        /\ \A k \in 1..(Len(s) + 1 - (i + 1)) : v[k] = s[i + 1 + k - 1]
    BY <1>4, <2>1, SubSeqFact
  <2>3. ASSUME NEW k \in 1..(n - i)
        PROVE  i + 1 + k - 1 = i + k
    BY <1>1
  <2> QED
    BY <2>1, <2>2, <2>3
<1>6. PICK z : z = u \o v
  OBVIOUS
<1>7. /\ z \in Seq(S) /\ Len(z) = n - 1
      /\ \A k \in 1..(i - 1) : z[k] = u[k]
      /\ \A k \in i..(n - 1) : z[k] = v[k - (i - 1)]
  <2>1. /\ z \in Seq(S) /\ Len(z) = Len(u) + Len(v)
        /\ \A k \in 1..Len(u) : z[k] = u[k]
        /\ \A k \in (Len(u) + 1)..(Len(u) + Len(v)) : z[k] = v[k - Len(u)]
    <3>1. u \in Seq(S) /\ v \in Seq(S)
      BY <1>3, <1>5
    <3> QED
      BY <1>6, <3>1, ConcatFact
  <2>2. Len(u) = i - 1 /\ Len(u) + 1 = i /\ Len(u) + Len(v) = n - 1
    BY <1>1, <1>3, <1>5
  <2> QED
    BY <2>1, <2>2
<1>8. ASSUME NEW k \in 1..(n - 1)
      PROVE  z[k] = t[k]
  <2>1. CASE k < i
    <3>1. k \in 1..(i - 1)
      BY <2>1
    <3> QED
      BY <1>3, <1>7, <3>1
  <2>2. CASE k >= i
    <3>1. k \in i..(n - 1) /\ k - (i - 1) \in 1..(n - i) /\ i + (k - (i - 1)) = k + 1
      BY <1>1, <2>2
    <3> QED
      BY <1>1, <1>5, <1>7, <3>1
  <2> QED
    BY <2>1, <2>2
<1>9. z = t
  BY <1>1, <1>7, <1>8, SameElements
<1> QED
  BY <1>2, <1>4, <1>6, <1>9 DEF RemoveAt

\* The line, as the abstract editor sees it.
Line == [k \in 1..cmd_pos |-> cmd_buffer[k - 1]]

\* A string of a buffer's first n characters.
LEMMA LineOf ==
  ASSUME NEW buf \in Buffers, NEW n \in Nat, n > 0 => EndsAt(buf, 0, n), n <= MAX_CMD_LEN - 1,
         NEW line, line = [k \in 1..n |-> buf[k - 1]]
  PROVE  line \in Seq(Chars) /\ Len(line) = n /\ \A k \in 1..n : line[k] = buf[k - 1]
<1>1. ASSUME NEW k \in 1..n
      PROVE  buf[k - 1] \in Chars
  <2>1. k - 1 \in 0..(n - 1) /\ k - 1 \in Indexes /\ n > 0
    BY ShellSizes DEF Indexes
  <2>2. buf[k - 1] # NUL
    BY <2>1 DEF EndsAt
  <2> QED
    BY <2>1, <2>2 DEF Buffers
<1>2. line \in [1..n -> Chars]
  BY <1>1
<1> QED
  BY <1>2, FunctionIsSeq

LEMMA LineFact ==
  ASSUME LineOK
  PROVE  /\ Line \in Seq(Chars) /\ Len(Line) = cmd_pos
         /\ \A k \in 1..cmd_pos : Line[k] = cmd_buffer[k - 1]
  BY LineNumbers, LineOf DEF LineOK, Line

LEMMA NextLineFact ==
  ASSUME LineOK'
  PROVE  /\ Line' \in Seq(Chars) /\ Len(Line') = cmd_pos'
         /\ \A k \in 1..cmd_pos' : Line'[k] = cmd_buffer'[k - 1]
<1>1. /\ cmd_pos' \in Nat /\ cmd_pos' <= MAX_CMD_LEN - 1 /\ cmd_buffer' \in Buffers
      /\ cmd_pos' > 0 => EndsAt(cmd_buffer', 0, cmd_pos')
  BY ShellSizes DEF LineOK, Indexes, Buffers
<1> QED
  BY <1>1, LineOf DEF Line

\* The string in the buffer is the line, unless that is empty.
LEMMA StrIsLine ==
  ASSUME LineOK, cmd_pos > 0
  PROVE  Str(cmd_buffer, 0) = Line
<1>1. EndsAt(cmd_buffer, 0, cmd_pos) /\ cmd_buffer \in Buffers
  BY DEF LineOK
<1>2. /\ Str(cmd_buffer, 0) \in Seq(Chars) /\ Len(Str(cmd_buffer, 0)) = cmd_pos
      /\ \A k \in 1..cmd_pos : Str(cmd_buffer, 0)[k] = cmd_buffer[k - 1]
  BY <1>1, StrTyped
<1> QED
  BY <1>2, LineFact, SameElements

LEMMA TypeCharInserts ==
  ASSUME ShellInv, ShellInv', NEW c \in Chars, TypeChar(c)
  PROVE  Abstract!Insert(c)
<1>1. PICK pos \in Nat, cursor \in Nat :
        pos = cmd_pos /\ cursor = cursor_pos /\ cursor <= pos /\ pos < MAX_CMD_LEN - 1
  BY LineNumbers DEF ShellInv, TypeChar, Room
<1>2. PICK s \in Seq(Chars) : /\ s = Line /\ Len(s) = pos
                              /\ \A k \in 1..pos : s[k] = cmd_buffer[k - 1]
  BY <1>1, LineFact DEF ShellInv
<1>3. PICK t \in Seq(Chars) : /\ t = Line' /\ Len(t) = pos + 1
                              /\ \A k \in 1..(pos + 1) : t[k] = cmd_buffer'[k - 1]
  <2>1. cmd_pos' = pos + 1
    BY <1>1 DEF TypeChar
  <2> QED
    BY <2>1, NextLineFact DEF ShellInv
<1>4. /\ \A i \in 0..(cursor - 1) : cmd_buffer'[i] = cmd_buffer[i]
      /\ cmd_buffer'[cursor] = c
      /\ \A i \in (cursor + 1)..pos : cmd_buffer'[i] = cmd_buffer[i - 1]
  <2>1. LineOK /\ Room /\ cmd_buffer' = TypedIn(c)
    BY DEF TypeChar, ShellInv, TypedIn
  <2>2. /\ \A i \in 0..(cursor_pos - 1) : TypedIn(c)[i] = cmd_buffer[i]
        /\ TypedIn(c)[cursor_pos] = c
        /\ \A i \in (cursor_pos + 1)..cmd_pos : TypedIn(c)[i] = cmd_buffer[i - 1]
    BY <2>1, OpenedFact
  <2> QED
    BY <1>1, <2>1, <2>2
<1>5. PICK i \in 1..(Len(s) + 1) : i = cursor + 1 /\ i - 1 = cursor
  BY <1>1, <1>2
<1>6. t[i] = c
  BY <1>1, <1>3, <1>4, <1>5
<1>7. ASSUME NEW k \in 1..(i - 1)
      PROVE  t[k] = s[k]
  <2>1. k \in 1..pos /\ k \in 1..(pos + 1) /\ k - 1 \in 0..(cursor - 1)
    BY <1>1, <1>5
  <2> QED
    BY <1>2, <1>3, <1>4, <2>1
<1>8. ASSUME NEW k \in (i + 1)..(Len(s) + 1)
      PROVE  t[k] = s[k - 1]
  <2>1. k \in 1..(pos + 1) /\ k - 1 \in 1..pos /\ k - 1 \in (cursor + 1)..pos
    BY <1>1, <1>2, <1>5
  <2> QED
    BY <1>2, <1>3, <1>4, <2>1
<1>9. t = InsertAt(s, i, c)
  <2>1. Len(t) = Len(s) + 1
    BY <1>2, <1>3
  <2> QED
    BY <1>6, <1>7, <1>8, <2>1, InsertedFact
<1>10. Line' = InsertAt(Line, cursor_pos + 1, c) /\ Len(Line) < MAX_CMD_LEN - 1
  BY <1>1, <1>2, <1>3, <1>5, <1>9
<1>11. cursor_pos' = cursor_pos + 1 /\ cmd_history' = cmd_history /\ saved_cmd' = saved_cmd
  BY DEF TypeChar, historyVars
<1> QED
  BY <1>10, <1>11 DEF Abstract!Insert, Abstract!InsertAt, InsertAt, Line

LEMMA ErasesRemoves ==
  ASSUME ShellInv, ShellInv', NEW d \in 0..(cmd_pos - 1), cmd_buffer' = Closed(d), cmd_pos' = cmd_pos - 1
  PROVE  Line' = RemoveAt(Line, d + 1)
<1>1. PICK pos \in Nat : pos = cmd_pos
  BY LineNumbers DEF ShellInv
<1>2. d \in Nat /\ d < pos /\ pos - 1 \in Nat
  BY <1>1
<1>3. PICK s \in Seq(Chars) : /\ s = Line /\ Len(s) = pos
                              /\ \A k \in 1..pos : s[k] = cmd_buffer[k - 1]
  BY <1>1, LineFact DEF ShellInv
<1>4. PICK t \in Seq(Chars) : /\ t = Line' /\ Len(t) = pos - 1
                              /\ \A k \in 1..(pos - 1) : t[k] = cmd_buffer'[k - 1]
  <2>1. cmd_pos' = pos - 1
    BY <1>1
  <2> QED
    BY <2>1, NextLineFact DEF ShellInv
<1>5. /\ \A i \in 0..(d - 1) : cmd_buffer'[i] = cmd_buffer[i]
      /\ \A i \in d..(pos - 2) : cmd_buffer'[i] = cmd_buffer[i + 1]
  <2>1. /\ \A i \in 0..(d - 1) : Closed(d)[i] = cmd_buffer[i]
        /\ \A i \in d..(cmd_pos - 2) : Closed(d)[i] = cmd_buffer[i + 1]
    BY ClosedFact DEF ShellInv
  <2> QED
    BY <1>1, <2>1
<1>6. PICK i \in 1..Len(s) : i = d + 1 /\ i - 1 = d
  BY <1>2, <1>3
<1>7. ASSUME NEW k \in 1..(i - 1)
      PROVE  t[k] = s[k]
  <2>1. k \in 1..pos /\ k \in 1..(pos - 1) /\ k - 1 \in 0..(d - 1)
    BY <1>2, <1>6
  <2> QED
    BY <1>3, <1>4, <1>5, <2>1
<1>8. ASSUME NEW k \in i..(Len(s) - 1)
      PROVE  t[k] = s[k + 1]
  <2>1. k \in 1..(pos - 1) /\ k + 1 \in 1..pos /\ k - 1 \in d..(pos - 2) /\ (k - 1) + 1 = (k + 1) - 1
    BY <1>2, <1>3, <1>6
  <2>2. t[k] = cmd_buffer'[k - 1] /\ s[k + 1] = cmd_buffer[(k + 1) - 1]
    BY <1>3, <1>4, <2>1
  <2>3. cmd_buffer'[k - 1] = cmd_buffer[(k - 1) + 1]
    BY <1>5, <2>1
  <2> QED
    BY <2>1, <2>2, <2>3
<1>9. t = RemoveAt(s, i)
  BY <1>3, <1>4, <1>7, <1>8, RemovedFact
<1> QED
  BY <1>3, <1>4, <1>6, <1>9

LEMMA BackspaceErases ==
  ASSUME ShellInv, ShellInv', Backspace
  PROVE  Abstract!EraseBefore
<1>1. /\ cmd_pos \in Nat /\ cursor_pos \in Nat /\ cursor_pos <= cmd_pos /\ cursor_pos > 0
  BY LineNumbers DEF ShellInv, Backspace
<1>2. cursor_pos - 1 \in 0..(cmd_pos - 1) /\ (cursor_pos - 1) + 1 = cursor_pos
  BY <1>1
<1>3. Line' = RemoveAt(Line, (cursor_pos - 1) + 1)
  BY <1>2, ErasesRemoves DEF Backspace
<1>4. Line' = RemoveAt(Line, cursor_pos)
  BY <1>2, <1>3
<1>5. cursor_pos' = cursor_pos - 1 /\ cmd_history' = cmd_history /\ saved_cmd' = saved_cmd
  BY DEF Backspace, historyVars
<1> QED
  BY <1>1, <1>4, <1>5 DEF Abstract!EraseBefore, Abstract!RemoveAt, RemoveAt, Line

LEMMA DeleteErases ==
  ASSUME ShellInv, ShellInv', Delete
  PROVE  Abstract!EraseAt
<1>1. /\ cmd_pos \in Nat /\ cursor_pos \in Nat /\ cursor_pos < cmd_pos
  BY LineNumbers DEF ShellInv, Delete
<1>2. cursor_pos \in 0..(cmd_pos - 1)
  BY <1>1
<1>3. Line' = RemoveAt(Line, cursor_pos + 1)
  BY <1>2, ErasesRemoves DEF Delete
<1>4. cursor_pos < Len(Line)
  BY <1>1, LineFact DEF ShellInv
<1>5. cursor_pos' = cursor_pos /\ cmd_history' = cmd_history /\ saved_cmd' = saved_cmd
  BY DEF Delete, historyVars
<1> QED
  BY <1>3, <1>4, <1>5 DEF Abstract!EraseAt, Abstract!RemoveAt, RemoveAt, Line

LEMMA MoveMoves ==
  ASSUME ShellInv, NEW to \in 0..cmd_pos, MoveTo(to)
  PROVE  to \in 0..Len(Line) /\ Abstract!Move(to)
<1>1. Len(Line) = cmd_pos
  BY LineFact DEF ShellInv
<1>2. cursor_pos' = to /\ UNCHANGED <<cmd_buffer, cmd_pos, cmd_history, saved_cmd>>
  BY DEF MoveTo, historyVars
<1> QED
  BY <1>1, <1>2 DEF Abstract!Move

\* The draft KeyUp keeps: the line, or a beginning of the last one of the past.
LEMMA DraftRefines ==
  ASSUME ShellInv, cmd_history # <<>>
  PROVE  \/ Str(cmd_buffer, 0) = Line
         \/ Line = <<>> /\ Str(cmd_buffer, 0) \in Prefixes(Last(cmd_history))
<1>1. CASE cmd_pos > 0
  BY <1>1, StrIsLine DEF ShellInv
<1>2. CASE cmd_pos = 0
  <2>1. Line = <<>>
    BY <1>2, LineFact DEF ShellInv
  <2> QED
    BY <1>2, <2>1 DEF ShellInv, Leftover
<1> QED
  BY <1>1, <1>2, LineNumbers DEF ShellInv

LEMMA ShowEntryRecalls ==
  ASSUME ShellInv, ShellInv', cmd_history # <<>>, NEW index \in -1..(Len(cmd_history) - 1),
         NEW draft \in Commands, ShowEntry(index, draft),
         \/ draft = saved_cmd
         \/ draft = Line
         \/ Line = <<>> /\ draft \in Prefixes(Last(cmd_history))
  PROVE  Abstract!Recall
<1>1. PICK str : str = IF index = -1 THEN draft ELSE cmd_history[index + 1]
  OBVIOUS
<1>2. index # -1 => index + 1 \in 1..Len(cmd_history)
  BY DEF ShellInv, HistoryOK
<1>3. str \in {cmd_history[i] : i \in 1..Len(cmd_history)} \cup {draft}
  BY <1>1, <1>2
<1>4. str \in Commands
  BY <1>1, <1>2 DEF ShellInv, HistoryOK
<1>5. /\ cmd_buffer' = Copied(cmd_buffer, str) /\ cmd_pos' = Len(str) /\ cursor_pos' = Len(str)
      /\ saved_cmd' = draft /\ cmd_history' = cmd_history
  BY <1>1 DEF ShowEntry
<1>6. Line' = str
  <2>1. /\ str \in Seq(Chars)
        /\ \A k \in 1..Len(str) : cmd_buffer'[k - 1] = str[k]
    BY <1>4, <1>5, CopiedFact DEF ShellInv, LineOK
  <2>2. /\ Line' \in Seq(Chars) /\ Len(Line') = Len(str)
        /\ \A k \in 1..Len(str) : Line'[k] = cmd_buffer'[k - 1]
    BY <1>5, NextLineFact DEF ShellInv
  <2> QED
    BY <2>1, <2>2, SameElements
<1>7. cursor_pos' = Len(Line')
  BY <1>5, <1>6
<1>8. Line' \in {cmd_history[i] : i \in 1..Len(cmd_history)} \cup {saved_cmd'}
  BY <1>3, <1>5, <1>6
<1>9. saved_cmd' \in {saved_cmd, Line} \cup (IF Line = <<>> THEN Prefixes(Last(cmd_history)) ELSE {})
  BY <1>5
<1> QED
  BY <1>5, <1>7, <1>8, <1>9
     DEF Abstract!Recall, Abstract!Leftovers, Abstract!Prefixes, Abstract!Last, Prefixes, Last, Line

LEMMA KeyUpRecalls ==
  ASSUME ShellInv, ShellInv', KeyUp
  PROVE  Abstract!Recall
<1>1. PICK index : index = IF history_current < Len(cmd_history) - 1 THEN history_current + 1 ELSE history_current
  OBVIOUS
<1>2. PICK draft : draft = IF history_current = -1 THEN Str(cmd_buffer, 0) ELSE saved_cmd
  OBVIOUS
<1>3. index \in -1..(Len(cmd_history) - 1)
  <2>1. cmd_history \in Seq(Commands \ {<<>>}) /\ history_current \in -1..(Len(cmd_history) - 1)
    BY DEF ShellInv, HistoryOK
  <2>2. Len(cmd_history) \in Nat
    BY <2>1
  <2> QED
    BY <1>1, <2>1, <2>2
<1>4. draft \in Commands
  BY <1>2, DraftFact DEF ShellInv, HistoryOK
<1>5. cmd_history # <<>> /\ ShowEntry(index, draft)
  BY <1>1, <1>2 DEF KeyUp
<1>6. \/ draft = saved_cmd
      \/ draft = Line
      \/ Line = <<>> /\ draft \in Prefixes(Last(cmd_history))
  BY <1>2, <1>5, DraftRefines
<1> QED
  BY <1>3, <1>4, <1>5, <1>6, ShowEntryRecalls

LEMMA KeyDownRecalls ==
  ASSUME ShellInv, ShellInv', KeyDown
  PROVE  Abstract!Recall
<1>1. PICK index : index = Greater(-1, history_current - 1)
  OBVIOUS
<1>2. index \in -1..(Len(cmd_history) - 1)
  <2>1. cmd_history \in Seq(Commands \ {<<>>}) /\ history_current \in -1..(Len(cmd_history) - 1)
    BY DEF ShellInv, HistoryOK
  <2>2. Len(cmd_history) \in Nat
    BY <2>1
  <2> QED
    BY <1>1, <2>1, <2>2 DEF Greater
<1>3. saved_cmd \in Commands
  BY DEF ShellInv, HistoryOK
<1>4. cmd_history # <<>> /\ ShowEntry(index, saved_cmd)
  BY <1>1 DEF KeyDown
<1> QED
  BY <1>2, <1>3, <1>4, ShowEntryRecalls

\* What history_add and the abstract editor make of the past.
LEMMA AddedRemembers ==
  ASSUME HistoryOK, NEW str \in Commands \ {<<>>}
  PROVE  Added(str) = IF cmd_history # <<>> /\ Last(cmd_history) = str THEN cmd_history
                      ELSE IF Len(Append(cmd_history, str)) > MAX_CMD_HISTORY
                        THEN Tail(Append(cmd_history, str)) ELSE Append(cmd_history, str)
<1>1. PICK S : S = Commands \ {<<>>}
  OBVIOUS
<1>2. PICK h \in Seq(S) : h = cmd_history /\ Len(h) <= MAX_CMD_HISTORY /\ Len(h) \in Nat
  BY <1>1 DEF HistoryOK
<1>3. str \in S /\ str # <<>> /\ MAX_CMD_HISTORY \in Nat /\ MAX_CMD_HISTORY > 0
  BY <1>1, ShellSizes
<1>4. Len(Append(h, str)) = Len(h) + 1
  BY <1>3, TailAppend
<1>5. CASE Len(h) >= MAX_CMD_HISTORY
  <2>1. h # <<>>
    BY <1>2, <1>3, <1>5
  <2>2. Append(Tail(h), str) = Tail(Append(h, str))
    BY <1>3, <2>1, TailOfAppend
  <2>3. Len(Append(h, str)) > MAX_CMD_HISTORY
    BY <1>2, <1>3, <1>4, <1>5
  <2>4. Added(str) = IF h # <<>> /\ Last(h) = str THEN h ELSE Append(Tail(h), str)
    BY <1>2, <1>3, <1>5 DEF Added
  <2> QED
    BY <1>2, <2>2, <2>3, <2>4
<1>6. CASE ~(Len(h) >= MAX_CMD_HISTORY)
  BY <1>2, <1>3, <1>4, <1>6 DEF Added
<1> QED
  BY <1>5, <1>6

LEMMA EnterSubmits ==
  ASSUME ShellInv, ShellInv', Enter
  PROVE  Abstract!Submit
<1>1. /\ cmd_buffer \in Buffers /\ cmd_pos \in Nat /\ cmd_pos > 0 /\ EndsAt(cmd_buffer, 0, cmd_pos)
  BY LineNumbers DEF ShellInv, LineOK, Enter
<1>2. [cmd_buffer EXCEPT ![cmd_pos] = NUL] = cmd_buffer
  <2>1. cmd_buffer[cmd_pos] = NUL
    BY <1>1 DEF EndsAt
  <2> QED
    BY <1>1, <2>1 DEF Buffers
<1>3. Str(cmd_buffer, 0) = Line /\ Line # <<>> /\ Line \in Commands \ {<<>>}
  <2>1. Str(cmd_buffer, 0) = Line
    BY <1>1, StrIsLine DEF ShellInv
  <2>2. Line # <<>>
    BY <1>1, LineFact DEF ShellInv
  <2>3. Line \in Commands
    BY <1>1, <2>1, StrTyped
  <2> QED
    BY <2>1, <2>2, <2>3
<1>4. cmd_history' = Added(Line) /\ cmd_pos' = 0 /\ cursor_pos' = 0 /\ saved_cmd' = saved_cmd
  BY <1>2, <1>3 DEF Enter
<1>5. Line' = <<>>
  BY <1>4, NextLineFact DEF ShellInv
<1>6. cmd_history' = IF cmd_history # <<>> /\ Last(cmd_history) = Line THEN cmd_history
                     ELSE IF Len(Append(cmd_history, Line)) > MAX_CMD_HISTORY
                       THEN Tail(Append(cmd_history, Line)) ELSE Append(cmd_history, Line)
  BY <1>3, <1>4, AddedRemembers DEF ShellInv
<1> QED
  BY <1>3, <1>4, <1>5, <1>6
     DEF Abstract!Submit, Abstract!Remembered, Abstract!Last, Last, Line

LEMMA ShellRefines ==
  ASSUME ShellInv, ShellInv', [Next]_vars
  PROVE  [Abstract!ANext]_<<Line, cursor_pos, cmd_history, saved_cmd>>
<1>1. ASSUME NEW c \in Letters, TypeChar(c)
      PROVE  Abstract!ANext
  <2>1. c \in Chars
    BY DEF Chars
  <2> QED
    BY <1>1, <2>1, TypeCharInserts DEF Abstract!ANext
<1>2. CASE TypeChar(Blank)
  <2>1. Blank \in Chars
    BY DEF Chars
  <2> QED
    BY <1>2, <2>1, TypeCharInserts DEF Abstract!ANext
<1>3. CASE Backspace
  BY <1>3, BackspaceErases DEF Abstract!ANext
<1>4. CASE Delete
  BY <1>4, DeleteErases DEF Abstract!ANext
<1>5. ASSUME NEW to \in 0..cmd_pos, MoveTo(to)
      PROVE  Abstract!ANext
  <2>1. to \in 0..Len(Line) /\ Abstract!Move(to)
    BY <1>5, MoveMoves
  <2> QED
    BY <2>1 DEF Abstract!ANext, Line
<1>6. CASE KeyLeft
  <2>1. cursor_pos - 1 \in 0..cmd_pos /\ MoveTo(cursor_pos - 1)
    BY <1>6, LineNumbers DEF KeyLeft, ShellInv
  <2> QED
    BY <1>5, <2>1
<1>7. CASE KeyRight
  <2>1. cursor_pos + 1 \in 0..cmd_pos /\ MoveTo(cursor_pos + 1)
    BY <1>7, LineNumbers DEF KeyRight, ShellInv
  <2> QED
    BY <1>5, <2>1
<1>8. CASE KeyHome
  <2>1. 0 \in 0..cmd_pos /\ MoveTo(0)
    BY <1>8, LineNumbers DEF KeyHome, ShellInv
  <2> QED
    BY <1>5, <2>1
<1>9. CASE KeyEnd
  <2>1. cmd_pos \in 0..cmd_pos /\ MoveTo(cmd_pos)
    BY <1>9, LineNumbers DEF KeyEnd, ShellInv
  <2> QED
    BY <1>5, <2>1
<1>10. CASE KeyUp
  BY <1>10, KeyUpRecalls DEF Abstract!ANext
<1>11. CASE KeyDown
  BY <1>11, KeyDownRecalls DEF Abstract!ANext
<1>12. CASE Enter
  BY <1>12, EnterSubmits DEF Abstract!ANext
<1>13. CASE EnterNothing
  BY <1>13 DEF EnterNothing, lineVars, historyVars, Line
<1>14. CASE SwitchTerminal
  BY <1>14 DEF SwitchTerminal, lineVars, historyVars, Line
<1>15. CASE UNCHANGED vars
  BY <1>15 DEF vars, lineVars, historyVars, Line
<1> QED
  BY <1>1, <1>2, <1>3, <1>4, <1>6, <1>7, <1>8, <1>9, <1>10, <1>11, <1>12, <1>13, <1>14, <1>15 DEF Next

\* Every key does to the line, the cursor, the past and the draft what it does to the
\* abstract editor's, whatever the buffer and the ring of the history do underneath.
THEOREM ShellImplements == Spec => ImplementsEditor
<1>1. Init => ShellInv
  BY ShellInit
<1>2. ShellInv /\ [Next]_vars => ShellInv'
  BY ShellNext
<1>3. Init => Abstract!AInit
  <2>1. ASSUME Init
        PROVE  Line = <<>>
    BY <1>1, <2>1, LineFact DEF Init, ShellInv
  <2> QED
    BY <2>1 DEF Init, Abstract!AInit, Line
<1>4. ShellInv /\ ShellInv' /\ [Next]_vars => [Abstract!ANext]_(Abstract!avars)
  BY ShellRefines DEF Abstract!avars, Line
<1> QED
  BY <1>1, <1>2, <1>3, <1>4, PTL DEF Spec, ImplementsEditor, Abstract!ASpec
=============================================================================
