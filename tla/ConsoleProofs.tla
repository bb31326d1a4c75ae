--------------------------- MODULE ConsoleProofs ---------------------------
(***************************************************************************)
(* The console for every size of screen, history and number of terminals:  *)
(* its types, the agreement of screen and terminal, the independence of    *)
(* the terminals, and that the history view shows what left the screen.    *)
(***************************************************************************)
EXTENDS Console, Numbers, TLAPS

-----------------------------------------------------------------------------
(* Places of the ring. *)

\* Of n lines written from index p of a ring of m, those that go to index h, and
\* the last of some; what index h then has.
Hits(p, n, m, h) == {k \in 1..n : (p + k - 1) % m = h}
Last(hits) == CHOOSE k \in hits : \A j \in hits : j <= k
Written(ring, p, lines, n, m, h) ==
  IF Hits(p, n, m, h) = {} THEN ring[h] ELSE lines[Last(Hits(p, n, m, h))]

LEMMA LastIs ==
  ASSUME NEW hits \in SUBSET Int, NEW k \in hits, \A j \in hits : j <= k
  PROVE  Last(hits) = k
<1>1. ASSUME NEW i \in hits, \A j \in hits : j <= i
      PROVE  i = k
  <2>1. i \in Int /\ k \in Int /\ i <= k /\ k <= i
    BY <1>1
  <2> QED
    BY <2>1
<1> QED
  BY <1>1 DEF Last

LEMMA LastHit ==
  ASSUME NEW p \in Int, NEW n \in Nat, NEW m \in Nat \ {0}, NEW h \in 0..(m - 1),
         Hits(p, n, m, h) # {}
  PROVE  Last(Hits(p, n, m, h)) \in 1..n
<1>0. PICK hits \in SUBSET (1..n) :
        /\ hits = Hits(p, n, m, h) /\ hits # {}
        /\ \A k \in 1..n : k \in hits <=> (p + k - 1) % m = h
  BY DEF Hits
<1>1. PICK q \in Int, d \in 0..(m - 1) : p + n - 1 - h = m * q + d
  <2>1. p + n - 1 - h \in Int
    OBVIOUS
  <2> QED
    BY <2>1, DivFact, ModFact
<1>2. PICK last \in Int : last = n - d
  OBVIOUS
<1>3. last > n - m /\ last <= n /\ (p + last - 1) % m = h
  <2>1. PICK mq \in Int : mq = m * q
    OBVIOUS
  <2>2. p + last - 1 = mq + h
    BY <1>1, <1>2, <2>1
  <2>3. (mq + h) % m = h
    BY <2>1, ModUnique
  <2> QED
    BY <1>2, <2>2, <2>3
<1>4. \A j \in hits : j \in 1..n /\ j <= last
  <2>1. SUFFICES ASSUME NEW j \in 1..n, (p + j - 1) % m = h, j > last
                 PROVE  FALSE
    BY <1>0, <1>3
  <2>2. p + j - 1 \in Int /\ p + last - 1 \in Int /\ p + j - 1 > p + last - 1
    BY <1>2, <2>1
  <2>3. (p + j - 1) % m = (p + last - 1) % m
    BY <1>3, <2>1
  <2>4. p + j - 1 >= p + last - 1 + m
    BY <2>2, <2>3, ModApart
  <2> QED
    BY <1>3, <2>1, <2>4
<1>5. PICK one \in hits : TRUE
  BY <1>0
<1>6. last \in 1..n
  <2>1. one \in 1..n /\ one <= last
    BY <1>4, <1>5
  <2> QED
    BY <1>3, <2>1
<1>7. last \in hits /\ \A j \in hits : j <= last
  BY <1>0, <1>3, <1>4, <1>6
<1>8. hits \in SUBSET Int
  BY <1>0
<1>9. Last(hits) = last
  BY <1>7, <1>8, LastIs
<1> QED
  BY <1>0, <1>6, <1>9

-----------------------------------------------------------------------------
(* Screens. *)

LEMMA Sizes ==
  /\ VGA_WIDTH \in Nat \ {0} /\ VGA_HEIGHT \in Nat /\ VGA_HEIGHT > 1
  /\ TTY_COUNT \in Nat \ {0} /\ HISTORY_SIZE \in Nat \ {0}
  /\ ColModulus \in Nat \ {0} /\ ColModulus > VGA_WIDTH
  /\ Area \in Nat
BY SizesAssumption DEF Area

\* The cell in column c of row r.
LEMMA CellIndex ==
  ASSUME NEW r \in Rows, NEW c \in Cols
  PROVE  /\ r * VGA_WIDTH + c \in 0..(Area - 1)
         /\ (r * VGA_WIDTH + c) \div VGA_WIDTH = r
         /\ (r * VGA_WIDTH + c) % VGA_WIDTH = c
<1>1. r \in Int /\ c \in 0..(VGA_WIDTH - 1) /\ VGA_HEIGHT > r /\ r >= 0
  BY Sizes DEF Rows, Cols
<1>2. VGA_WIDTH * VGA_HEIGHT >= VGA_WIDTH * r + VGA_WIDTH
  BY <1>1, Sizes, Product
<1>3. r * VGA_WIDTH = VGA_WIDTH * r /\ VGA_WIDTH * r \in Nat
  BY <1>1, Sizes
<1>4. (VGA_WIDTH * r + c) \div VGA_WIDTH = r /\ (VGA_WIDTH * r + c) % VGA_WIDTH = c
  BY <1>1, Sizes, ModUnique
<1> QED
  BY <1>1, <1>2, <1>3, <1>4, Sizes DEF Area

LEMMA RowFact ==
  ASSUME NEW s \in Screens, NEW r \in Rows
  PROVE  Row(s, r) \in Lines
BY CellIndex DEF Screens, Row, Lines

LEMMA ScreenFacts ==
  /\ Empty \in Screens
  /\ \A s \in Screens : RolledUp(s) \in Screens /\ RolledDown(s) \in Screens
  /\ \A s \in Screens, ch \in Printing \cup {LF, CR, TAB} : With(s, ch) \in Screens
  /\ BlankRow \in Lines
<1>1. Blank \in Cells
  BY DEF Cells, Printing
<1>2. Empty \in Screens /\ BlankRow \in Lines
  BY <1>1 DEF Empty, BlankRow, Screens, Lines
<1>3. ASSUME NEW s \in Screens
      PROVE  RolledUp(s) \in Screens
  <2>1. \A i \in 0..(Area - 1) : i < Area - VGA_WIDTH => i + VGA_WIDTH \in 0..(Area - 1)
    BY Sizes
  <2> QED
    BY <1>1, <2>1 DEF RolledUp, Screens
<1>4. ASSUME NEW s \in Screens
      PROVE  RolledDown(s) \in Screens
  <2>1. \A i \in 0..(Area - 1) : i >= VGA_WIDTH => i - VGA_WIDTH \in 0..(Area - 1)
    BY Sizes
  <2> QED
    BY <1>1, <2>1 DEF RolledDown, Screens
<1>5. ASSUME NEW s \in Screens, NEW ch
      PROVE  With(s, ch) \in Screens
  <2>1. CASE ch \in Printing
    <3>1. ch \in Cells
      BY <2>1 DEF Cells
    <3>2. [s EXCEPT ![CellOf(ch)] = ch] \in Screens
      BY <3>1 DEF Screens
    <3> QED
      BY <3>2 DEF With
  <2>2. CASE ch \notin Printing
    BY <2>2 DEF With, Prints
  <2> QED
    BY <2>1, <2>2
<1> QED
  BY <1>2, <1>3, <1>4, <1>5

-----------------------------------------------------------------------------
(* The ring of lines. *)

HistoryTypes ==
  /\ simple_history \in [0..(HISTORY_SIZE - 1) -> Lines]
  /\ history_write_pos \in 0..(HISTORY_SIZE - 1) /\ history_count \in 0..HISTORY_SIZE

\* Where the ring has the line that was saved as the k-th of those in `lately`.
PlaceOf(k) == (history_write_pos - Len(lately) + k - 1) % HISTORY_SIZE

\* The ring holds the lines saved last, up to the one before the next to be written.
Ring ==
  /\ lately \in Seq(Lines) /\ Len(lately) = history_count
  /\ \A k \in 1..Len(lately) : simple_history[PlaceOf(k)] = lately[k]

LEMMA LatestFact ==
  ASSUME NEW all \in Seq(Lines)
  PROVE  /\ Latest(all) \in Seq(Lines)
         /\ Len(Latest(all)) = Less(HISTORY_SIZE, Len(all))
         /\ \A k \in 1..Len(Latest(all)) :
              /\ k + Len(all) - Len(Latest(all)) \in 1..Len(all)
              /\ Latest(all)[k] = all[k + Len(all) - Len(Latest(all))]
<1>0. Len(all) \in Nat /\ HISTORY_SIZE \in Nat /\ HISTORY_SIZE > 0
  BY Sizes
<1>1. PICK m \in 1..(Len(all) + 1) :
        /\ m = Greater(1, Len(all) - HISTORY_SIZE + 1)
        /\ Len(all) - m + 1 = Less(HISTORY_SIZE, Len(all))
  <2>1. ASSUME NEW N \in Nat, NEW h \in Nat, h > 0
        PROVE  /\ Greater(1, N - h + 1) \in 1..(N + 1)
               /\ N - Greater(1, N - h + 1) + 1 = Less(h, N)
    BY <2>1 DEF Greater, Less
  <2> QED
    BY <1>0, <2>1
<1>2. Latest(all) = SubSeq(all, m, Len(all))
  BY <1>1 DEF Latest
<1>3. /\ Latest(all) \in Seq(Lines) /\ Len(Latest(all)) = Len(all) - m + 1
      /\ \A k \in 1..(Len(all) - m + 1) : Latest(all)[k] = all[m + k - 1]
  <2>1. \A k \in m..Len(all) : all[k] \in Lines
    BY <1>0, <1>1
  <2>2. Len(SubSeq(all, m, Len(all))) = Len(all) - m + 1
    BY <1>0, <1>1
  <2>3. SubSeq(all, m, Len(all)) \in Seq(Lines)
    BY <1>0, <1>1
  <2>4. \A k \in 1..(Len(all) - m + 1) : SubSeq(all, m, Len(all))[k] = all[m + k - 1]
    BY <1>0, <1>1
  <2> QED
    BY <1>2, <2>2, <2>3, <2>4
<1>4. ASSUME NEW k \in 1..Len(Latest(all))
      PROVE  /\ k + Len(all) - Len(Latest(all)) \in 1..Len(all)
             /\ Latest(all)[k] = all[k + Len(all) - Len(Latest(all))]
  <2>1. PICK N \in Nat, M \in Nat : N = Len(all) /\ M = Len(Latest(all)) /\ M = N - m + 1 /\ k \in 1..M
    BY <1>0, <1>1, <1>3
  <2>2. k + N - M = m + k - 1 /\ m + k - 1 \in 1..N
    BY <1>1, <2>1
  <2>3. Latest(all)[k] = all[m + k - 1]
    BY <1>3, <2>1
  <2> QED
    BY <2>1, <2>2, <2>3
<1> QED
  BY <1>1, <1>3, <1>4

\* What saving lines makes of a ring that has the lines `old` before place p.
RingHas(ring, p, m, old, L) == \A k \in 1..L : ring[(p - L + k - 1) % m] = old[k]

RingGets(ring, p, m, old, L, lines, n) ==
  \A i \in 1..(L + n) :
    i > L + n - m =>
      Written(ring, p, lines, n, m, (p - L + i - 1) % m) = IF i <= L THEN old[i] ELSE lines[i - L]

LEMMA RingSaved ==
  ASSUME NEW m \in Nat \ {0}, NEW ring, NEW p \in 0..(m - 1),
         NEW old, NEW L \in 0..m, RingHas(ring, p, m, old, L),
         NEW lines, NEW n \in Nat
  PROVE  RingGets(ring, p, m, old, L, lines, n)
<1> SUFFICES ASSUME NEW i \in 1..(L + n), i > L + n - m
             PROVE  Written(ring, p, lines, n, m, (p - L + i - 1) % m) =
                      IF i <= L THEN old[i] ELSE lines[i - L]
  BY DEF RingGets
<1>1. PICK x \in Int : x = p - L + i - 1
  OBVIOUS
<1>2. PICK place \in 0..(m - 1) : place = x % m
  BY ModFact
<1>3. PICK hits \in SUBSET (1..n) :
        /\ hits = Hits(p, n, m, place)
        /\ \A k \in 1..n : k \in hits <=> (p + k - 1) % m = place
  <2>1. /\ Hits(p, n, m, place) \in SUBSET (1..n)
        /\ \A k \in 1..n : k \in Hits(p, n, m, place) <=> (p + k - 1) % m = place
    BY DEF Hits
  <2> QED
    BY <2>1
<1>4. Written(ring, p, lines, n, m, place) = IF hits = {} THEN ring[place] ELSE lines[Last(hits)]
  BY <1>3 DEF Written
<1>5. CASE i > L
  <2>1. PICK j \in 1..n : j = i - L
    BY <1>5
  <2>2. p + j - 1 = x /\ p + j - 1 \in Int
    BY <1>1, <2>1
  <2>3. j \in hits
    BY <1>2, <1>3, <2>2
  <2>4. ASSUME NEW o \in 1..n, (p + o - 1) % m = x % m, o > j
        PROVE  FALSE
    <3>1. p + o - 1 \in Int /\ p + o - 1 > x
      BY <2>2, <2>4
    <3>2. p + o - 1 >= x + m
      BY <2>4, <3>1, ModApart
    <3>3. p + o - 1 < x + m
      BY <1>1, <2>1, <2>4
    <3> QED
      BY <3>1, <3>2, <3>3
  <2>5. \A o \in hits : o \in 1..n /\ o <= j
    BY <1>2, <1>3, <2>1, <2>4
  <2>6. hits \in SUBSET Int
    BY <1>3
  <2>7. Last(hits) = j
    BY <2>3, <2>5, <2>6, LastIs
  <2>8. Written(ring, p, lines, n, m, place) = lines[j]
    BY <1>4, <2>3, <2>7
  <2> QED
    BY <1>1, <1>2, <1>5, <2>1, <2>8
<1>6. CASE i <= L
  <2>1. ASSUME NEW o \in 1..n, (p + o - 1) % m = x % m
        PROVE  FALSE
    <3>1. p + o - 1 \in Int /\ p + o - 1 > x
      BY <1>1, <1>6
    <3>2. p + o - 1 >= x + m
      BY <2>1, <3>1, ModApart
    <3> QED
      BY <1>1, <3>2
  <2>2. hits = {}
    BY <1>2, <1>3, <2>1
  <2>3. i \in 1..L
    BY <1>6
  <2>4. ring[place] = old[i]
    BY <1>1, <1>2, <2>3 DEF RingHas
  <2> QED
    BY <1>1, <1>2, <1>4, <1>6, <2>2, <2>4
<1> QED
  BY <1>5, <1>6

\* What is saved is put behind what was, and the oldest lines go.
LEMMA SavedRing ==
  ASSUME HistoryTypes, Ring, NEW lines \in Seq(Lines), SaveLines(lines)
  PROVE  HistoryTypes' /\ Ring' /\ history_count' >= history_count
<1>0. PICK m \in Nat \ {0} : m = HISTORY_SIZE
  BY Sizes
<1>1. PICK p \in 0..(m - 1), n \in Nat, L \in 0..m :
        /\ m = HISTORY_SIZE /\ p = history_write_pos /\ n = Len(lines)
        /\ L = Len(lately) /\ L = history_count
  BY <1>0 DEF HistoryTypes, Ring
<1>2. PICK old \in Seq(Lines), ring \in [0..(m - 1) -> Lines] : old = lately /\ ring = simple_history
  BY <1>1 DEF HistoryTypes, Ring
<1>3. PICK all \in Seq(Lines) :
        /\ all = old \o lines /\ Len(all) = L + n
        /\ \A i \in 1..(L + n) : all[i] = IF i <= L THEN old[i] ELSE lines[i - L]
  BY <1>1, <1>2
<1>4. PICK ring2 :
        /\ ring2 = [h \in 0..(m - 1) |-> Written(ring, p, lines, n, m, h)]
        /\ simple_history' = ring2
  <2>1. simple_history' = [h \in 0..(HISTORY_SIZE - 1) |->
          Written(simple_history, history_write_pos, lines, Len(lines), HISTORY_SIZE, h)]
    BY DEF SaveLines, Written, Hits, Last
  <2> QED
    BY <1>1, <1>2, <2>1
<1>5. PICK new : new = Latest(all) /\ lately' = new
  BY <1>1, <1>2, <1>3 DEF SaveLines
<1>6. PICK q \in 0..(m - 1) : q = (p + n) % m /\ history_write_pos' = q
  BY <1>1, ModFact DEF SaveLines
<1>7. PICK c \in 0..m : c = Less(m, L + n) /\ c >= L /\ history_count' = c
  BY <1>1 DEF SaveLines, Less
<1>8. HistoryTypes'
  <2>1. ASSUME NEW h \in 0..(m - 1)
        PROVE  Written(ring, p, lines, n, m, h) \in Lines
    <3>1. \A k \in 1..n : lines[k] \in Lines
      BY <1>1
    <3>2. CASE Hits(p, n, m, h) # {}
      <4>1. Last(Hits(p, n, m, h)) \in 1..n
        BY <3>2, LastHit
      <4> QED
        BY <3>1, <3>2, <4>1 DEF Written
    <3>3. CASE Hits(p, n, m, h) = {}
      BY <1>2, <3>3 DEF Written
    <3> QED
      BY <3>2, <3>3
  <2>2. ring2 \in [0..(m - 1) -> Lines]
    BY <1>4, <2>1
  <2> QED
    BY <1>1, <1>4, <1>6, <1>7, <2>2 DEF HistoryTypes
<1>9. /\ new \in Seq(Lines) /\ Len(new) = c
      /\ \A k \in 1..c : k + (L + n) - c \in 1..(L + n) /\ new[k] = all[k + (L + n) - c]
  <2>1. /\ new \in Seq(Lines) /\ Len(new) = Less(HISTORY_SIZE, Len(all))
        /\ \A k \in 1..Len(new) :
             /\ k + Len(all) - Len(new) \in 1..Len(all)
             /\ new[k] = all[k + Len(all) - Len(new)]
    BY <1>5, LatestFact
  <2>2. Len(new) = c /\ Len(all) = L + n
    BY <1>1, <1>3, <1>7, <2>1
  <2> QED
    BY <2>1, <2>2
<1>10. ASSUME NEW k \in 1..c
       PROVE  ring2[(q - c + k - 1) % m] = new[k]
  <2>1. PICK i \in 1..(L + n) : i = k + (L + n) - c /\ i > L + n - m /\ new[k] = all[i]
    <3>1. PICK i \in 1..(L + n) : i = k + (L + n) - c
      BY <1>9
    <3>2. new[k] = all[i]
      BY <1>9, <3>1
    <3>3. i > L + n - m
      BY <3>1
    <3> QED
      BY <3>1, <3>2, <3>3
  <2>2. (q - c + k - 1) % m = (p - L + i - 1) % m
    <3>1. PICK b \in Int : b = k - 1 - c
      OBVIOUS
    <3>2. q - c + k - 1 = q + b /\ (p + n) + b = p - L + i - 1 /\ p + n \in Int
      BY <2>1, <3>1
    <3>3. (q + b) % m = ((p + n) + b) % m
      BY <1>6, <3>2, ModPlus
    <3> QED
      BY <3>2, <3>3
  <2>3. RingHas(ring, p, m, old, L)
    BY <1>1, <1>2 DEF Ring, PlaceOf, RingHas
  <2>4. ring2[(p - L + i - 1) % m] = IF i <= L THEN old[i] ELSE lines[i - L]
    <3>1. Written(ring, p, lines, n, m, (p - L + i - 1) % m)
            = IF i <= L THEN old[i] ELSE lines[i - L]
      <4>1. RingGets(ring, p, m, old, L, lines, n)
        BY <2>3, RingSaved
      <4> QED
        BY <2>1, <4>1 DEF RingGets
    <3>2. (p - L + i - 1) % m \in 0..(m - 1)
      BY ModFact
    <3> QED
      BY <1>4, <3>1, <3>2
  <2>5. all[i] = IF i <= L THEN old[i] ELSE lines[i - L]
    BY <1>3
  <2> QED
    BY <2>1, <2>2, <2>4, <2>5
<1>11. Ring'
  <2>1. \A k \in 1..c : PlaceOf(k)' = (q - c + k - 1) % m
    BY <1>1, <1>5, <1>6, <1>9 DEF PlaceOf
  <2> QED
    <3>1. /\ simple_history' = ring2 /\ lately' = new /\ history_count' = c
          /\ Len(new) = c /\ new \in Seq(Lines)
      BY <1>4, <1>5, <1>7, <1>9
    <3>2. \A k \in 1..c : simple_history'[PlaceOf(k)'] = lately'[k]
      BY <1>10, <2>1, <3>1
    <3> QED
      BY <3>1, <3>2 DEF Ring
<1> QED
  BY <1>1, <1>7, <1>8, <1>11

LEMMA KeptRing ==
  ASSUME HistoryTypes, Ring, UNCHANGED historyVars
  PROVE  HistoryTypes' /\ Ring' /\ history_count' >= history_count
<1>1. history_count \in Int
  BY DEF HistoryTypes
<1> QED
  BY <1>1 DEF historyVars, HistoryTypes, Ring, PlaceOf

-----------------------------------------------------------------------------
(* The inductive invariant. *)

ScreenTypes ==
  /\ vga \in Screens /\ screen_backup \in Screens
  /\ tty_buf \in [Ttys -> Screens] /\ tty_cur \in Ttys
  /\ is_viewing_history \in BOOLEAN

CursorTypes ==
  /\ tty_row \in [Ttys -> Rows] /\ tty_col \in [Ttys -> 0..(ColModulus - 1)]
  /\ cursor_row \in Rows /\ cursor_col \in 0..(ColModulus - 1)

\* The view is never further back than there are lines.
InView ==
  /\ history_view_offset \in Nat
  /\ history_view_offset <= Greater(0, history_count - (VGA_HEIGHT - 1))

ConsoleInv == ScreenTypes /\ CursorTypes /\ ScreenIsTerminal /\ HistoryTypes /\ Ring /\ InView

LEMMA InvTyped ==
  ASSUME ConsoleInv
  PROVE  ConsoleTypeOK
<1>1. history_view_offset \in 0..HISTORY_SIZE
  BY Sizes DEF ConsoleInv, InView, HistoryTypes, Greater
<1> QED
  BY <1>1 DEF ConsoleInv, ConsoleTypeOK, ScreenTypes, CursorTypes, HistoryTypes

\* The view stays in range when lines are saved under it.
LEMMA KeptView ==
  ASSUME HistoryTypes, HistoryTypes', InView, history_count' >= history_count,
         history_view_offset' \in {0, history_view_offset}
  PROVE  InView'
<1>1. history_count \in Int /\ history_count' \in Int /\ VGA_HEIGHT \in Int
  BY Sizes DEF HistoryTypes
<1>2. history_view_offset' \in Nat /\ history_view_offset' <= history_view_offset
  BY DEF InView
<1>3. \A a, b, c, h \in Int :
        a <= Greater(0, b - (h - 1)) /\ c >= b => a <= Greater(0, c - (h - 1))
  BY DEF Greater
<1>4. history_view_offset \in Int /\ history_view_offset <= Greater(0, history_count - (VGA_HEIGHT - 1))
  BY DEF InView
<1>5. history_view_offset <= Greater(0, history_count' - (VGA_HEIGHT - 1))
  BY <1>1, <1>3, <1>4
<1>6. history_view_offset' \in {0, history_view_offset}
  OBVIOUS
<1>7. \A x \in Int : 0 <= Greater(0, x)
  BY DEF Greater
<1>8. history_view_offset' <= Greater(0, history_count' - (VGA_HEIGHT - 1))
  BY <1>1, <1>5, <1>6, <1>7
<1> QED
  BY <1>2, <1>8 DEF InView

LEMMA InitInv == Init => ConsoleInv
<1> SUFFICES ASSUME Init
             PROVE  ConsoleInv
  OBVIOUS
<1>1. ScreenTypes
  <2>1. 0 \in Ttys
    BY Sizes DEF Ttys
  <2>2. Empty \in Screens
    BY ScreenFacts
  <2> QED
    BY <2>1, <2>2 DEF Init, ScreenTypes
<1>2. CursorTypes
  <2>1. 0 \in Rows /\ 0 \in 0..(ColModulus - 1)
    BY Sizes DEF Rows
  <2> QED
    BY <2>1 DEF Init, CursorTypes
<1>3. ScreenIsTerminal
  BY <1>1 DEF Init, ScreenIsTerminal, TBUF, ScreenTypes
<1>4. PICK rows \in Seq(Lines) : /\ rows = [r \in 1..VGA_HEIGHT |-> BlankRow]
                                 /\ lately = Latest(rows)
                                 /\ Len(rows) = VGA_HEIGHT
                                 /\ \A r \in 1..VGA_HEIGHT : rows[r] = BlankRow
  <2>1. [r \in 1..VGA_HEIGHT |-> BlankRow] \in Seq(Lines)
    BY Sizes, ScreenFacts
  <2>2. Len([r \in 1..VGA_HEIGHT |-> BlankRow]) = VGA_HEIGHT
    BY Sizes
  <2> QED
    BY <2>1, <2>2 DEF Init
<1>5. /\ lately \in Seq(Lines) /\ Len(lately) = Less(HISTORY_SIZE, VGA_HEIGHT)
      /\ \A k \in 1..Len(lately) : lately[k] = BlankRow
  BY <1>4, LatestFact
<1>6. HistoryTypes
  <2>1. VGA_HEIGHT % HISTORY_SIZE \in 0..(HISTORY_SIZE - 1)
    BY Sizes, ModFact
  <2>2. Less(HISTORY_SIZE, VGA_HEIGHT) \in 0..HISTORY_SIZE
    BY Sizes DEF Less
  <2> QED
    BY <1>5, <2>1, <2>2, ScreenFacts DEF Init, HistoryTypes
<1>7. Ring
  <2>1. ASSUME NEW k \in 1..Len(lately)
        PROVE  simple_history[PlaceOf(k)] = lately[k]
    <3>1. history_write_pos - Len(lately) + k - 1 \in Int
      BY <1>5, <1>6 DEF HistoryTypes
    <3>2. PlaceOf(k) \in 0..(HISTORY_SIZE - 1)
      BY <3>1, Sizes, ModFact DEF PlaceOf
    <3> QED
      BY <1>5, <3>2 DEF Init
  <2> QED
    BY <1>5, <2>1 DEF Init, Ring
<1>8. InView
  BY <1>6, Sizes DEF Init, InView, Greater, HistoryTypes
<1> QED
  BY <1>1, <1>2, <1>3, <1>6, <1>7, <1>8 DEF ConsoleInv

-----------------------------------------------------------------------------
(* The invariant through the actions. *)

Chars == Printing \cup {LF, CR, TAB}

\* The cursor after a character: in its row, or to be put there by a scroll.
LEMMA CursorAfter ==
  ASSUME CursorTypes, NEW ch
  PROVE  /\ ~Scrolls(ch) => RowAfter(ch) \in Rows
         /\ ColAfter(ch) \in 0..(ColModulus - 1)
<1>1. cursor_row \in Nat /\ cursor_col \in 0..(ColModulus - 1)
  BY Sizes DEF CursorTypes, Rows
<1>2. RowAfter(ch) \in Nat
  BY <1>1 DEF RowAfter
<1>3. ~Scrolls(ch) => RowAfter(ch) \in Rows
  BY <1>2, Sizes DEF Scrolls, Rows
<1>4. (((cursor_col + 4) \div 4) * 4) % ColModulus \in 0..(ColModulus - 1)
  <2>1. (cursor_col + 4) \div 4 \in Int
    BY <1>1, DivFact
  <2>2. ((cursor_col + 4) \div 4) * 4 \in Int
    BY <2>1
  <2> QED
    BY <2>2, Sizes, ModFact
<1>5. (IF Wraps THEN 1 ELSE cursor_col + 1) \in 0..(ColModulus - 1)
  BY <1>1, Sizes DEF Wraps
<1>6. ColAfter(ch) \in 0..(ColModulus - 1)
  <2>1. 0 \in 0..(ColModulus - 1)
    BY Sizes
  <2>2. CASE ch \in {LF, CR}
    BY <1>4, <1>5, <2>1, <2>2 DEF ColAfter
  <2>3. CASE ch \notin {LF, CR} /\ ch = TAB
    BY <1>4, <2>3 DEF ColAfter
  <2>4. CASE ch \notin {LF, CR} /\ ch # TAB
    BY <1>5, <2>4 DEF ColAfter
  <2> QED
    BY <2>2, <2>3, <2>4
<1> QED
  BY <1>3, <1>6

LEMMA OverrunTyped ==
  ASSUME ScreenTypes, NEW ch
  PROVE  Overrun(ch) \in [Ttys -> Screens]
<1>1. ASSUME NEW t \in Ttys
      PROVE  (IF OverrunsScreen(ch) /\ t = tty_cur + 1
                THEN [tty_buf[t] EXCEPT ![0] = ch] ELSE tty_buf[t]) \in Screens
  <2>1. tty_buf[t] \in Screens
    BY DEF ScreenTypes
  <2>2. OverrunsScreen(ch) => ch \in Cells
    BY DEF OverrunsScreen, Prints, Cells
  <2>3. ch \in Cells => [tty_buf[t] EXCEPT ![0] = ch] \in Screens
    BY <2>1 DEF Screens
  <2> QED
    BY <2>1, <2>2, <2>3
<1> QED
  BY <1>1 DEF Overrun

\* The active terminal's text and the screen's are one, in the view or out of it.
LEMMA TextOnScreen ==
  ASSUME ScreenTypes, ScreenIsTerminal
  PROVE  /\ Leave(vga) = Leave(TBUF) /\ Leave(vga) \in Screens
         /\ TBUF \in Screens
BY DEF ScreenTypes, ScreenIsTerminal, Leave, TBUF

LEMMA OneRow ==
  ASSUME NEW s \in Screens, NEW r \in Rows
  PROVE  <<Row(s, r)>> \in Seq(Lines)
<1>1. Row(s, r) \in Lines
  BY RowFact
<1> QED
  BY <1>1

LEMMA PrintCharInv ==
  ASSUME ConsoleInv, NEW ch \in Chars, PrintChar(ch)
  PROVE  ConsoleInv'
<1> USE DEF ConsoleInv
<1>1. PICK text \in Screens :
        /\ text = With(Leave(TBUF), ch) /\ text = With(Leave(vga), ch)
  <2>1. With(Leave(vga), ch) \in Screens /\ Leave(vga) = Leave(TBUF)
    BY TextOnScreen, ScreenFacts DEF Chars
  <2> QED
    BY <2>1
<1>2. PICK shown \in Screens :
        /\ shown = IF Scrolls(ch) THEN RolledUp(text) ELSE text
        /\ vga' = shown /\ screen_backup' = shown
        /\ tty_buf' = [Overrun(ch) EXCEPT ![tty_cur] = shown]
  <2>1. (IF Scrolls(ch) THEN RolledUp(text) ELSE text) \in Screens
    BY ScreenFacts
  <2> QED
    BY <1>1, <2>1 DEF PrintChar
<1>3. Overrun(ch) \in [Ttys -> Screens] /\ tty_cur \in Ttys
  BY OverrunTyped DEF ScreenTypes
<1>4. is_viewing_history' = FALSE /\ UNCHANGED <<tty_row, tty_col, tty_cur>>
  BY DEF PrintChar
<1>5. ScreenTypes' /\ ScreenIsTerminal'
  BY <1>2, <1>3, <1>4 DEF ScreenTypes, ScreenIsTerminal, TBUF
<1>6. CursorTypes'
  <2>1. cursor_row' \in Rows /\ cursor_col' \in 0..(ColModulus - 1)
    <3>1. CASE Scrolls(ch)
      BY <3>1, Sizes DEF PrintChar, Rows
    <3>2. CASE ~Scrolls(ch)
      BY <3>2, CursorAfter DEF PrintChar
    <3> QED
      BY <3>1, <3>2
  <2> QED
    BY <1>4, <2>1 DEF CursorTypes
<1>7. HistoryTypes' /\ Ring' /\ history_count' >= history_count
  <2>1. CASE Scrolls(ch)
    <3>1. 0 \in Rows
      BY Sizes DEF Rows
    <3>2. SaveLines(<<Row(text, 0)>>)
      BY <1>1, <2>1 DEF PrintChar
    <3> QED
      BY <3>1, <3>2, OneRow, SavedRing
  <2>2. CASE ~Scrolls(ch)
    <3>1. UNCHANGED historyVars
      BY <2>2 DEF PrintChar
    <3> QED
      BY <3>1, KeptRing
  <2> QED
    BY <2>1, <2>2
<1>8. InView'
  BY <1>7, KeptView DEF PrintChar
<1> QED
  BY <1>5, <1>6, <1>7, <1>8

LEMMA ClearScreenInv ==
  ASSUME ConsoleInv, ClearScreen
  PROVE  ConsoleInv'
<1> USE DEF ConsoleInv
<1>1. PICK rows \in Seq(Lines) : SaveLines(rows)
  <2>1. vga \in Screens /\ VGA_HEIGHT \in Nat
    BY Sizes DEF ScreenTypes
  <2>2. ASSUME NEW r \in 1..VGA_HEIGHT
        PROVE  Row(vga, r - 1) \in Lines
    <3>1. r - 1 \in Rows
      BY <2>1 DEF Rows
    <3> QED
      BY <2>1, <3>1, RowFact
  <2>3. [r \in 1..VGA_HEIGHT |-> Row(vga, r - 1)] \in Seq(Lines)
    BY <2>1, <2>2
  <2> QED
    BY <2>3 DEF ClearScreen
<1>2. HistoryTypes' /\ Ring' /\ history_count' >= history_count
  BY <1>1, SavedRing
<1>3. ScreenTypes' /\ ScreenIsTerminal'
  BY ScreenFacts DEF ClearScreen, ScreenTypes, ScreenIsTerminal, TBUF
<1>4. CursorTypes'
  BY Sizes DEF ClearScreen, CursorTypes, Rows
<1>5. InView'
  BY <1>2, KeptView DEF ClearScreen
<1> QED
  BY <1>2, <1>3, <1>4, <1>5

LEMMA VtSwitchInv ==
  ASSUME ConsoleInv, NEW t \in Ttys, VtSwitch(t)
  PROVE  ConsoleInv'
<1> USE DEF ConsoleInv
<1>1. HistoryTypes' /\ Ring' /\ history_count' >= history_count
  BY KeptRing DEF VtSwitch
<1>2. ScreenTypes' /\ ScreenIsTerminal'
  BY DEF VtSwitch, ScreenTypes, ScreenIsTerminal, TBUF, viewVars
<1>3. CursorTypes'
  BY DEF VtSwitch, CursorTypes, ScreenTypes
<1>4. InView'
  BY <1>1, KeptView DEF VtSwitch, viewVars
<1> QED
  BY <1>1, <1>2, <1>3, <1>4

\* scroll_up and scroll_down: a row goes to the history and the text is rolled.
LEMMA RollInv ==
  ASSUME ConsoleInv, ScrollUp \/ ScrollDown
  PROVE  ConsoleInv'
<1> USE DEF ConsoleInv
<1>1. HistoryTypes' /\ Ring' /\ history_count' >= history_count
  <2>1. PICK r \in Rows : SaveLines(<<Row(vga, r)>>)
    BY Sizes DEF ScrollUp, ScrollDown, Rows
  <2>2. <<Row(vga, r)>> \in Seq(Lines)
    BY OneRow DEF ScreenTypes
  <2> QED
    BY <2>1, <2>2, SavedRing
<1>2. PICK s \in Screens : /\ vga' = s /\ screen_backup' = s
                           /\ tty_buf' = [tty_buf EXCEPT ![tty_cur] = s]
                           /\ UNCHANGED <<tty_cur, is_viewing_history>>
  <2>1. RolledUp(TBUF) \in Screens /\ RolledDown(TBUF) \in Screens
    BY TextOnScreen, ScreenFacts
  <2> QED
    BY <2>1 DEF ScrollUp, ScrollDown, viewVars
<1>3. ScreenTypes' /\ ScreenIsTerminal'
  BY <1>2 DEF ScreenTypes, ScreenIsTerminal, TBUF
<1>4. CursorTypes'
  BY Sizes DEF ScrollUp, ScrollDown, CursorTypes, Rows, Less, Greater
<1>5. InView'
  BY <1>1, KeptView DEF ScrollUp, ScrollDown, viewVars
<1> QED
  BY <1>1, <1>3, <1>4, <1>5

LEMMA HistoryScreenTyped ==
  ASSUME NEW offset
  PROVE  HistoryScreen(offset) \in Screens
<1>1. \A cell : Shown(cell) \in Cells
  BY DEF Shown, Cells, Printing
<1>2. PromptCell \in Cells /\ Blank \in Cells
  BY DEF Cells, Printing
<1>3. ASSUME NEW i \in 0..(Area - 1)
      PROVE  HistoryScreen(offset)[i] \in Cells
  BY <1>1, <1>2 DEF HistoryScreen
<1> QED
  BY <1>3 DEF HistoryScreen, Screens

\* One step of the view back or forth.
LEMMA ViewInv ==
  ASSUME ConsoleInv, ViewHistoryUp \/ ViewHistoryDown,
         UNCHANGED <<tty_cur, historyVars>>
  PROVE  ScreenTypes' /\ ScreenIsTerminal' /\ HistoryTypes' /\ Ring' /\ InView'
<1> USE DEF ConsoleInv
<1>1. HistoryTypes' /\ Ring' /\ history_count' = history_count
  BY KeptRing DEF historyVars
<1>2. \A offset : HistoryScreen(offset) \in Screens
  BY HistoryScreenTyped
<1>3. /\ history_count \in Int /\ history_view_offset \in Nat /\ VGA_HEIGHT \in Int
      /\ history_view_offset <= Greater(0, history_count - (VGA_HEIGHT - 1))
      /\ is_viewing_history \in BOOLEAN
  BY Sizes DEF HistoryTypes, InView, ScreenTypes
<1>4. \A x \in Int : Greater(0, x) \in Nat
  BY DEF Greater
<1>5. CASE ViewHistoryUp /\ history_count = 0
  <2>1. UNCHANGED <<screenVars, viewVars, tty_buf, tty_cur>>
    BY <1>5 DEF ViewHistoryUp
  <2> QED
    BY <1>1, <2>1 DEF ScreenTypes, ScreenIsTerminal, TBUF, InView, screenVars, viewVars
<1>6. CASE ViewHistoryUp /\ history_count # 0
  <2>1. /\ is_viewing_history' = TRUE
        /\ screen_backup' = IF is_viewing_history THEN screen_backup ELSE vga
        /\ history_view_offset' = IF is_viewing_history THEN OlderOffset ELSE 0
        /\ vga' = HistoryScreen(history_view_offset')
        /\ UNCHANGED <<tty_buf, tty_cur>>
    BY <1>6 DEF ViewHistoryUp
  <2>2. screen_backup' = TBUF'
    BY <1>3, <2>1 DEF ScreenIsTerminal, TBUF
  <2>3. ScreenTypes' /\ ScreenIsTerminal'
    BY <1>2, <2>1, <2>2 DEF ScreenTypes, ScreenIsTerminal
  <2>4. OlderOffset \in Nat /\ OlderOffset <= Greater(0, history_count - (VGA_HEIGHT - 1))
    <3>1. \A a, b \in Int : Greater(0, Less(a, b)) \in Nat /\ Greater(0, Less(a, b)) <= Greater(0, b)
      BY DEF Greater, Less
    <3>2. history_view_offset + 1 \in Int /\ history_count - (VGA_HEIGHT - 1) \in Int
      BY <1>3
    <3> QED
      BY <3>1, <3>2 DEF OlderOffset
  <2>5. Greater(0, history_count - (VGA_HEIGHT - 1)) \in Nat
    BY <1>3, <1>4
  <2>6. InView'
    <3>1. history_view_offset' \in {0, OlderOffset}
      BY <2>1
    <3> QED
      BY <1>1, <2>4, <2>5, <3>1 DEF InView
  <2> QED
    BY <1>1, <2>3, <2>6
<1>7. CASE ViewHistoryDown /\ ~is_viewing_history
  <2>1. UNCHANGED <<screenVars, viewVars, tty_buf, tty_cur>>
    BY <1>7 DEF ViewHistoryDown
  <2> QED
    BY <1>1, <2>1 DEF ScreenTypes, ScreenIsTerminal, TBUF, InView, screenVars, viewVars
<1>8. CASE ViewHistoryDown /\ is_viewing_history /\ history_view_offset = 0
  <2>1. /\ is_viewing_history' = FALSE /\ vga' = screen_backup
        /\ tty_buf' = [tty_buf EXCEPT ![tty_cur] = screen_backup]
        /\ UNCHANGED <<screen_backup, history_view_offset, tty_cur>>
    BY <1>8 DEF ViewHistoryDown
  <2> QED
    BY <1>1, <2>1 DEF ScreenTypes, ScreenIsTerminal, TBUF, InView
<1>9. CASE ViewHistoryDown /\ is_viewing_history /\ history_view_offset # 0
  <2>1. /\ history_view_offset' = history_view_offset - 1
        /\ vga' = HistoryScreen(history_view_offset')
        /\ UNCHANGED <<screen_backup, is_viewing_history, tty_buf, tty_cur>>
    BY <1>9 DEF ViewHistoryDown
  <2>2. ScreenTypes' /\ ScreenIsTerminal'
    BY <1>2, <1>9, <2>1 DEF ScreenTypes, ScreenIsTerminal, TBUF
  <2>3. Greater(0, history_count - (VGA_HEIGHT - 1)) \in Nat
    BY <1>3, <1>4
  <2>4. InView'
    BY <1>1, <1>3, <1>9, <2>1, <2>3 DEF InView
  <2> QED
    BY <1>1, <2>2, <2>4
<1> QED
  BY <1>5, <1>6, <1>7, <1>8, <1>9

LEMMA MoveInv ==
  ASSUME ConsoleInv,
         \/ MoveCursorUp \/ MoveCursorDown \/ MoveCursorLeft \/ MoveCursorRight
         \/ \E c \in Cols : SetCursorCol(c)
         \/ \E r \in Rows : SetCursorRow(r)
  PROVE  ConsoleInv'
<1> USE DEF ConsoleInv
<1>1. /\ cursor_row \in Rows /\ cursor_col \in 0..(ColModulus - 1)
      /\ VGA_HEIGHT \in Nat /\ VGA_WIDTH \in Nat \ {0} /\ ColModulus \in Nat
      /\ ColModulus > VGA_WIDTH
  BY Sizes DEF CursorTypes
<1>2. UNCHANGED <<tty_row, tty_col, tty_cur, historyVars>>
  BY DEF MoveCursorUp, MoveCursorDown, MoveCursorLeft, MoveCursorRight, SetCursorCol,
         SetCursorRow, ttyVars
<1>3. cursor_row' \in Rows
  BY <1>1 DEF MoveCursorUp, MoveCursorDown, MoveCursorLeft, MoveCursorRight, SetCursorCol,
              SetCursorRow, Rows
<1>4. cursor_col' \in 0..(ColModulus - 1)
  BY <1>1 DEF MoveCursorUp, MoveCursorDown, MoveCursorLeft, MoveCursorRight, SetCursorCol,
              SetCursorRow, Cols
<1>5. CursorTypes'
  BY <1>2, <1>3, <1>4 DEF CursorTypes
<1>6. CASE ViewHistoryUp \/ ViewHistoryDown
  BY <1>2, <1>5, <1>6, ViewInv
<1>7. CASE UNCHANGED <<screenVars, viewVars, tty_buf>>
  <2>1. HistoryTypes' /\ Ring' /\ history_count' = history_count
    BY <1>2, KeptRing DEF historyVars
  <2> QED
    BY <1>2, <1>5, <1>7, <2>1 DEF ScreenTypes, ScreenIsTerminal, TBUF, InView, screenVars, viewVars
<1> QED
  BY <1>6, <1>7 DEF MoveCursorUp, MoveCursorDown, MoveCursorLeft, MoveCursorRight,
                    SetCursorCol, SetCursorRow, ttyVars

LEMMA StepInv == ConsoleInv /\ [Next]_vars => ConsoleInv'
<1> SUFFICES ASSUME ConsoleInv, [Next]_vars
             PROVE  ConsoleInv'
  OBVIOUS
<1>1. ASSUME NEW ch \in Chars, PrintChar(ch)
      PROVE  ConsoleInv'
  BY <1>1, PrintCharInv
<1>2. CASE ClearScreen
  BY <1>2, ClearScreenInv
<1>3. ASSUME NEW t \in Ttys, VtSwitch(t)
      PROVE  ConsoleInv'
  BY <1>3, VtSwitchInv
<1>4. CASE \/ MoveCursorUp \/ MoveCursorDown \/ MoveCursorLeft \/ MoveCursorRight
           \/ \E c \in Cols : SetCursorCol(c)
           \/ \E r \in Rows : SetCursorRow(r)
  BY <1>4, MoveInv
<1>5. CASE ScrollUp \/ ScrollDown
  BY <1>5, RollInv
<1>6. CASE UNCHANGED vars
  <2>1. HistoryTypes' /\ Ring' /\ history_count' = history_count
    BY <1>6, KeptRing DEF vars, historyVars, ConsoleInv
  <2> QED
    BY <1>6, <2>1 DEF vars, screenVars, ttyVars, cursorVars, viewVars, ConsoleInv,
                      ScreenTypes, CursorTypes, ScreenIsTerminal, TBUF, InView
<1>7. Letters \cup {Blank, LF, CR, TAB} \subseteq Chars
  BY DEF Chars, Printing
<1> QED
  BY <1>1, <1>2, <1>3, <1>4, <1>5, <1>6, <1>7 DEF Next

\* Whatever is printed, scrolled, switched or viewed, every cursor stays where it can
\* be, the ring in its bounds and the view no further back than there are lines.
THEOREM ConsoleTyped == Spec => []ConsoleTypeOK
<1>1. Spec => []ConsoleInv
  BY InitInv, StepInv, PTL DEF Spec
<1> QED
  BY <1>1, InvTyped, PTL

\* The screen shows the text of the active terminal, or holds it for the return
\* from the history: the two copies console.c keeps in step never part.
THEOREM ScreenFollowsTerminal == Spec => []ScreenIsTerminal
<1>1. Spec => []ConsoleInv
  BY InitInv, StepInv, PTL DEF Spec
<1>2. ConsoleInv => ScreenIsTerminal
  BY DEF ConsoleInv
<1> QED
  BY <1>1, <1>2, PTL

-----------------------------------------------------------------------------
(* What a step does to the other terminals, and what the view shows. *)

TtyKept(t) ==
  \/ Terminal(t)' = Terminal(t)
  \/ t = tty_cur + 1 /\ \E ch \in Printing : OverrunsScreen(ch) /\ PrintChar(ch)

LEMMA PrintIsolated ==
  ASSUME ConsoleInv, NEW ch \in Chars, PrintChar(ch), NEW t \in Ttys, t # tty_cur
  PROVE  TtyKept(t)
<1>1. UNCHANGED <<tty_row, tty_col, tty_cur>> /\ tty_buf'[t] = Overrun(ch)[t]
  BY OverrunTyped DEF PrintChar, ConsoleInv, ScreenTypes
<1>2. CASE OverrunsScreen(ch) /\ t = tty_cur + 1
  BY <1>2 DEF TtyKept, OverrunsScreen, Prints
<1>3. CASE ~(OverrunsScreen(ch) /\ t = tty_cur + 1)
  <2>1. tty_buf'[t] = tty_buf[t]
    BY <1>1, <1>3 DEF Overrun
  <2> QED
    BY <1>1, <2>1 DEF TtyKept, Terminal
<1> QED
  BY <1>2, <1>3

LEMMA SwitchIsolated ==
  ASSUME ConsoleInv, NEW s \in Ttys, VtSwitch(s), NEW t \in Ttys
  PROVE  Terminal(t)' = Terminal(t)
<1>1. /\ tty_cur' = s /\ s # tty_cur /\ tty_cur \in Ttys /\ UNCHANGED tty_buf
      /\ tty_row' = [tty_row EXCEPT ![tty_cur] = cursor_row] /\ tty_row \in [Ttys -> Rows]
      /\ tty_col' = [tty_col EXCEPT ![tty_cur] = cursor_col]
      /\ tty_col \in [Ttys -> 0..(ColModulus - 1)]
      /\ cursor_row' = tty_row[s] /\ cursor_col' = tty_col[s]
  BY DEF VtSwitch, ConsoleInv, ScreenTypes, CursorTypes
<1>2. CASE t = tty_cur
  BY <1>1, <1>2 DEF Terminal
<1>3. CASE t = s
  BY <1>1, <1>3 DEF Terminal
<1>4. CASE t # tty_cur /\ t # s
  BY <1>1, <1>4 DEF Terminal
<1> QED
  BY <1>2, <1>3, <1>4

\* Any other step leaves the terminals that are not active alone.
LEMMA OthersIsolated ==
  ASSUME ConsoleInv, NEW t \in Ttys, t # tty_cur,
         \/ ClearScreen
         \/ MoveCursorUp \/ MoveCursorDown \/ MoveCursorLeft \/ MoveCursorRight
         \/ \E c \in Cols : SetCursorCol(c)
         \/ \E r \in Rows : SetCursorRow(r)
         \/ ScrollUp \/ ScrollDown
  PROVE  tty_cur' = tty_cur /\ Terminal(t)' = Terminal(t)
<1>1. UNCHANGED <<tty_row, tty_col, tty_cur>>
  BY DEF ClearScreen, MoveCursorUp, MoveCursorDown, MoveCursorLeft, MoveCursorRight,
         SetCursorCol, SetCursorRow, ScrollUp, ScrollDown, ttyVars
<1>2. tty_buf' = tty_buf \/ \E s : tty_buf' = [tty_buf EXCEPT ![tty_cur] = s]
  BY DEF ClearScreen, MoveCursorUp, MoveCursorDown, MoveCursorLeft, MoveCursorRight,
         SetCursorCol, SetCursorRow, ScrollUp, ScrollDown, ttyVars, ViewHistoryUp, ViewHistoryDown
<1>3. tty_buf'[t] = tty_buf[t]
  BY <1>2 DEF ConsoleInv, ScreenTypes
<1> QED
  BY <1>1, <1>3 DEF Terminal

LEMMA StepIsolated ==
  ASSUME ConsoleInv, Next, NEW t \in Ttys, t # tty_cur \/ tty_cur' # tty_cur
  PROVE  TtyKept(t)
<1>1. ASSUME NEW ch \in Chars, PrintChar(ch)
      PROVE  TtyKept(t)
  <2>1. tty_cur' = tty_cur
    BY <1>1 DEF PrintChar
  <2> QED
    BY <1>1, <2>1, PrintIsolated
<1>2. ASSUME NEW s \in Ttys, VtSwitch(s)
      PROVE  TtyKept(t)
  BY <1>2, SwitchIsolated DEF TtyKept
<1>3. CASE \/ ClearScreen
           \/ MoveCursorUp \/ MoveCursorDown \/ MoveCursorLeft \/ MoveCursorRight
           \/ \E c \in Cols : SetCursorCol(c)
           \/ \E r \in Rows : SetCursorRow(r)
           \/ ScrollUp \/ ScrollDown
  <2>1. tty_cur' = tty_cur
    BY <1>3 DEF ClearScreen, MoveCursorUp, MoveCursorDown, MoveCursorLeft, MoveCursorRight,
                SetCursorCol, SetCursorRow, ScrollUp, ScrollDown, ttyVars
  <2>2. t # tty_cur
    BY <2>1
  <2>3. Terminal(t)' = Terminal(t)
    BY <1>3, <2>2, OthersIsolated
  <2> QED
    BY <2>3 DEF TtyKept
<1>4. Letters \cup {Blank, LF, CR, TAB} \subseteq Chars
  BY DEF Chars, Printing
<1> QED
  BY <1>1, <1>2, <1>3, <1>4 DEF Next

\* A step done on one terminal changes no other's text or cursor, and a switch none's,
\* but for the character that wraps off the last row, into the next terminal's buffer.
THEOREM TerminalsIsolated == Spec => TtysIsolated
<1>1. Spec => []ConsoleInv
  BY InitInv, StepInv, PTL DEF Spec
<1>2. ConsoleInv /\ [Next]_vars =>
        [\A t \in Ttys : (t # tty_cur \/ tty_cur' # tty_cur) =>
           \/ Terminal(t)' = Terminal(t)
           \/ t = tty_cur + 1 /\ \E ch \in Printing : OverrunsScreen(ch) /\ PrintChar(ch)]_vars
  BY StepIsolated DEF TtyKept
<1> QED
  BY <1>1, <1>2, PTL DEF Spec, TtysIsolated

\* Row r of the view `offset` lines back is a line of the latest saved.
LEMMA RowOfView ==
  ASSUME ConsoleInv, NEW offset \in Nat,
         offset <= Greater(0, history_count - (VGA_HEIGHT - 1)),
         NEW r \in 0..(LinesToShow - 1)
  PROVE  LET k == Len(lately) - LinesToShow - offset + r + 1 IN
         /\ k \in 1..Len(lately)
         /\ Row(HistoryScreen(offset), r) = [c \in Cols |-> Shown(lately[k][c])]
<1> USE DEF ConsoleInv
<1>1. PICK m \in Nat \ {0} : m = HISTORY_SIZE
  BY Sizes
<1>2. PICK L \in 0..m, n \in Nat, p \in 0..(m - 1) :
        /\ L = Len(lately) /\ L = history_count /\ n = LinesToShow /\ p = history_write_pos
        /\ n = Less(VGA_HEIGHT - 1, L)
  <2>1. history_count \in 0..m /\ Len(lately) = history_count /\ history_write_pos \in 0..(m - 1)
    BY <1>1 DEF HistoryTypes, Ring
  <2>2. LinesToShow \in Nat
    BY <1>1, <2>1, Sizes DEF LinesToShow, Less
  <2> QED
    BY <2>1, <2>2 DEF LinesToShow
<1>3. PICK k \in 1..L : k = L - n - offset + r + 1
  <2>1. offset <= Greater(0, L - (VGA_HEIGHT - 1)) /\ r \in 0..(n - 1)
    BY <1>2
  <2>2. L - n - offset + r + 1 \in 1..L
    BY <1>2, <2>1, Sizes DEF Greater, Less
  <2> QED
    BY <2>2
<1>4. r \in Rows
  BY <1>2, Sizes DEF Rows, Less
<1>5. HistoryLine(offset, r) = lately[k]
  <2>1. PICK a \in Int : a = p - n - offset
    OBVIOUS
  <2>2. ((a % m) + r) % m = (a + r) % m
    <3>1. r \in Int
      BY <1>2
    <3> QED
      BY <3>1, ModPlus
  <2>3. a + r = p - L + k - 1
    BY <1>2, <1>3, <2>1
  <2>4. HistoryLine(offset, r) = simple_history[((a % m) + r) % m]
    BY <1>1, <1>2, <2>1 DEF HistoryLine, StartIndex
  <2>5. PlaceOf(k) = (p - L + k - 1) % m
    BY <1>1, <1>2 DEF PlaceOf
  <2>6. simple_history[PlaceOf(k)] = lately[k]
    BY <1>2, <1>3 DEF Ring
  <2> QED
    BY <2>2, <2>3, <2>4, <2>5, <2>6
<1>6. ASSUME NEW c \in Cols
      PROVE  HistoryScreen(offset)[r * VGA_WIDTH + c] = Shown(lately[k][c])
  <2>1. PICK i \in 0..(Area - 1) : /\ i = r * VGA_WIDTH + c
                                   /\ i \div VGA_WIDTH = r /\ i % VGA_WIDTH = c
    BY <1>4, CellIndex
  <2>2. r < LinesToShow
    BY <1>2
  <2> QED
    BY <1>5, <2>1, <2>2 DEF HistoryScreen
<1>7. Row(HistoryScreen(offset), r) = [c \in Cols |-> Shown(lately[k][c])]
  BY <1>6 DEF Row
<1> QED
  BY <1>2, <1>3, <1>7

\* A step that leaves the history in view and changes the screen shows the view anew.
LEMMA StepShows ==
  ASSUME ConsoleInv, ConsoleInv', MoveCursorUp \/ MoveCursorDown, vga' # vga, is_viewing_history'
  PROVE  /\ vga' = HistoryScreen(history_view_offset')
         /\ history_view_offset' \in Nat
         /\ history_view_offset' <= Greater(0, history_count - (VGA_HEIGHT - 1))
<1>1. history_count' = history_count
  BY DEF MoveCursorUp, MoveCursorDown, historyVars
<1>2. vga' = HistoryScreen(history_view_offset')
  BY DEF MoveCursorUp, MoveCursorDown, ViewHistoryUp, ViewHistoryDown, screenVars, viewVars
<1> QED
  BY <1>1, <1>2 DEF ConsoleInv, InView

\* Moving back and forth in the history shows, for every size of screen and ring and
\* wherever the ring has wrapped, the lines that left the screen in their order.
THEOREM HistoryShown == Spec => ViewShowsHistory
<1>1. Spec => []ConsoleInv
  BY InitInv, StepInv, PTL DEF Spec
<1>2. ConsoleInv /\ ConsoleInv' /\ [Next]_vars =>
        [(MoveCursorUp \/ MoveCursorDown) /\ vga' # vga /\ is_viewing_history' =>
           \A r \in 0..(LinesToShow - 1) :
             LET k == Len(lately) - LinesToShow - history_view_offset' + r + 1 IN
             /\ k \in 1..Len(lately)
             /\ Row(vga', r) = [c \in Cols |-> Shown(lately[k][c])]]_vars
  <2> SUFFICES ASSUME ConsoleInv, ConsoleInv', MoveCursorUp \/ MoveCursorDown,
                      vga' # vga, is_viewing_history', NEW r \in 0..(LinesToShow - 1)
               PROVE  LET k == Len(lately) - LinesToShow - history_view_offset' + r + 1 IN
                      /\ k \in 1..Len(lately)
                      /\ Row(vga', r) = [c \in Cols |-> Shown(lately[k][c])]
    OBVIOUS
  <2>1. /\ vga' = HistoryScreen(history_view_offset')
        /\ history_view_offset' \in Nat
        /\ history_view_offset' <= Greater(0, history_count - (VGA_HEIGHT - 1))
    BY StepShows
  <2> QED
    BY <2>1, RowOfView
<1> QED
  BY <1>1, <1>2, PTL DEF Spec, ViewShowsHistory
=============================================================================
