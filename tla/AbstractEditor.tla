--------------------------- MODULE AbstractEditor ---------------------------
(***************************************************************************)
(* What a line editor with a history promises: the line is a sequence that *)
(* keys edit at the cursor, Enter takes it into the past, and a recall     *)
(* brings back a line of the past or the draft kept when recalling began.  *)
(***************************************************************************)
EXTENDS Naturals, Sequences, SequencesExt

CONSTANTS
  AChars,      \* characters a key may insert
  MaxLine,     \* the longest line
  MaxPast      \* how many lines are remembered

VARIABLES line, cursor, past, draft

avars == <<line, cursor, past, draft>>

AInit == line = <<>> /\ cursor = 0 /\ past = <<>> /\ draft = <<>>

Insert(c) ==
  /\ Len(line) < MaxLine
  /\ line' = InsertAt(line, cursor + 1, c)
  /\ cursor' = cursor + 1
  /\ UNCHANGED <<past, draft>>

EraseBefore ==
  /\ cursor > 0
  /\ line' = RemoveAt(line, cursor)
  /\ cursor' = cursor - 1
  /\ UNCHANGED <<past, draft>>

EraseAt ==
  /\ cursor < Len(line)
  /\ line' = RemoveAt(line, cursor + 1)
  /\ UNCHANGED <<cursor, past, draft>>

Move(to) ==
  /\ cursor' = to
  /\ UNCHANGED <<line, past, draft>>

\* Enter: a line just like the last one is not remembered again.
Remembered ==
  IF past # <<>> /\ Last(past) = line THEN past
  ELSE LET all == Append(past, line) IN
       IF Len(all) > MaxPast THEN Tail(all) ELSE all

Submit ==
  /\ line # <<>>
  /\ past' = Remembered
  /\ line' = <<>>
  /\ cursor' = 0
  /\ UNCHANGED draft

\* The draft is the line left for the past.  Where that line is empty it may be what
\* the last command left in the buffer: the line's beginning up to a blank.
Leftovers == IF line = <<>> THEN Prefixes(Last(past)) ELSE {}

Recall ==
  /\ past # <<>>
  /\ draft' \in {draft, line} \cup Leftovers
  /\ line' \in {past[i] : i \in 1..Len(past)} \cup {draft'}
  /\ cursor' = Len(line')
  /\ UNCHANGED past

ANext ==
  \/ \E c \in AChars : Insert(c)
  \/ EraseBefore \/ EraseAt
  \/ \E to \in 0..Len(line) : Move(to)
  \/ Submit \/ Recall

ASpec == AInit /\ [][ANext]_avars
=============================================================================
