---------------------------- MODULE AbstractHeap ----------------------------
(***************************************************************************)
(* What the heap promises its callers: a set of owned regions, each the    *)
(* bytes its owner asked for behind a header, that never overlap and lie   *)
(* between two bounds.  Which region a request gets, and whether it gets   *)
(* one, is left open.                                                      *)
(***************************************************************************)
EXTENDS Naturals

CONSTANTS
  Header_,     \* bytes of a region's header
  Low, High,   \* the bounds of the heap
  Sizes_       \* what a caller may ask for

VARIABLE owned   \* start of a region -> bytes its owner asked for

AInit == owned = [x \in {} |-> 0]

\* The region of n bytes at a shares no byte with an owned one.
Apart(a, n) ==
  \A b \in DOMAIN owned : a + Header_ + n <= b \/ b + Header_ + owned[b] <= a

Acquire(a, n) ==
  /\ Low <= a /\ a + Header_ + n <= High
  /\ Apart(a, n)
  /\ owned' = [x \in DOMAIN owned \cup {a} |-> IF x = a THEN n ELSE owned[x]]

Release(a) ==
  /\ a \in DOMAIN owned
  /\ owned' = [x \in DOMAIN owned \ {a} |-> owned[x]]

ANext ==
  \/ \E a \in DOMAIN owned' \ DOMAIN owned, n \in Sizes_ : Acquire(a, n)
  \/ \E a \in DOMAIN owned : Release(a)

ASpec == AInit /\ [][ANext]_owned
=============================================================================
