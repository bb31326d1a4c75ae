----------------------------- MODULE MCPageInit -----------------------------
(***************************************************************************)
(* Maps of up to three regions over eight pages of four bytes: RAM at and  *)
(* off page boundaries, in any order, overlapping or not, with a reserved  *)
(* region, a bad one (type 5) and an empty one among them; and longer ones. *)
(***************************************************************************)
EXTENDS PageInit

Ram(a, l) == [address |-> a, length |-> l, type |-> RAM]

MCRegions ==
  {Ram(a, l) : a \in {0, 4, 5, 11, 16, 18}, l \in {3, 8, 14}}
    \cup {[address |-> 3, length |-> 1, type |-> 2], [address |-> 8, length |-> 4, type |-> 5], NoRegion}

\* Nothing bounds what read_e820 stores, so maps may be longer than the copy of them.
LongMaps == [1..5 -> {Ram(0, 3), Ram(5, 8), Ram(16, 14), [address |-> 3, length |-> 1, type |-> 2], NoRegion}]

MCBiosMaps == UNION {[1..n -> MCRegions] : n \in 0..3} \cup LongMaps

\* A machine with twice the memory the page tables map (2G beside 1G): 640 KB of
\* low memory, the hole below 1 MB, then RAM, at 32 KB to the byte, and 16 pages
\* for the 1024.
TwoGigs == {<<Ram(0, 20), [address |-> 20, length |-> 12, type |-> 2], Ram(32, 992)>>}
=============================================================================
