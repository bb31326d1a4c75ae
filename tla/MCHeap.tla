------------------------------- MODULE MCHeap -------------------------------
(***************************************************************************)
(* The heap over two pages of 256 bytes (2 MB in the code), with every     *)
(* request the small page tells apart: one that rounds up (33, to 40),     *)
(* one that leaves a rest too small to split, the largest allowed (104),   *)
(* one too large and 0.                                                    *)
(***************************************************************************)
EXTENDS Heap

MCRequests == {0, 33, 72, 104, 105}

\* Pages in a row, and two pages with a hole between them.
PoolInARow == <<256, 512>>
PoolWithHole == <<256, 768>>
=============================================================================
