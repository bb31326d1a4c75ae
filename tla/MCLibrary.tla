----------------------------- MODULE MCLibrary -----------------------------
(***************************************************************************)
(* Five pages, three inodes and blocks, and tables smaller than what is    *)
(* asked of them.                                                          *)
(***************************************************************************)
EXTENDS Library

\* Chained in an order that is not theirs, so that every order of taking and giving
\* back is a different list.
FivePages == <<512, 256, 1024, 1536, 768>>

\* Two blocks, and the free mark, which inode.c does not refuse.  It is the number
\* block_allocate is written to return when there is no block (as it stands it finds
\* block 0 every time).
TwoBlocksAndNone == {0, 1, -1}
=============================================================================
