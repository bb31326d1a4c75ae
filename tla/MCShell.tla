------------------------------ MODULE MCShell ------------------------------
(***************************************************************************)
(* Lines of up to three characters over one letter and at most one blank,  *)
(* a history of two lines, and two words at most to a line.  On a screen   *)
(* of two rows of three cells the prompt leaves one cell for the line in   *)
(* its row: longer lines wrap, a line on the last row soon comes to the    *)
(* last cell, and a row of output scrolls.                                 *)
(***************************************************************************)
EXTENDS Shell
=============================================================================
