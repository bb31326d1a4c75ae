----------------------------- MODULE MCConsole -----------------------------
(***************************************************************************)
(* Two terminals of two by two cells, one letter besides the blank and a   *)
(* ring of two lines.                                                      *)
(***************************************************************************)
EXTENDS Console
=============================================================================
