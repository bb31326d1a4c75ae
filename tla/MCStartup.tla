----------------------------- MODULE MCStartup -----------------------------
(***************************************************************************)
(* Three keys, a keyboard controller of two bytes and a line with room for *)
(* all of them: a key before, during and after each of the start-up's      *)
(* steps, and one dropped.                                                 *)
(***************************************************************************)
EXTENDS Startup
=============================================================================
