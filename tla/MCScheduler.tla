---------------------------- MODULE MCScheduler ----------------------------
(***************************************************************************)
(* Three slots and four stacks, so that the table fills before the stacks  *)
(* do and slots and stacks are reused in different orders.                 *)
(***************************************************************************)
EXTENDS Scheduler

CONSTANTS s1, s2, s3, s4

FourStacks == {s1, s2, s3, s4}
=============================================================================
