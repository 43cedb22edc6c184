--------------------------- MODULE MCSchedPreempt ---------------------------
(***************************************************************************)
(* Three slots and two task stacks; ticks fall between all the stores.     *)
(***************************************************************************)
EXTENDS SchedPreempt
=============================================================================
