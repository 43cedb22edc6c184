------------------------------ MODULE MCSched -------------------------------
(***************************************************************************)
(* Four slots and three task stacks (the table can be full), six spawns    *)
(* so that slots and stacks are reused.                                    *)
(***************************************************************************)
EXTENDS Sched
=============================================================================
