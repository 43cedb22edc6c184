------------------------------- MODULE MCInput ------------------------------
(***************************************************************************)
(* A ring of two characters, a line of two, two event buffers in a queue   *)
(* of three descriptors.  Each keyboard is pressed twice: enough for a     *)
(* full ring and for two interrupts in the middle of one push.  The PS/2   *)
(* keys are two letters that ctrl changes and a dead key; the virtio       *)
(* events a tab and one without a character.                               *)
(***************************************************************************)
EXTENDS Input
=============================================================================
