-------------------------------- MODULE MCAhci ------------------------------
(***************************************************************************)
(* Two ports with two slots: a drive may be pulled and plugged again while *)
(* a command runs, and a failed command leaves its slot taken.             *)
(***************************************************************************)
EXTENDS Ahci
=============================================================================
