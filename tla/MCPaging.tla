------------------------------- MODULE MCPaging -----------------------------
(***************************************************************************)
(* Eight frames, six of them usable and five of these in the identity map, *)
(* three of which hold the directory and two tables after boot.  Three     *)
(* heap pages and two swap slots: frames, the identity map and the slots   *)
(* all run out.                                                            *)
(***************************************************************************)
EXTENDS Paging
=============================================================================
