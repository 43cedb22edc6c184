------------------------------- MODULE MCHeap -------------------------------
(***************************************************************************)
(* A heap of three 16-byte pages with 4-byte headers and 2-byte alignment, *)
(* under page tables of 32 bytes: blocks split and merge inside a page,    *)
(* span pages and fill the heap to its last byte.  With seven frames every *)
(* page can be mapped, with four the last one cannot.                      *)
(***************************************************************************)
EXTENDS Heap

MCPools == {1 .. 4, 1 .. 7}
=============================================================================
