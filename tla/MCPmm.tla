------------------------------- MODULE MCPmm --------------------------------
(***************************************************************************)
(* A small instance of Pmm: twelve frames of four bytes, the kernel in     *)
(* the first three of them, and firmware maps with a hole, overlapping     *)
(* entries, entries that end inside a frame, memory that starts under the  *)
(* floor, a map that runs past the bitmap, a reserved ROM just below 4 GiB *)
(* as PC firmware has it, and no map at all.                               *)
(***************************************************************************)
EXTENDS Pmm

Region(a, l, t) == [addr |-> a, len |-> l, type |-> t]
Info(entries, kb) == [mmap |-> entries, mem_lower |-> 1, mem_upper |-> kb]

MCBootInfos ==
  { Info(<<Region(0, 12, 1), Region(12, 4, 2), Region(16, 16, 1)>>, 27),
    Info(<<Region(0, 20, 1), Region(10, 18, 1)>>, 27),
    Info(<<Region(0, 3, 1), Region(8, 12, 1), Region(24, 44, 1)>>, 31),
    Info(<<Region(4, 0, 1), Region(18, 8, 1), Region(26, 6, 2)>>, 31),
    Info(<<Region(0, 32, 1), Region(44, 4, 2)>>, 31),
    Info(<<>>, 27), Info(<<>>, 3) }
=============================================================================
