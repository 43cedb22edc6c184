-------------------------------- MODULE Paging ------------------------------
(***************************************************************************)
(* Page directories, page faults and swap: src/mem/paging.c, src/mem/swap.c*)
(* and the callers they have, the heap (src/mem/heap.c), the shell's       *)
(* swaptest and the first half of sched_spawn_user and sched_spawn_elf.    *)
(*                                                                         *)
(* A directory has three entries that matter: "low", the identity map of   *)
(* the first 16 MiB, through which the kernel runs and reaches every       *)
(* directory, table and frame; "kernel", the same memory at 0xC0000000;    *)
(* and "heap".  The page-fault handler runs with interrupts off, so a      *)
(* fault is one step; an AHCI command is its outcome, as module Ahci has   *)
(* it.  Frames come from the allocator of module Pmm, the lowest first.    *)
(*                                                                         *)
(* The model ends (cpu # "run") where the kernel does: "halted" in the     *)
(* code's cli;hlt loops, "reset" when the processor cannot fetch the next  *)
(* instruction, "broken" when a frame that is in use was freed.            *)
(***************************************************************************)
EXTENDS Integers, FiniteSets, FiniteSetsExt

CONSTANTS BASE,    \* the first frame the allocator hands out
          FRAMES,  \* the number of frames
          IDENT,   \* frames the identity map covers (16 MiB)
          PAGES,   \* bound: pages of the heap
          SLOTS    \* SWAP_SIZE_PAGES (4096)

ASSUME PagingAssumption == /\ BASE \in Nat \ {0} /\ PAGES \in Nat /\ SLOTS \in Nat
                           /\ FRAMES \in Nat /\ BASE + 3 <= FRAMES
                           /\ IDENT \in Nat /\ BASE + 3 <= IDENT

VARIABLES used,   \* frames the allocator has handed out
          dir,    \* directory frame |-> its entries: the frame of a table, or 0
          cur,    \* current_pd_phys
          ident,  \* the identity map's page table entries: a frame, or a swap slot
          heap, top,   \* the heap's, and how many of them are mapped (heap_mapped_end)
          data,   \* what a frame holds: the heap page it was written for, or 0
          swap_port, slots, disk,   \* swap.c: swap is on, swap_bitmap; and the slots' data
          drive,    \* the swap drive has not been pulled
          spawn,    \* sched_spawn_user or sched_spawn_elf: where it is, and its directory
          cpu,
          dropped,  \* history: slots of pages that were unmapped while swapped out
          spoiled   \* history: heap pages whose transfer failed or did not happen

swap == <<swap_port, slots, disk, drive>>
history == <<dropped, spoiled>>
mapped == <<ident, heap, top>>
vars == <<used, dir, cur, mapped, data, swap, spawn, cpu, history>>

Usable == BASE .. FRAMES - 1
Slots == 0 .. SLOTS - 1
KERNEL == BASE   \* the directory paging_init allocates
NoSpawn == [at |-> "none", pd |-> 0]
Running == cpu = "run"

Absent == [kind |-> "none", at |-> 0]
Page(f) == [kind |-> "page", at |-> f]
Swapped(s) == [kind |-> "swap", at |-> s]

\* map_identity_region: every frame of the first 16 MiB at its own address.
map_identity_region == [v \in 0 .. IDENT - 1 |-> Page(v)]

\* map_kernel_higher_half: the pages of the kernel share one table.
map_kernel_higher_half == KERNEL + 2

\* swap_init: swap is on if a drive was found at boot; every slot is free.
swap_init == swap_port \in BOOLEAN /\ slots = {}

\* paging_init: the directory and its tables are the first frames handed out.
Init == /\ used = {KERNEL, KERNEL + 1, map_kernel_higher_half}
        /\ dir = [d \in {KERNEL} |-> [low |-> KERNEL + 1, kernel |-> map_kernel_higher_half,
                                    heap |-> 0]]
        /\ cur = KERNEL
        /\ ident = map_identity_region
        /\ heap = [i \in 1 .. PAGES |-> Absent] /\ top = 0
        /\ data = [f \in Usable |-> 0]
        /\ swap_init /\ disk = [s \in Slots |-> 0] /\ drive = TRUE
        /\ spawn = NoSpawn /\ cpu = "run" /\ dropped = {} /\ spoiled = {}
-----------------------------------------------------------------------------
Free == Usable \ used

\* Mutation: the allocator hands out the highest frame.
Mut_Highest(F) == Max(F)

\* pmm_alloc_frame, when F are the free frames and there are some.
Lowest(F) == Min(F)

\* alloc_frame_zero gets a frame that it can clear through the identity map, when F are
\* the free ones.
Zeroable(F) == F # {} /\ Lowest(F) < IDENT

\* What an AHCI command may come to: the data were transferred, an error, and, once
\* the drive was pulled, success without a transfer.
Outcomes == IF drive THEN {"ok", "err"} ELSE {"err", "void"}

\* Mutation: the bitmap is not looked at.
Mut_AnySlot == Slots

\* find_free_slot: the slots whose bit is clear; the lowest is taken.
FreeSlots == Slots \ slots

\* swap_out: the slot is marked once the write succeeded.
swap_out(s, o) == /\ swap_port /\ FreeSlots # {} /\ s = Min(FreeSlots)
                  /\ o # "err"
                  /\ slots' = slots \cup {s}

\* swap_in: what the frame, which was cleared, holds after the read.
swap_in(s, o) == IF o = "ok" THEN disk[s] ELSE 0

\* Mutation: the slot stays marked.
Mut_KeepSlot(s) == UNCHANGED slots

\* swap_free
swap_free(s) == slots' = slots \ {s}

\* paging_evict_page: below 0xC0000000 only the identity map is present, so the victim v
\* is one of its pages; which one depends on the accessed bits and on the writes that
\* fail.  Its frame is in use, and freed, if it is the allocator's; if not, the allocator
\* ignores it, and alloc_frame_zero halts for want of a frame all the same.
paging_evict_page(v, o) ==
  \E s \in Slots : /\ swap_out(s, o)
                   /\ ident' = [ident EXCEPT ![v] = Swapped(s)]
                   /\ cpu' = IF v \in Usable THEN "broken" ELSE "halted"

\* alloc_frame_zero without such a frame: it halts when a frame above the identity map
\* faults as it is cleared, and when no page could be evicted.
Exhausted(F) ==
  /\ used' = Usable \ F
  /\ \/ F = {} /\ \E v \in 0 .. IDENT - 1, o \in Outcomes : paging_evict_page(v, o)
     \/ cpu' = "halted" /\ UNCHANGED <<slots, ident>>
  /\ UNCHANGED <<dir, cur, heap, top, data, swap_port, disk, drive, spawn, history>>

pull == /\ Running /\ drive /\ drive' = FALSE
        /\ UNCHANGED <<used, dir, cur, mapped, data, swap_port, slots, disk, spawn, cpu, history>>
-----------------------------------------------------------------------------
\* paging_virt_to_phys: the frame of a heap page, 0 if it is not present.
paging_virt_to_phys(i) == IF heap[i].kind = "page" THEN heap[i].at ELSE 0

\* paging_swap_out: the entry names the slot and the frame is freed.
paging_swap_out(i, o) ==
  /\ Running /\ heap[i].kind = "page"
  /\ \E s \in Slots :
        /\ swap_out(s, o)
        /\ disk' = IF o = "ok" THEN [disk EXCEPT ![s] = data[heap[i].at]] ELSE disk
        /\ heap' = [heap EXCEPT ![i] = Swapped(s)]
  /\ used' = used \ {heap[i].at}
  /\ spoiled' = IF o = "ok" THEN spoiled ELSE spoiled \cup {i}
  /\ UNCHANGED <<dir, cur, ident, top, data, swap_port, drive, spawn, cpu, dropped>>

\* page_fault_handler on a page that is swapped out: a new frame is mapped and filled,
\* and the slot freed, whether the read succeeded or not.
page_fault_handler(i, o) ==
  /\ Running /\ heap[i].kind = "swap"
  /\ \/ ~Zeroable(Free) /\ Exhausted(Free)
     \/ /\ Zeroable(Free)
        /\ used' = used \cup {Lowest(Free)}
        /\ heap' = [heap EXCEPT ![i] = Page(Lowest(Free))]
        /\ data' = [data EXCEPT ![Lowest(Free)] = swap_in(heap[i].at, o)]
        /\ swap_free(heap[i].at)
        /\ spoiled' = IF o = "ok" THEN spoiled ELSE spoiled \cup {i}
        /\ UNCHANGED <<dir, cur, ident, top, swap_port, disk, drive, spawn, cpu, dropped>>
-----------------------------------------------------------------------------
\* paging_map of heap page i to frame f, when F are the other free frames: the first
\* page needs a table, which get_page_table allocates.
paging_map(i, f, F) ==
  /\ \/ /\ dir[cur].heap = 0 /\ Zeroable(F)
        /\ used' = used \cup {f, Lowest(F)}
        /\ dir' = [dir EXCEPT ![cur].heap = Lowest(F)]
     \/ /\ dir[cur].heap # 0
        /\ used' = used \cup {f} /\ UNCHANGED dir
  /\ heap' = [heap EXCEPT ![i] = Page(f)]

\* The heap maps its next page, for a caller in the shell or for the AHCI hot-plug
\* handler, and the caller writes to it; without a frame kmalloc fails.
heap_grow ==
  /\ Running /\ top < PAGES /\ Free # {}
  /\ LET f == Lowest(Free)
         F == Free \ {f}
     IN  \/ dir[cur].heap = 0 /\ ~Zeroable(F) /\ Exhausted(F)
         \/ /\ paging_map(top + 1, f, F)
            /\ top' = top + 1
            /\ data' = [data EXCEPT ![f] = top + 1]
            /\ spoiled' = spoiled \ {top + 1}
            /\ UNCHANGED <<cur, ident, swap, spawn, cpu, dropped>>

\* paging_unmap clears the entry, whatever it holds.
paging_unmap(i) == heap' = [heap EXCEPT ![i] = Absent]

\* heap_trim: the last page is unmapped and its frame freed; there is none to free for a
\* page that is swapped out.
heap_trim ==
  /\ Running /\ top > 0
  /\ paging_unmap(top) /\ top' = top - 1
  /\ used' = used \ {paging_virt_to_phys(top)}
  /\ dropped' = IF heap[top].kind = "swap" THEN dropped \cup {heap[top].at} ELSE dropped
  /\ UNCHANGED <<dir, cur, ident, data, swap, spawn, cpu, spoiled>>
-----------------------------------------------------------------------------
\* paging_create_directory: only the entries from 0xC0000000 up are copied.
spawn_create ==
  /\ Running /\ spawn = NoSpawn
  /\ \/ ~Zeroable(Free) /\ Exhausted(Free)
     \/ /\ Zeroable(Free)
        /\ used' = used \cup {Lowest(Free)}
        /\ dir' = [d \in DOMAIN dir \cup {Lowest(Free)} |->
                    IF d \in DOMAIN dir THEN dir[d] ELSE [dir[cur] EXCEPT !.low = 0]]
        /\ spawn' = [at |-> "kstack", pd |-> Lowest(Free)]
        /\ UNCHANGED <<cur, mapped, data, swap, cpu, history>>

\* Mutation: the failed call keeps its directory.
Mut_KeepDirectory(d) == UNCHANGED <<used, dir>>

\* paging_destroy_directory of a directory that has no entry below 0xC0000000 yet.
paging_destroy_directory(d) ==
  IF d = cur THEN UNCHANGED <<used, dir>>
  ELSE /\ used' = used \ {d}
       /\ dir' = [e \in DOMAIN dir \ {d} |-> dir[e]]

\* kmalloc of the kernel stack, and for sched_spawn_user of the user stack, succeeds, from
\* the heap's free blocks or after it grew; or fails, no frame being left to grow it.
spawn_stack ==
  /\ Running
  /\ \/ spawn.at = "kstack" /\ spawn' \in {[spawn EXCEPT !.at = t] : t \in {"ustack", "switch"}}
     \/ spawn.at = "ustack" /\ spawn' = [spawn EXCEPT !.at = "switch"]
  /\ UNCHANGED <<used, dir, cur, mapped, data, swap, cpu, history>>

spawn_no_stack ==
  /\ Running /\ spawn.at \in {"kstack", "ustack"} /\ Free = {}
  /\ paging_destroy_directory(spawn.pd)
  /\ spawn' = NoSpawn
  /\ UNCHANGED <<cur, mapped, data, swap, cpu, history>>

\* paging_switch_directory: the kernel goes on in the identity map, if there is one.
paging_switch_directory ==
  /\ Running /\ spawn.at = "switch"
  /\ cur' = spawn.pd
  /\ cpu' = IF dir[spawn.pd].low = 0 THEN "reset" ELSE "run"
  /\ spawn' = NoSpawn
  /\ UNCHANGED <<used, dir, mapped, data, swap, history>>

Next == \/ pull \/ heap_grow \/ heap_trim
        \/ \E i \in 1 .. PAGES, o \in Outcomes : paging_swap_out(i, o) \/ page_fault_handler(i, o)
        \/ spawn_create \/ spawn_stack \/ spawn_no_stack \/ paging_switch_directory

Spec == Init /\ [][Next]_vars
-----------------------------------------------------------------------------
Held(k) == {i \in 1 .. PAGES : heap[i].kind = k}   \* heap pages of one kind
PageFrames == {heap[i].at : i \in Held("page")}
HeapSlots == {heap[i].at : i \in Held("swap")}
IdentSlots == {ident[v].at : v \in {w \in DOMAIN ident : ident[w].kind = "swap"}}
Directories == {KERNEL, spawn.pd} \ {0}   \* the kernel's, and that of a call under way
Tables == {dir[KERNEL].low, dir[KERNEL].kernel, dir[KERNEL].heap} \ {0}

\* While the kernel runs, the frames handed out are exactly the directories, the tables
\* and the pages of the heap, each used for one thing only: no fault, swap, failed spawn
\* or trim loses a frame or frees one that is in use.
FramesExact ==
  Running =>
    /\ used = Directories \cup Tables \cup PageFrames
    /\ Directories \cap Tables = {} /\ PageFrames \cap (Directories \cup Tables) = {}
    /\ \A i, j \in Held("page") : i # j => heap[i].at # heap[j].at

\* A slot is marked exactly when one page is swapped out to it, or its page was unmapped
\* while it was there (paging_unmap does not free the slot); no two pages share one.
SlotsExact ==
  /\ slots = HeapSlots \cup IdentSlots \cup dropped
  /\ HeapSlots \cap (IdentSlots \cup dropped) = {} /\ IdentSlots \cap dropped = {}
  /\ \A i, j \in Held("swap") : i # j => heap[i].at # heap[j].at

\* A page that was swapped out and in again holds what was written to it, unless one
\* of its transfers failed or, the drive being gone, did not happen.
SwapKeepsData ==
  \A i \in 1 .. PAGES \ spoiled :
     /\ heap[i].kind = "page" => data[heap[i].at] = i
     /\ heap[i].kind = "swap" => disk[heap[i].at] = i

\* The kernel halts in alloc_frame_zero only when no frame below 16 MiB is free, even
\* though pmm_alloc_frame knows nothing of that limit.
HaltsOnlyExhausted == cpu = "halted" => \A f \in Free : f >= IDENT

\* The directory the processor uses maps the memory the kernel runs in
\* (paging_create_directory, paging_switch_directory).
KernelMapped == dir[cur].low # 0
-----------------------------------------------------------------------------
\* The inductive invariant behind the four safety properties that hold.
PTE == [kind : {"none", "page", "swap"}, at : Nat]

Types == /\ used \in SUBSET Usable /\ slots \in SUBSET Slots
         /\ heap \in [1 .. PAGES -> PTE] /\ ident \in [0 .. IDENT - 1 -> PTE]
         /\ \A i \in 1 .. PAGES :
               /\ heap[i].kind = "page" => heap[i].at \in Usable
               /\ heap[i].kind = "swap" => heap[i].at \in Slots
         /\ top \in 0 .. PAGES
         /\ data \in [Usable -> Nat] /\ disk \in [Slots -> Nat]
         /\ spawn \in [at : {"none", "kstack", "ustack", "switch"}, pd : Nat]

\* Where things are while the kernel runs.
Layout ==
  Running =>
    /\ cur = KERNEL /\ DOMAIN dir = Directories
    /\ dir[KERNEL] \in [low : {KERNEL + 1}, kernel : {KERNEL + 2},
                       heap : ({0} \cup Usable) \ {KERNEL + 1, KERNEL + 2}]
    /\ \A i \in 1 .. PAGES : i <= top <=> heap[i].kind # "none"
    /\ IdentSlots = {}
    /\ spawn = NoSpawn \/ (spawn.pd \in Usable \ {KERNEL} /\ dir[spawn.pd].low = 0)

PagingInv == /\ Types /\ Layout /\ FramesExact /\ SlotsExact /\ SwapKeepsData
             /\ HaltsOnlyExhausted
=============================================================================
