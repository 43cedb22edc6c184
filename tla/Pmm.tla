-------------------------------- MODULE Pmm ---------------------------------
(***************************************************************************)
(* The bitmap physical memory manager, src/mem/pmm.c.                      *)
(*                                                                         *)
(* frame_bitmap is the set `reserved' of the frames whose bit is 1.        *)
(* pmm_init runs before interrupts are enabled and before any allocation;  *)
(* its scan of the firmware map is one step per map entry, so that what    *)
(* one release_region leaves behind is visible to the next.                *)
(***************************************************************************)
EXTENDS Integers, FiniteSets, Sequences, FiniteSetsExt

CONSTANTS FRAME_SIZE,      \* bytes in a frame (4096)
          PMM_MAX_FRAMES,  \* frames the bitmap covers (2^20)
          WORD,            \* 2^32, the modulus of uint32_t
          ADDR_MAX,        \* 2^64 - 1, the largest address of a map entry
          KB,              \* 1024, the unit of mem_lower and mem_upper
          KernelEnd,       \* &end, the first address after the kernel image
          FirstMiB,        \* 0x00100000
          BootInfos        \* the multiboot_info_t the loader may pass

ASSUME PmmAssumption ==
  /\ FRAME_SIZE \in Nat \ {0}
  /\ PMM_MAX_FRAMES \in Nat \ {0}
  /\ PMM_MAX_FRAMES * FRAME_SIZE = WORD
  /\ KB \in Nat \ {0}
  /\ KernelEnd \in Nat
  /\ FirstMiB \in Nat \ {0}
  /\ KernelEnd <= WORD /\ FirstMiB <= WORD
  /\ ADDR_MAX \in Nat
  /\ \A mb \in BootInfos : /\ \A i \in DOMAIN mb.mmap :
                                /\ mb.mmap[i].addr \in Nat
                                /\ mb.mmap[i].len \in Nat
                                /\ mb.mmap[i].addr + mb.mmap[i].len <= ADDR_MAX
                           /\ mb.mem_lower \in Nat
                           /\ mb.mem_upper \in Nat

VARIABLES total_frames, free_frames, base_usable_frame, search_hint,
          reserved,  \* frame_bitmap: the frames whose bit is set
          boot,      \* "reset" before pmm_init, "mmap" during its scan, "up" after
          mb_info,   \* the boot information, once pmm_init has it
          offset,    \* the map entry the scan looks at
          granted,   \* history: frames a caller holds
          answer     \* the frame the last pmm_alloc_frame returned, 0 for none

vars == <<total_frames, free_frames, base_usable_frame, search_hint, reserved,
          boot, mb_info, offset, granted, answer>>

AllFrames == 0 .. PMM_MAX_FRAMES - 1

\* Before pmm_init: .bss is zero, so is the bitmap.
Init == /\ total_frames = 0
        /\ free_frames = 0
        /\ base_usable_frame = 0
        /\ search_hint = 0
        /\ reserved = {}
        /\ boot = "reset"
        /\ mb_info \in BootInfos
        /\ offset = 1
        /\ granted = {}
        /\ answer = 0
-----------------------------------------------------------------------------
align_frame_up(addr) == (addr + FRAME_SIZE - 1) \div FRAME_SIZE

\* Every entry counts, available or not.
highest_address_from_mmap(mb) ==
  Max({0} \cup {mb.mmap[i].addr + mb.mmap[i].len : i \in DOMAIN mb.mmap})

ReserveFloor == Max({align_frame_up(KernelEnd), align_frame_up(FirstMiB)})

MaxAddr(mb) ==
  IF highest_address_from_mmap(mb) # 0
  THEN highest_address_from_mmap(mb)
  ELSE (mb.mem_lower + mb.mem_upper) * KB

\* Mutation: the clamp to the size of the bitmap is missing.
Mut_TotalUnclamped(mb) == Max({MaxAddr(mb) \div FRAME_SIZE, ReserveFloor})

TotalFrames(mb) ==
  Max({Min({MaxAddr(mb) \div FRAME_SIZE, PMM_MAX_FRAMES}), ReserveFloor})

\* pmm_init up to the call of process_available_regions.
pmm_init == /\ boot = "reset"
            /\ base_usable_frame' = ReserveFloor
            /\ search_hint' = ReserveFloor
            /\ total_frames' = TotalFrames(mb_info)
            /\ reserved' = AllFrames
            /\ free_frames' = 0
            /\ boot' = "mmap"
            /\ UNCHANGED <<mb_info, offset, granted, answer>>

\* Mutations: the loop does not skip frames already clear, or those under the floor.
Mut_ReleaseClear(f) == f >= base_usable_frame
Mut_ReleaseLow(f) == f \in reserved

\* The frames release_region's loop does not skip.
Releasable(f) == f \in reserved /\ f >= base_usable_frame

\* The frames release_region(base, length) makes available; its bounds round outwards.
Released(base, length) ==
  LET start == base \div FRAME_SIZE
      end   == Min({(base + length + FRAME_SIZE - 1) \div FRAME_SIZE, total_frames})
  IN  IF length = 0 THEN {}
      ELSE {f \in AllFrames : start <= f /\ f < end /\ Releasable(f)}

release_region(base, length) ==
  /\ reserved' = reserved \ Released(base, length)
  /\ free_frames' = free_frames + Cardinality(Released(base, length))

\* process_available_regions without a memory map: everything above the floor.
process_without_mmap ==
  /\ boot = "mmap"
  /\ mb_info.mmap = <<>>
  /\ release_region(base_usable_frame * FRAME_SIZE,
                    (total_frames - base_usable_frame) * FRAME_SIZE)
  /\ boot' = "up"
  /\ UNCHANGED <<total_frames, base_usable_frame, search_hint, mb_info, offset,
                 granted, answer>>

\* process_available_regions, one entry of the map: only type 1 is released.
process_entry ==
  /\ boot = "mmap"
  /\ offset \in DOMAIN mb_info.mmap
  /\ LET entry == mb_info.mmap[offset]
     IN  IF entry.type = 1
         THEN release_region(entry.addr, entry.len)
         ELSE UNCHANGED <<reserved, free_frames>>
  /\ offset' = offset + 1
  /\ boot' = IF offset = Len(mb_info.mmap) THEN "up" ELSE "mmap"
  /\ UNCHANGED <<total_frames, base_usable_frame, search_hint, mb_info, granted,
                 answer>>
-----------------------------------------------------------------------------
\* The clear frames one pass of the search scans.
Clear(begin, end) == {f \in begin .. end - 1 : f \notin reserved}

\* Pass 0 looks from the hint to the end, pass 1 from the floor to the hint.
SearchHits == IF Clear(search_hint, total_frames) # {}
              THEN Clear(search_hint, total_frames)
              ELSE Clear(base_usable_frame, search_hint)

\* Mutation: the last free frame is never handed out.
Mut_OneIsNone == free_frames <= 1 \/ total_frames = 0

\* The early return of pmm_alloc_frame.
NoneFree == free_frames = 0 \/ total_frames = 0

pmm_alloc_frame ==
  /\ boot = "up"
  /\ ~NoneFree
  /\ SearchHits # {}
  /\ LET frame == Min(SearchHits)
     IN  /\ reserved' = reserved \cup {frame}
         /\ free_frames' = free_frames - 1
         /\ search_hint' = frame
         /\ answer' = frame
         /\ granted' = granted \cup {frame}
  /\ UNCHANGED <<total_frames, base_usable_frame, boot, mb_info, offset>>

\* The early return, or two passes that found nothing.
pmm_alloc_frame_none ==
  /\ boot = "up"
  /\ NoneFree \/ SearchHits = {}
  /\ answer' = 0
  /\ UNCHANGED <<total_frames, free_frames, base_usable_frame, search_hint,
                 reserved, boot, mb_info, offset, granted>>

\* What callers pass to pmm_free_frame: a frame they hold, one that is already
\* free, or a low frame that a page table mapped without allocating it.
MayBeFreed(frame) == \/ frame \in granted
                     \/ frame \notin reserved
                     \/ frame < base_usable_frame

\* pmm_free_frame ignores address 0, frames outside the managed range and
\* frames already clear.
FreeIgnored(frame) == \/ frame = 0
                      \/ frame < base_usable_frame \/ frame >= total_frames
                      \/ frame \notin reserved

\* Mutation: a free raises the hint.
Mut_HintRaised(frame) == Max({frame, search_hint})

HintAfterFree(frame) == IF frame < search_hint THEN frame ELSE search_hint

pmm_free_frame(frame) ==
  /\ boot = "up"
  /\ MayBeFreed(frame)
  /\ ~FreeIgnored(frame)
  /\ reserved' = reserved \ {frame}
  /\ free_frames' = free_frames + 1
  /\ search_hint' = HintAfterFree(frame)
  /\ granted' = granted \ {frame}
  /\ UNCHANGED <<total_frames, base_usable_frame, boot, mb_info, offset, answer>>

Next == \/ pmm_init
        \/ process_without_mmap
        \/ process_entry
        \/ pmm_alloc_frame
        \/ pmm_alloc_frame_none
        \/ \E frame \in AllFrames : pmm_free_frame(frame)

Spec == Init /\ [][Next]_vars
-----------------------------------------------------------------------------
FreeSet == AllFrames \ reserved

\* Types and the bounds of the bitmap.
TypeOK == /\ total_frames \in 0 .. PMM_MAX_FRAMES
          /\ free_frames \in 0 .. PMM_MAX_FRAMES
          /\ base_usable_frame \in 0 .. PMM_MAX_FRAMES
          /\ search_hint \in 0 .. PMM_MAX_FRAMES
          /\ reserved \subseteq AllFrames
          /\ boot \in {"reset", "mmap", "up"}
          /\ mb_info \in BootInfos
          /\ offset \in Nat \ {0}
          /\ granted \subseteq AllFrames
          /\ answer \in AllFrames

\* The counter pmm_alloc_frame trusts for its early return is the number of
\* clear bits, through overlapping map entries, allocations and frees: it never
\* refuses a request while a bit is clear and never scans a full bitmap.
FreeCountExact == boot # "reset" => free_frames = Cardinality(FreeSet)

\* Frames under the floor (the first MiB and the kernel image) and frames the
\* machine does not have keep their bit, whatever the map says and callers free.
OutsideStaysReserved ==
  boot # "reset" =>
     \A f \in FreeSet : base_usable_frame <= f /\ f < total_frames

\* The hint is only an optimisation: no frame between the floor and the hint is
\* clear, so the frame found from the hint on is the lowest free one.
HintIsFloor ==
  boot # "reset" => \A f \in base_usable_frame .. search_hint - 1 : f \in reserved

\* A frame a caller holds keeps its bit until that caller returns it.
HeldStaysReserved == granted \subseteq reserved

\* The landmarks pmm_init computes stay in order.
Landmarks ==
  /\ boot = "reset" => reserved = {}
  /\ boot # "reset" => /\ base_usable_frame \in 1 .. search_hint
                       /\ search_hint <= total_frames
  /\ boot # "up" => granted = {}
  /\ boot = "mmap" => search_hint = base_usable_frame

\* The inductive invariant: the five properties above hold together.
PmmInv == /\ TypeOK
          /\ FreeCountExact
          /\ OutsideStaysReserved
          /\ HintIsFloor
          /\ HeldStaysReserved
          /\ Landmarks

\* pmm_alloc_frame always hands out the lowest free frame.
LowestFirst ==
  [][granted' \ granted # {} => \A f \in FreeSet : answer' <= f]_vars

\* The frame a caller gets is one nobody held, a request fails only when no
\* frame is free, and a free returns exactly the frame it names.
Abstract == INSTANCE FrameAllocator
              WITH up <- boot = "up",
                   avail <- IF boot = "reset" THEN {} ELSE FreeSet
AbstractSpec == Abstract!Spec
=============================================================================
