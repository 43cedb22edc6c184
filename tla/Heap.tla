-------------------------------- MODULE Heap --------------------------------
(***************************************************************************)
(* The kernel heap, src/mem/heap.c, on top of the frame allocator and of   *)
(* paging_map/paging_unmap for its own virtual range.                      *)
(*                                                                         *)
(* A block header is a record stored at its address: `hdr' maps the        *)
(* address of every block in the list to it.  Payload bytes are not kept.  *)
(* kmalloc and kfree are not atomic here: each turn of ensure_space's and  *)
(* heap_trim's loops, and each half of coalesce, is a step, in the order   *)
(* of the code, because each calls the frame allocator or rewrites links.  *)
(* No other heap call starts before the running one returns.               *)
(***************************************************************************)
EXTENDS Integers, FiniteSets, FiniteSetsExt, Functions

CONSTANTS HEAP_START, HEAP_SIZE,
          PAGE_SIZE,
          BLOCK_OVERHEAD,  \* sizeof(heap_block_t)
          MIN_SPLIT,
          ALIGN,           \* sizeof(uint32_t)
          WORD,            \* 2^32, the modulus of size_t
          TABLE_SPAN,      \* bytes of address space one page table covers
          Sizes,           \* sizes callers pass to kmalloc
          Pools            \* sets of frames the memory manager may have left

NULL == 0
heap_end == HEAP_START + HEAP_SIZE

ASSUME HeapAssumption ==
  /\ ALIGN \in Nat \ {0} /\ PAGE_SIZE \in Nat \ {0} /\ TABLE_SPAN \in Nat \ {0}
  /\ HEAP_START \in Nat \ {0} /\ HEAP_SIZE \in Nat /\ MIN_SPLIT \in Nat
  /\ BLOCK_OVERHEAD \in Nat \ {0}
  /\ HEAP_START % ALIGN = 0 /\ BLOCK_OVERHEAD % ALIGN = 0
  /\ HEAP_START % PAGE_SIZE = 0
  /\ WORD \in Nat \ {0}
  /\ Sizes \subseteq Nat
  /\ \A P \in Pools : P \subseteq Nat /\ IsFiniteSet(P)
  \* no request wraps the 32-bit sum start + size + BLOCK_OVERHEAD
  /\ \A n \in Sizes : heap_end + n + ALIGN + BLOCK_OVERHEAD < WORD

VARIABLES hdr,              \* address |-> header, for the blocks of the list
          heap_head, heap_curr, heap_mapped_end, allocated_bytes,
          page,             \* mapped heap page |-> its frame
          tables,           \* page-table number |-> its frame
          pool,             \* the frames left to the heap at boot
          avail,            \* frames of the memory manager nobody owns
          pc,               \* where the running call is, "idle" between calls
          cur,              \* block coalesce works on, or the size being grown for
          req,              \* history: the size the running kmalloc was asked for
          owned             \* history: pointer |-> size asked for, until its kfree

vars == <<hdr, heap_head, heap_curr, heap_mapped_end, allocated_bytes, page,
          tables, pool, avail, pc, cur, req, owned>>
memory == <<heap_mapped_end, page, tables, pool, avail>>

\* The state heap_init leaves.
Init == /\ hdr = << >>
        /\ heap_head = NULL
        /\ heap_curr = HEAP_START
        /\ heap_mapped_end = HEAP_START
        /\ allocated_bytes = 0
        /\ page = << >>
        /\ tables = << >>
        /\ pool \in Pools
        /\ avail = pool
        /\ pc = "idle"
        /\ cur = 0
        /\ req = 0
        /\ owned = << >>
-----------------------------------------------------------------------------
Blocks == DOMAIN hdr
BlockEnd(b) == b + BLOCK_OVERHEAD + hdr[b].size

\* f with f[x] = v, whether or not x was in its domain.
Put(f, x, v) == [y \in DOMAIN f \cup {x} |-> IF y = x THEN v ELSE f[y]]

\* f without x.
Drop(f, x) == Restrict(f, DOMAIN f \ {x})

align_up(value, align) == ((value + align - 1) \div align) * align

\* heap_tail: the block whose next pointer is NULL.
heap_tail == CHOOSE b \in Blocks : hdr[b].next = NULL

\* The blocks kmalloc's walk from heap_head may stop at.  The list is in address
\* order (ListTiles), so the first one the walk meets is the lowest.
Fits(size) == {b \in Blocks : hdr[b].free /\ hdr[b].size >= size}

\* Mutation: the successor keeps its old back link.
Mut_NoBackLink(h, b, succ) == h

\* The header rewritten at block b, with the back link of its successor.
Relink(h, b, succ) == IF succ = NULL THEN h ELSE [h EXCEPT ![succ].prev = b]

\* Mutations: the remainder is not marked free, or does not pay for its own header.
Mut_RemainderInUse(h, b, requested) ==
  [next |-> h[b].next, prev |-> b, free |-> FALSE,
   size |-> h[b].size - requested - BLOCK_OVERHEAD]
Mut_RemainderTooBig(h, b, requested) ==
  [next |-> h[b].next, prev |-> b, free |-> TRUE, size |-> h[b].size - requested]

\* The header of the free block that split_block makes of what is left.
Remainder(h, b, requested) ==
  [next |-> h[b].next, prev |-> b, free |-> TRUE,
   size |-> h[b].size - requested - BLOCK_OVERHEAD]

split_block(h, b, requested) ==
  LET new_block == b + BLOCK_OVERHEAD + requested
  IN  IF h[b].size - requested <= BLOCK_OVERHEAD + MIN_SPLIT THEN h
      ELSE Relink([Put(h, new_block, Remainder(h, b, requested))
                     EXCEPT ![b].next = new_block, ![b].size = requested],
                  new_block, h[b].next)
-----------------------------------------------------------------------------
\* kmalloc, reusing the first block that fits.  allocated_bytes is not updated.
kmalloc_reuse(n) ==
  LET size == align_up(n, ALIGN)
      b    == Min(Fits(size))
  IN  /\ pc = "idle" /\ n # 0
      /\ Fits(size) # {}
      /\ hdr' = split_block([hdr EXCEPT ![b].free = FALSE], b, size)
      /\ owned' = Put(owned, b + BLOCK_OVERHEAD, n)
      /\ UNCHANGED <<heap_head, heap_curr, allocated_bytes, pc, cur, req, memory>>

\* kmalloc when no block fits, up to request_block's bound check, which a request
\* that is too big does not pass: kmalloc then returns NULL and changes nothing.
GrowthEnd(size) == align_up(heap_curr, ALIGN) + size + BLOCK_OVERHEAD

\* Mutation: the bound check forgets the header.
Mut_HeaderNotCounted(size) == GrowthEnd(size) - BLOCK_OVERHEAD <= heap_end

InBounds(size) == GrowthEnd(size) <= heap_end

kmalloc_request(n) ==
  LET size == align_up(n, ALIGN)
  IN  /\ pc = "idle" /\ n # 0
      /\ Fits(size) = {}
      /\ InBounds(size)
      /\ pc' = "grow"
      /\ cur' = size
      /\ req' = n
      /\ UNCHANGED <<hdr, heap_head, heap_curr, allocated_bytes, memory, owned>>

\* One turn of ensure_space: map_new_page takes a frame for the page and paging_map
\* one more when the page table is missing, each the lowest free one (LowestFirst
\* of Pmm).
map_new_page ==
  LET table      == heap_mapped_end \div TABLE_SPAN
      frame      == Min(avail)
      table_phys == Min(avail \ {frame})
  IN  /\ pc = "grow"
      /\ heap_mapped_end < GrowthEnd(cur)
      /\ avail # {}
      /\ page' = Put(page, heap_mapped_end, frame)
      /\ IF table \in DOMAIN tables
         THEN /\ avail' = avail \ {frame}
              /\ UNCHANGED tables
         ELSE /\ avail # {frame}
              /\ tables' = Put(tables, table, table_phys)
              /\ avail' = avail \ {frame, table_phys}
      /\ heap_mapped_end' = heap_mapped_end + PAGE_SIZE
      /\ UNCHANGED <<hdr, heap_head, heap_curr, allocated_bytes, pool, pc, cur, req,
                     owned>>

\* map_new_page or alloc_frame_zero without a frame and without swap space to evict
\* to: the kernel halts for good.
out_of_frames ==
  /\ pc = "grow"
  /\ heap_mapped_end < GrowthEnd(cur)
  /\ \/ avail = {}
     \/ /\ heap_mapped_end \div TABLE_SPAN \notin DOMAIN tables
        /\ Cardinality(avail) = 1
  /\ avail' = {}
  /\ pc' = "halted"
  /\ UNCHANGED <<hdr, heap_head, heap_curr, heap_mapped_end, allocated_bytes, page,
                 tables, pool, cur, req, owned>>

\* request_block writes the header at heap_curr; kmalloc appends it to the list.
kmalloc_append ==
  LET block == align_up(heap_curr, ALIGN)
      new   == [next |-> NULL, size |-> cur, free |-> FALSE,
                prev |-> IF heap_head = NULL THEN NULL ELSE heap_tail]
  IN  /\ pc = "grow"
      /\ heap_mapped_end >= GrowthEnd(cur)
      /\ heap_curr' = GrowthEnd(cur)
      /\ IF heap_head = NULL
         THEN /\ heap_head' = block
              /\ hdr' = Put(hdr, block, new)
         ELSE /\ hdr' = Put([hdr EXCEPT ![heap_tail].next = block], block, new)
              /\ UNCHANGED heap_head
      /\ allocated_bytes' = (allocated_bytes + cur) % WORD
      /\ owned' = Put(owned, block + BLOCK_OVERHEAD, req)
      /\ pc' = "idle"
      /\ cur' = 0
      /\ req' = 0
      /\ UNCHANGED memory
-----------------------------------------------------------------------------
\* kfree of a pointer the caller holds, up to the call of coalesce.
kfree(ptr) ==
  LET block == ptr - BLOCK_OVERHEAD
  IN  /\ pc = "idle"
      /\ ptr \in DOMAIN owned
      /\ ~hdr[block].free
      /\ hdr' = [hdr EXCEPT ![block].free = TRUE]
      /\ allocated_bytes' = (allocated_bytes - hdr[block].size) % WORD
      /\ owned' = Drop(owned, ptr)
      /\ pc' = "merge_next"
      /\ cur' = block
      /\ UNCHANGED <<heap_head, heap_curr, memory, req>>

\* Block `into' absorbs its successor `gone'.
Absorb(into, gone) ==
  Drop(Relink([hdr EXCEPT ![into].size = @ + BLOCK_OVERHEAD + hdr[gone].size,
                          ![into].next = hdr[gone].next],
              into, hdr[gone].next),
       gone)

\* First half of coalesce: the block absorbs a free successor.
coalesce_next ==
  LET next == hdr[cur].next
  IN  /\ pc = "merge_next"
      /\ hdr' = IF next # NULL /\ hdr[next].free THEN Absorb(cur, next) ELSE hdr
      /\ pc' = "merge_prev"
      /\ UNCHANGED <<heap_head, heap_curr, allocated_bytes, memory, cur, req, owned>>

\* Mutation: the block is not merged into a free predecessor.
Mut_NoMergePrev ==
  /\ pc = "merge_prev"
  /\ pc' = "trim"
  /\ cur' = 0
  /\ UNCHANGED <<hdr, heap_head, heap_curr, allocated_bytes, memory, req, owned>>

\* Second half: a free predecessor absorbs the block.
coalesce_prev ==
  LET prev == hdr[cur].prev
  IN  /\ pc = "merge_prev"
      /\ hdr' = IF prev # NULL /\ hdr[prev].free THEN Absorb(prev, cur) ELSE hdr
      /\ pc' = "trim"
      /\ cur' = 0
      /\ UNCHANGED <<heap_head, heap_curr, allocated_bytes, memory, req, owned>>

\* heap_trim's first loop: a free tail leaves the list.
heap_trim_pop ==
  LET tail == heap_tail
      prev == hdr[tail].prev
  IN  /\ pc = "trim"
      /\ heap_head # NULL
      /\ hdr[tail].free
      /\ hdr' = Drop(IF prev = NULL THEN hdr ELSE [hdr EXCEPT ![prev].next = NULL], tail)
      /\ heap_head' = IF prev = NULL THEN NULL ELSE heap_head
      /\ heap_curr' = tail
      /\ UNCHANGED <<allocated_bytes, memory, pc, cur, req, owned>>

\* The first loop ends at a tail in use, or at an empty list.
heap_trim_stop ==
  /\ pc = "trim"
  /\ heap_head # NULL => ~hdr[heap_tail].free
  /\ heap_curr' = IF heap_head = NULL THEN HEAP_START ELSE BlockEnd(heap_tail)
  /\ pc' = "unmap"
  /\ UNCHANGED <<hdr, heap_head, allocated_bytes, memory, cur, req, owned>>

\* Mutation: the bound of the second loop is rounded down.
Mut_KeepLess == (heap_curr \div PAGE_SIZE) * PAGE_SIZE

KeepEnd == align_up(heap_curr, PAGE_SIZE)

\* Mutation: the frame of an unmapped page is not returned.
Mut_UnmapLeaks ==
  /\ pc = "unmap"
  /\ heap_mapped_end > KeepEnd
  /\ heap_mapped_end' = heap_mapped_end - PAGE_SIZE
  /\ page' = Drop(page, heap_mapped_end')
  /\ UNCHANGED <<hdr, heap_head, heap_curr, allocated_bytes, tables, pool, avail, pc,
                 cur, req, owned>>

\* Its second loop: the page above the end of the heap is unmapped and its frame
\* goes back to the memory manager.
heap_trim_unmap ==
  /\ pc = "unmap"
  /\ heap_mapped_end > KeepEnd
  /\ heap_mapped_end' = heap_mapped_end - PAGE_SIZE
  /\ page' = Drop(page, heap_mapped_end')
  /\ avail' = avail \cup {page[heap_mapped_end']}
  /\ UNCHANGED <<hdr, heap_head, heap_curr, allocated_bytes, tables, pool, pc, cur,
                 req, owned>>

heap_trim_done ==
  /\ pc = "unmap"
  /\ heap_mapped_end <= KeepEnd
  /\ pc' = "idle"
  /\ UNCHANGED <<hdr, heap_head, heap_curr, allocated_bytes, memory, cur, req, owned>>

Next == \/ \E n \in Sizes : kmalloc_reuse(n) \/ kmalloc_request(n)
        \/ map_new_page \/ out_of_frames \/ kmalloc_append
        \/ \E ptr \in DOMAIN owned : kfree(ptr)
        \/ coalesce_next \/ coalesce_prev
        \/ heap_trim_pop \/ heap_trim_stop \/ heap_trim_unmap \/ heap_trim_done

Spec == Init /\ [][Next]_vars
-----------------------------------------------------------------------------
Header == [next : Nat, prev : Nat, size : Nat, free : BOOLEAN]

\* Types; in particular no block starts, and heap_curr never lies, past heap_end.
TypeOK == /\ Blocks \subseteq HEAP_START .. heap_end
          /\ \A b \in Blocks : hdr[b] \in Header
          /\ heap_head \in Nat
          /\ heap_curr \in HEAP_START .. heap_end
          /\ heap_mapped_end \in Nat
          /\ allocated_bytes \in 0 .. WORD - 1
          /\ \A a \in DOMAIN page : page[a] \in pool
          /\ \A t \in DOMAIN tables : tables[t] \in pool
          /\ pool \in Pools /\ avail \subseteq pool
          /\ pc \in {"idle", "grow", "merge_next", "merge_prev", "trim", "unmap",
                     "halted"}
          /\ cur \in Nat /\ req \in Nat
          /\ \A p \in DOMAIN owned : p \in Nat /\ owned[p] \in Sizes

\* Following next from heap_head walks the heap from its first byte to heap_curr,
\* block against block, and prev walks it back: after every split, append, merge and
\* pop no byte is in two blocks or in none.
ListTiles ==
  /\ heap_head = (IF Blocks = {} THEN NULL ELSE HEAP_START)
  /\ Blocks = {} => heap_curr = HEAP_START
  /\ \A b \in Blocks :
       /\ IF hdr[b].next = NULL
          THEN BlockEnd(b) = heap_curr
          ELSE /\ hdr[b].next = BlockEnd(b)
               /\ BlockEnd(b) \in Blocks
               /\ hdr[BlockEnd(b)].prev = b
       /\ IF hdr[b].prev = NULL
          THEN b = heap_head
          ELSE hdr[b].prev \in Blocks /\ hdr[hdr[b].prev].next = b

\* Between calls a free block has no free neighbour and is not the last one: one
\* coalesce and the trim of the tail are enough to keep fragmentation out.
FreeBlocksIsolated ==
  pc = "idle" => \A b \in Blocks :
     hdr[b].free => hdr[b].next # NULL /\ ~hdr[hdr[b].next].free

\* A caller's region is the payload of a block in use that is big enough for it,
\* and a block in use belongs to a caller.
OwnedBlocks ==
  /\ \A p \in DOMAIN owned :
       /\ p - BLOCK_OVERHEAD \in Blocks
       /\ ~hdr[p - BLOCK_OVERHEAD].free
       /\ owned[p] <= hdr[p - BLOCK_OVERHEAD].size
  /\ \A b \in Blocks : ~hdr[b].free => b + BLOCK_OVERHEAD \in DOMAIN owned

\* The pages from HEAP_START to heap_mapped_end, and no others, are mapped; they
\* cover every block, and between calls there is none the blocks do not need.
PagesCoverBlocks ==
  /\ DOMAIN page = {a \in HEAP_START .. heap_mapped_end - 1 : a % PAGE_SIZE = 0}
  /\ heap_curr <= heap_mapped_end
  /\ pc = "idle" => heap_mapped_end = align_up(heap_curr, PAGE_SIZE)

\* No frame backs two pages, or a page and a page table, or is free while mapped;
\* none is lost while the kernel runs.
FramesConserved ==
  /\ IsInjective(page) /\ IsInjective(tables)
  /\ Range(page) \cap Range(tables) = {}
  /\ (Range(page) \cup Range(tables)) \cap avail = {}
  /\ pc # "halted" => Range(page) \cup Range(tables) \cup avail = pool

\* kmalloc never hands out memory that overlaps a region still held.
Abstract == INSTANCE RegionAllocator
              WITH ArenaStart <- HEAP_START, ArenaEnd <- heap_end
AbstractSpec == Abstract!Spec
-----------------------------------------------------------------------------
\* The inductive invariant.  ListTiles speaks of neighbours; that no two blocks of the
\* list overlap, however far apart in it, has to be kept along.
Aligned(a) == a % ALIGN = 0

BlocksApart ==
  /\ hdr = [b \in Blocks |-> hdr[b]]
  /\ Aligned(heap_curr)
  /\ \A b \in Blocks : /\ Aligned(b) /\ BlockEnd(b) <= heap_curr
                        /\ \A c \in Blocks : b < c => BlockEnd(b) <= c
  /\ Blocks # {} => \E b \in Blocks : hdr[b].next = NULL

\* What is left to merge at each point of a kfree.
Isolated(b) == hdr[b].next # NULL /\ ~hdr[hdr[b].next].free

MergesLeft ==
  /\ pc \in {"merge_next", "merge_prev"} =>
       /\ cur \in Blocks /\ hdr[cur].free
       /\ \A b \in Blocks \ {cur} : hdr[b].free => hdr[b].next = cur \/ Isolated(b)
  /\ pc = "merge_prev" => hdr[cur].next = NULL \/ Isolated(cur)
  /\ pc = "trim" => \A b \in Blocks : hdr[b].free => hdr[b].next = NULL \/ Isolated(b)
  /\ pc \in {"idle", "grow", "unmap"} => \A b \in Blocks : hdr[b].free => Isolated(b)

\* How far a kmalloc has come with mapping pages, and that no kfree unmaps too many.
PagesLeft ==
  /\ heap_mapped_end >= HEAP_START /\ heap_mapped_end % PAGE_SIZE = 0
  /\ KeepEnd <= heap_mapped_end
  /\ pc = "grow" => /\ req \in Sizes \ {0} /\ req <= cur /\ Aligned(cur)
                    /\ GrowthEnd(cur) <= heap_end
                    /\ heap_mapped_end <= align_up(GrowthEnd(cur), PAGE_SIZE)

HeapInv == /\ TypeOK /\ ListTiles /\ OwnedBlocks /\ PagesCoverBlocks /\ FramesConserved
           /\ BlocksApart /\ MergesLeft /\ PagesLeft
=============================================================================
