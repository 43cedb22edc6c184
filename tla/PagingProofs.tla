---------------------------- MODULE PagingProofs ----------------------------
(***************************************************************************)
(* Proofs about Paging, for every number of frames, heap pages and slots.  *)
(***************************************************************************)
EXTENDS Paging, NumberLemmas

\* pmm_alloc_frame returns a free frame, and none below it is free.
LEMMA LowestFree ==
  ASSUME NEW F \in SUBSET Usable, F # {}
  PROVE  Lowest(F) \in F /\ \A f \in F : Lowest(F) <= f
BY PagingAssumption, MinNat DEF Lowest, Usable

\* find_free_slot returns a slot that is not marked.
LEMMA LowestSlot ==
  ASSUME FreeSlots # {}
  PROVE  Min(FreeSlots) \in Slots \ slots
<1>1. FreeSlots \in SUBSET Nat
  BY PagingAssumption DEF FreeSlots, Slots
<1> QED BY <1>1, MinNat DEF FreeSlots

\* Frames and slots are numbers, and the kernel's directory is a frame.
LEMMA Numbers == /\ Usable \subseteq Nat \ {0} /\ Slots \subseteq Nat
                 /\ {KERNEL, KERNEL + 1, KERNEL + 2} \subseteq Usable
BY PagingAssumption DEF Usable, Slots, KERNEL

\* paging_init and swap_init establish the invariant.
LEMMA PagingInitInv == Init => PagingInv
<1> SUFFICES ASSUME Init PROVE PagingInv
  OBVIOUS
<1> USE DEF Init, map_identity_region, map_kernel_higher_half, swap_init
<1>1. dir[KERNEL] = [low |-> KERNEL + 1, kernel |-> KERNEL + 2, heap |-> 0]
      /\ DOMAIN dir = {KERNEL}
  OBVIOUS
<1>2. Types
  BY Numbers, PagingAssumption DEF Types, PTE, Page, Absent, NoSpawn
<1>3. IdentSlots = {} /\ HeapSlots = {} /\ PageFrames = {} /\ Held("page") = {}
      /\ Held("swap") = {}
  BY DEF IdentSlots, HeapSlots, PageFrames, Held, Page, Absent
<1>4. Directories = {KERNEL} /\ Tables = {KERNEL + 1, KERNEL + 2}
  BY <1>1, Numbers, PagingAssumption DEF Directories, Tables, NoSpawn, KERNEL
<1>5. Layout
  BY <1>1, <1>3, <1>4, Numbers DEF Layout, Absent
<1>6. FramesExact
  BY <1>3, <1>4, PagingAssumption DEF FramesExact, KERNEL
<1>7. SlotsExact /\ SwapKeepsData /\ HaltsOnlyExhausted
  BY <1>3 DEF SlotsExact, SwapKeepsData, HaltsOnlyExhausted, Absent
<1> QED BY <1>2, <1>5, <1>6, <1>7 DEF PagingInv

\* alloc_frame_zero that finds no frame stops the kernel and leaves the slots and the
\* contents of the pages as the properties want them.
LEMMA ExhaustedInv ==
  ASSUME PagingInv, Running, NEW F \in SUBSET Usable, ~Zeroable(F), Exhausted(F)
  PROVE  PagingInv'
<1>1. cpu' # "run" /\ used' = Usable \ F
      /\ UNCHANGED <<heap, data, disk, history, top, spawn>>
  BY DEF Exhausted, paging_evict_page
<1>2. /\ Layout' /\ FramesExact'
  BY <1>1 DEF Layout, FramesExact, Running
<1>3. SwapKeepsData'
  BY <1>1 DEF PagingInv, SwapKeepsData, history
<1>4. HaltsOnlyExhausted'
  <2>1. Free' = F
    BY <1>1 DEF Free, Usable
  <2>2. ASSUME NEW f \in F PROVE f >= IDENT
    <3>1. Lowest(F) \in F /\ Lowest(F) <= f
      BY LowestFree
    <3>2. f \in Nat /\ Lowest(F) \in Nat /\ IDENT \in Nat
      BY <3>1, Numbers, PagingAssumption
    <3> QED BY <3>1, <3>2 DEF Zeroable
  <2> QED BY <2>1, <2>2 DEF HaltsOnlyExhausted
<1>5. IdentSlots = {}
  BY DEF PagingInv, Layout
<1>6. CASE UNCHANGED <<slots, ident>>
  <2>1. Types'
    BY <1>1, <1>6 DEF PagingInv, Types
  <2>2. SlotsExact'
    BY <1>1, <1>6 DEF PagingInv, SlotsExact, HeapSlots, IdentSlots, Held, history
  <2> QED BY <1>2, <1>3, <1>4, <2>1, <2>2 DEF PagingInv
<1>7. ASSUME NEW v \in 0 .. IDENT - 1, NEW o, paging_evict_page(v, o) PROVE PagingInv'
  <2>1. PICK s \in Slots : /\ s \notin slots /\ slots' = slots \cup {s}
                           /\ ident' = [ident EXCEPT ![v] = Swapped(s)]
    BY <1>7, LowestSlot DEF paging_evict_page, swap_out
  <2>2. Types'
    BY <1>1, <2>1, Numbers DEF PagingInv, Types, PTE, Swapped
  <2>3. IdentSlots' = {s}
    <3>1. ident \in [0 .. IDENT - 1 -> PTE] /\ ident' \in [0 .. IDENT - 1 -> PTE]
      BY <2>2 DEF PagingInv, Types
    <3>2. ident'[v] = Swapped(s) /\ \A w \in 0 .. IDENT - 1 : w # v => ident'[w] = ident[w]
      BY <2>1, <3>1
    <3>3. \A w \in 0 .. IDENT - 1 : ident[w].kind # "swap"
      BY <1>5, <3>1 DEF IdentSlots
    <3> QED BY <3>1, <3>2, <3>3 DEF IdentSlots, Swapped
  <2>4. SlotsExact'
    BY <1>1, <1>5, <2>1, <2>3 DEF PagingInv, SlotsExact, HeapSlots, Held, history
  <2> QED BY <1>2, <1>3, <1>4, <2>2, <2>4 DEF PagingInv
<1> QED BY <1>6, <1>7 DEF Exhausted
-----------------------------------------------------------------------------
\* paging_swap_out keeps the invariant.
LEMMA SwapOutInv ==
  ASSUME PagingInv, NEW i \in 1 .. PAGES, NEW o, paging_swap_out(i, o)
  PROVE  PagingInv'
<1> USE DEF history
<1>1. PICK s \in Slots : /\ s \notin slots /\ slots' = slots \cup {s}
                         /\ disk' = IF o = "ok" THEN [disk EXCEPT ![s] = data[heap[i].at]]
                                               ELSE disk
                         /\ heap' = [heap EXCEPT ![i] = Swapped(s)]
  BY LowestSlot DEF paging_swap_out, swap_out
<1>2. /\ Running /\ heap[i].kind = "page" /\ used' = used \ {heap[i].at}
      /\ spoiled' = IF o = "ok" THEN spoiled ELSE spoiled \cup {i}
      /\ UNCHANGED <<dir, cur, ident, top, data, spawn, cpu, dropped>>
  BY DEF paging_swap_out
<1>3. /\ heap'[i] = Swapped(s)
      /\ \A j \in 1 .. PAGES : j # i => heap'[j] = heap[j]
  BY <1>1 DEF PagingInv, Types
<1>4. Held("page")' = Held("page") \ {i} /\ Held("swap")' = Held("swap") \cup {i}
  BY <1>3 DEF Held, Swapped
<1>5. Types'
  <2>1. heap' \in [1 .. PAGES -> PTE]
    BY <1>1, Numbers DEF PagingInv, Types, PTE, Swapped
  <2>2. disk' \in [Slots -> Nat]
    <3>1. data[heap[i].at] \in Nat
      BY <1>2 DEF PagingInv, Types
    <3> QED BY <1>1, <3>1 DEF PagingInv, Types
  <2> QED BY <1>1, <1>2, <1>3, <2>1, <2>2 DEF PagingInv, Types, Swapped
<1>6. Layout'
  BY <1>2, <1>3 DEF PagingInv, Layout, Running, IdentSlots, Directories, Swapped
<1>7. PageFrames' = PageFrames \ {heap[i].at}
  BY <1>2, <1>3, <1>4 DEF PageFrames, PagingInv, FramesExact, Held
<1>8. FramesExact'
  <2>1. UNCHANGED <<Directories, Tables>>
    BY <1>2 DEF Directories, Tables
  <2>2. heap[i].at \in PageFrames
    BY <1>2 DEF PageFrames, Held
  <2>3. used' = (Directories \cup Tables \cup PageFrames)'
    BY <1>2, <1>7, <2>1, <2>2 DEF PagingInv, FramesExact
  <2>4. \A j, k \in Held("page")' : j # k => heap'[j].at # heap'[k].at
    BY <1>2, <1>3, <1>4 DEF PagingInv, FramesExact, Held
  <2> QED BY <1>2, <1>7, <2>1, <2>3, <2>4 DEF PagingInv, FramesExact
<1>9. HeapSlots' = HeapSlots \cup {s}
  BY <1>2, <1>3, <1>4 DEF HeapSlots, Held, Swapped
<1>10. SlotsExact'
  <2>1. SlotsExact /\ IdentSlots' = IdentSlots /\ dropped' = dropped
    BY <1>2 DEF PagingInv, IdentSlots
  <2>2. /\ slots' = (HeapSlots \cup IdentSlots \cup dropped)'
        /\ (HeapSlots \cap (IdentSlots \cup dropped) = {} /\ IdentSlots \cap dropped = {})'
    BY <1>1, <1>9, <2>1 DEF SlotsExact
  <2>3. \A j \in Held("swap") : j # i /\ heap'[j].at = heap[j].at /\ heap[j].at # s
    BY <1>1, <1>2, <1>3, <2>1 DEF SlotsExact, HeapSlots, Held
  <2>4. heap'[i].at = s
    BY <1>3 DEF Swapped
  <2>5. \A j, k \in Held("swap")' : j # k => heap'[j].at # heap'[k].at
    BY <1>4, <2>1, <2>3, <2>4 DEF SlotsExact
  <2> QED BY <2>2, <2>5 DEF SlotsExact
<1>11. SwapKeepsData'
  <2>1. \A j \in Held("swap") : heap[j].at # s
    BY <1>1 DEF PagingInv, SlotsExact, HeapSlots
  <2>2. disk \in [Slots -> Nat] /\ \A t \in Slots : t # s => disk'[t] = disk[t]
    BY <1>1 DEF PagingInv, Types
  <2>3. \A j \in Held("swap") : disk'[heap[j].at] = disk[heap[j].at]
    BY <2>1, <2>2 DEF PagingInv, Types, Held
  <2>4. o = "ok" => disk'[s] = data[heap[i].at]
    BY <1>1, <2>2
  <2> QED BY <1>2, <1>3, <2>3, <2>4 DEF PagingInv, SwapKeepsData, Held, Swapped
<1>12. HaltsOnlyExhausted'
  BY <1>2 DEF HaltsOnlyExhausted, Running
<1> QED BY <1>5, <1>6, <1>8, <1>10, <1>11, <1>12 DEF PagingInv

\* page_fault_handler keeps the invariant.
LEMMA PageFaultInv ==
  ASSUME PagingInv, NEW i \in 1 .. PAGES, NEW o, page_fault_handler(i, o)
  PROVE  PagingInv'
<1>1. CASE ~Zeroable(Free) /\ Exhausted(Free)
  BY <1>1, ExhaustedInv DEF page_fault_handler, Free
<1>2. CASE Zeroable(Free)
  <2>1. PICK f \in Usable \ used :
          /\ used' = used \cup {f} /\ heap' = [heap EXCEPT ![i] = Page(f)]
          /\ data' = [data EXCEPT ![f] = swap_in(heap[i].at, o)]
    BY <1>2, LowestFree DEF Free, Zeroable, page_fault_handler
  <2>2. /\ Running /\ heap[i].kind = "swap" /\ slots' = slots \ {heap[i].at}
        /\ spoiled' = IF o = "ok" THEN spoiled ELSE spoiled \cup {i}
        /\ UNCHANGED <<dir, cur, ident, top, disk, spawn, cpu, dropped>>
    BY <1>2 DEF page_fault_handler, swap_free
  <2>3. /\ heap'[i] = Page(f)
        /\ \A j \in 1 .. PAGES : j # i => heap'[j] = heap[j]
    BY <2>1 DEF PagingInv, Types
  <2>4. Held("page")' = Held("page") \cup {i} /\ Held("swap")' = Held("swap") \ {i}
    BY <2>3 DEF Held, Page
  <2>5. Types'
    <3>1. heap' \in [1 .. PAGES -> PTE]
      BY <2>1, Numbers DEF PagingInv, Types, PTE, Page
    <3>2. data' \in [Usable -> Nat]
      BY <2>1, <2>2 DEF PagingInv, Types, swap_in
    <3> QED BY <2>1, <2>2, <2>3, <3>1, <3>2 DEF PagingInv, Types, Page
  <2>6. Layout'
    BY <2>2, <2>3 DEF PagingInv, Layout, Running, IdentSlots, Directories, Page
  <2>7. PageFrames' = PageFrames \cup {f}
    BY <2>2, <2>3, <2>4 DEF PageFrames, Held, Page
  <2>8. FramesExact'
    <3>1. UNCHANGED <<Directories, Tables>>
      BY <2>2 DEF Directories, Tables
    <3>2. \A j, k \in Held("page")' : j # k => heap'[j].at # heap'[k].at
      BY <2>1, <2>2, <2>3, <2>4 DEF PagingInv, FramesExact, Held, PageFrames, Page
    <3> QED BY <2>1, <2>2, <2>7, <3>1, <3>2 DEF PagingInv, FramesExact
  <2>9. HeapSlots' = HeapSlots \ {heap[i].at}
    BY <2>2, <2>3, <2>4 DEF HeapSlots, Held, PagingInv, SlotsExact
  <2>10. SlotsExact'
    <3>1. heap[i].at \in HeapSlots /\ UNCHANGED IdentSlots
      BY <2>2 DEF HeapSlots, Held, IdentSlots
    <3> QED BY <2>2, <2>3, <2>4, <2>9, <3>1 DEF PagingInv, SlotsExact, Held
  <2>11. SwapKeepsData'
    <3>1. \A j \in Held("page") : heap[j].at \in used
      BY <2>2 DEF PagingInv, FramesExact, PageFrames
    <3> QED BY <2>1, <2>2, <2>3, <3>1
        DEF PagingInv, SwapKeepsData, Held, Types, Page, swap_in
  <2>12. HaltsOnlyExhausted'
    BY <2>2 DEF HaltsOnlyExhausted, Running
  <2> QED BY <2>5, <2>6, <2>8, <2>10, <2>11, <2>12 DEF PagingInv
<1> QED BY <1>1, <1>2 DEF page_fault_handler

\* Growing the heap keeps the invariant, whether a table is needed or not.
LEMMA GrowInv == PagingInv /\ heap_grow => PagingInv'
<1> SUFFICES ASSUME PagingInv, heap_grow PROVE PagingInv'
  OBVIOUS
<1> DEFINE F == Free \ {Lowest(Free)}
           i == top + 1
<1>1. PICK f \in Usable \ used : f = Lowest(Free)
  BY LowestFree DEF heap_grow, Free
<1>2. CASE ~Zeroable(F) /\ Exhausted(F)
  BY <1>2, ExhaustedInv DEF heap_grow, Free
<1>3. CASE /\ paging_map(i, f, F) /\ top' = i
           /\ data' = [data EXCEPT ![f] = i] /\ spoiled' = spoiled \ {i}
           /\ UNCHANGED <<cur, ident, swap, spawn, cpu, dropped>>
  <2>1. Running /\ i \in 1 .. PAGES /\ i \in Nat /\ cur = KERNEL /\ heap[i].kind = "none"
    BY PagingAssumption DEF heap_grow, PagingInv, Types, Layout
  <2>2. /\ heap' = [heap EXCEPT ![i] = Page(f)] /\ UNCHANGED <<slots, disk, dropped, cpu, spawn>>
        /\ heap'[i] = Page(f) /\ \A j \in 1 .. PAGES : j # i => heap'[j] = heap[j]
    BY <1>3, <2>1 DEF paging_map, swap, PagingInv, Types
  <2>3. Held("page")' = Held("page") \cup {i} /\ UNCHANGED Held("swap")
    BY <2>1, <2>2 DEF Held, Page
  <2>4. PageFrames' = PageFrames \cup {f} /\ UNCHANGED <<HeapSlots, IdentSlots, Directories>>
    BY <1>3, <2>1, <2>2, <2>3 DEF PageFrames, HeapSlots, IdentSlots, Directories, Held, Page
  <2>5. PICK g \in {0} \cup Usable :
          /\ g # f /\ g \notin PageFrames \cup Directories \cup {KERNEL + 1, KERNEL + 2}
          /\ used' = (Directories \cup {KERNEL + 1, KERNEL + 2, g} \cup PageFrames \cup {f}) \ {0}
          /\ dir'[KERNEL] = [low |-> KERNEL + 1, kernel |-> KERNEL + 2, heap |-> g]
          /\ DOMAIN dir' = DOMAIN dir
    <3>1. /\ dir[KERNEL] \in [low : {KERNEL + 1}, kernel : {KERNEL + 2},
                              heap : ({0} \cup Usable) \ {KERNEL + 1, KERNEL + 2}]
          /\ KERNEL \in DOMAIN dir
      BY <2>1, Numbers DEF PagingInv, Layout, Directories
    <3>2. /\ Tables = {KERNEL + 1, KERNEL + 2, dir[KERNEL].heap} \ {0}
          /\ used = Directories \cup Tables \cup PageFrames /\ 0 \notin used
          /\ Tables \cap (Directories \cup PageFrames) = {}
      BY <2>1, <3>1, Numbers DEF Tables, PagingInv, FramesExact, Types
    <3>3. CASE dir[cur].heap = 0
      <4>1. PICK g \in Usable \ (used \cup {f}) :
              /\ used' = used \cup {f, g} /\ dir' = [dir EXCEPT ![KERNEL].heap = g]
        <5>1. F \in SUBSET Usable /\ F = Usable \ (used \cup {f})
          BY <1>1 DEF Free
        <5>2. F # {} => Lowest(F) \in F
          BY <5>1, LowestFree
        <5> QED BY <1>3, <2>1, <3>3, <5>1, <5>2 DEF paging_map, Zeroable
      <4>2. dir'[KERNEL] = [low |-> KERNEL + 1, kernel |-> KERNEL + 2, heap |-> g]
            /\ DOMAIN dir' = DOMAIN dir
        BY <3>1, <4>1
      <4>3. used' = (Directories \cup {KERNEL + 1, KERNEL + 2, g} \cup PageFrames \cup {f}) \ {0}
        BY <2>1, <3>2, <3>3, <4>1, Numbers
      <4>4. g \notin PageFrames \cup Directories \cup {KERNEL + 1, KERNEL + 2} /\ g # f
        BY <3>2, <4>1, Numbers
      <4> QED BY <4>1, <4>2, <4>3, <4>4
    <3>4. CASE dir[cur].heap # 0
      <4>1. used' = used \cup {f} /\ dir' = dir
        BY <1>3, <3>4 DEF paging_map
      <4>2. dir'[KERNEL] = [low |-> KERNEL + 1, kernel |-> KERNEL + 2, heap |-> dir[KERNEL].heap]
        BY <3>1, <4>1
      <4>3. dir[KERNEL].heap # KERNEL + 1 /\ dir[KERNEL].heap # KERNEL + 2
        BY <3>1
      <4>4. dir[KERNEL].heap \in Tables /\ dir[KERNEL].heap \in Usable
        BY <2>1, <3>1, <3>2, <3>4
      <4>5. used' = (Directories \cup {KERNEL + 1, KERNEL + 2, dir[KERNEL].heap}
                       \cup PageFrames \cup {f}) \ {0}
        BY <3>2, <4>1, <4>4, Numbers
      <4>6. f # dir[KERNEL].heap
        BY <3>2, <4>4
      <4> QED BY <3>2, <4>1, <4>2, <4>3, <4>4, <4>5, <4>6
    <3> QED BY <3>3, <3>4
  <2>6. Types'
    <3>1. heap' \in [1 .. PAGES -> PTE]
      BY <2>2, Numbers DEF PagingInv, Types, PTE, Page
    <3>2. data' \in [Usable -> Nat]
      BY <1>3, <2>1 DEF PagingInv, Types
    <3>3. used' \in SUBSET Usable
      BY <2>1, <2>5, Numbers DEF PagingInv, Types, FramesExact
    <3> QED BY <1>3, <2>1, <2>2, <3>1, <3>2, <3>3 DEF PagingInv, Types, Page
  <2>7. dir'[KERNEL] \in [low : {KERNEL + 1}, kernel : {KERNEL + 2},
                          heap : ({0} \cup Usable) \ {KERNEL + 1, KERNEL + 2}]
    BY <2>5
  <2>8. Layout'
    <3>1. \A j \in 1 .. PAGES : j <= top' <=> heap'[j].kind # "none"
      <4>1. top \in Nat /\ \A j \in 1 .. PAGES : j \in Nat /\ (j <= top <=> heap[j].kind # "none")
        BY <2>1, PagingAssumption DEF PagingInv, Layout, Types
      <4>2. \A j \in 1 .. PAGES : j <= top' <=> (j <= top \/ j = i)
        BY <1>3, <4>1
      <4> QED BY <2>1, <2>2, <4>1, <4>2 DEF Page
    <3>2. \A d \in DOMAIN dir \ {KERNEL} : dir'[d] = dir[d]
      BY <1>3, <2>1 DEF paging_map
    <3>3. spawn.pd # 0 => spawn.pd \in DOMAIN dir
      BY <2>1 DEF PagingInv, Layout, Directories
    <3>4. spawn = NoSpawn \/ (spawn.pd \in Usable \ {KERNEL} /\ dir'[spawn.pd].low = 0)
      <4>1. spawn = NoSpawn \/ (spawn.pd \in Usable \ {KERNEL} /\ dir[spawn.pd].low = 0)
        BY <2>1 DEF PagingInv, Layout
      <4>2. \A d \in Usable : d # 0
        BY Numbers DEF Usable
      <4> QED BY <3>2, <3>3, <4>1, <4>2
    <3>5. cur = KERNEL /\ DOMAIN dir = Directories /\ IdentSlots = {}
      BY <2>1 DEF PagingInv, Layout
    <3>6. UNCHANGED <<cur, spawn, IdentSlots, Directories>>
      BY <1>3, <2>1, <2>4
    <3> QED BY <2>5, <2>7, <3>1, <3>4, <3>5, <3>6 DEF Layout
  <2>9. Tables' = {KERNEL + 1, KERNEL + 2, g} \ {0}
    BY <2>5, Numbers DEF Tables
  <2>10. FramesExact'
    <3>1. used' = (Directories \cup Tables \cup PageFrames)'
      BY <2>4, <2>5, <2>9, Numbers, <2>1 DEF PagingInv, FramesExact, Types, Directories
    <3>2. /\ f \notin Directories \cup {KERNEL + 1, KERNEL + 2}
          /\ PageFrames \cap (Directories \cup {KERNEL + 1, KERNEL + 2}) = {}
          /\ Directories \cap {KERNEL + 1, KERNEL + 2} = {}
      BY <2>1, Numbers DEF PagingInv, FramesExact, Tables, Layout
    <3>3. \A j, k \in Held("page")' : j # k => heap'[j].at # heap'[k].at
      BY <2>1, <2>2, <2>3 DEF PagingInv, FramesExact, PageFrames, Held, Page
    <3> QED BY <2>1, <2>2, <2>4, <2>5, <2>9, <3>1, <3>2, <3>3 DEF FramesExact
  <2>11. SlotsExact'
    BY <2>1, <2>2, <2>3, <2>4 DEF PagingInv, SlotsExact, Held
  <2>12. SwapKeepsData'
    <3>1. \A j \in Held("page") : heap[j].at \in used
      BY <2>1 DEF PagingInv, FramesExact, PageFrames
    <3> QED BY <1>3, <2>1, <2>2, <3>1 DEF PagingInv, SwapKeepsData, Held, Types, Page
  <2>13. HaltsOnlyExhausted'
    BY <2>1, <2>2 DEF HaltsOnlyExhausted, Running
  <2> QED BY <2>6, <2>8, <2>10, <2>11, <2>12, <2>13 DEF PagingInv
<1> QED BY <1>1, <1>2, <1>3 DEF heap_grow

\* heap_trim keeps the invariant; the slot of a page that is swapped out stays marked.
LEMMA TrimInv == PagingInv /\ heap_trim => PagingInv'
<1> SUFFICES ASSUME PagingInv, heap_trim PROVE PagingInv'
  OBVIOUS
<1>1. /\ Running /\ top \in 1 .. PAGES /\ heap[top].kind # "none" /\ top' = top - 1
      /\ heap' = [heap EXCEPT ![top] = Absent]
      /\ UNCHANGED <<dir, cur, ident, data, swap, spawn, cpu, spoiled>>
  BY PagingAssumption DEF heap_trim, paging_unmap, PagingInv, Types, Layout
<1>2. /\ heap'[top] = Absent /\ \A j \in 1 .. PAGES : j # top => heap'[j] = heap[j]
  BY <1>1 DEF PagingInv, Types
<1>3. Held("page")' = Held("page") \ {top} /\ Held("swap")' = Held("swap") \ {top}
  BY <1>1, <1>2 DEF Held, Absent
<1>4. UNCHANGED <<IdentSlots, Directories, Tables>>
  BY <1>1 DEF IdentSlots, Directories, Tables
<1>5. Types'
  <2>1. heap' \in [1 .. PAGES -> PTE]
    BY <1>1 DEF PagingInv, Types, PTE, Absent
  <2>2. top' \in 0 .. PAGES /\ used' \in SUBSET Usable
    BY <1>1, PagingAssumption DEF heap_trim, PagingInv, Types
  <2> QED BY <1>1, <1>2, <2>1, <2>2 DEF PagingInv, Types, Absent, swap
<1>6. Layout'
  BY <1>1, <1>2, <1>4 DEF PagingInv, Layout, Types, Absent, Running
<1>7. SwapKeepsData'
  BY <1>1, <1>2 DEF PagingInv, SwapKeepsData, Absent, swap
<1>8. HaltsOnlyExhausted'
  BY <1>1 DEF HaltsOnlyExhausted, Running
<1>9. CASE heap[top].kind = "page"
  <2>1. used' = used \ {heap[top].at} /\ UNCHANGED dropped
    BY <1>9 DEF heap_trim, paging_virt_to_phys
  <2>2. PageFrames' = PageFrames \ {heap[top].at} /\ heap[top].at \in PageFrames
    BY <1>1, <1>2, <1>3, <1>9 DEF PageFrames, Held, PagingInv, FramesExact
  <2>3. UNCHANGED HeapSlots /\ UNCHANGED Held("swap")
    BY <1>2, <1>3, <1>9 DEF HeapSlots, Held
  <2>4. FramesExact'
    BY <1>1, <1>2, <1>3, <1>4, <2>1, <2>2 DEF PagingInv, FramesExact, Held
  <2>5. SlotsExact'
    BY <1>1, <1>2, <1>4, <1>9, <2>1, <2>3 DEF PagingInv, SlotsExact, Held, swap
  <2> QED BY <1>5, <1>6, <1>7, <1>8, <2>4, <2>5 DEF PagingInv
<1>10. CASE heap[top].kind = "swap"
  <2>1. used' = used \ {0} /\ dropped' = dropped \cup {heap[top].at}
    BY <1>10 DEF heap_trim, paging_virt_to_phys
  <2>2. used' = used
    BY <2>1, Numbers DEF PagingInv, Types
  <2>3. UNCHANGED PageFrames /\ UNCHANGED Held("page")
    BY <1>2, <1>3, <1>10 DEF PageFrames, Held
  <2>4. HeapSlots' = HeapSlots \ {heap[top].at} /\ heap[top].at \in HeapSlots
    BY <1>1, <1>2, <1>3, <1>10 DEF HeapSlots, Held, PagingInv, SlotsExact
  <2>5. FramesExact'
    BY <1>1, <1>2, <1>4, <1>10, <2>2, <2>3 DEF PagingInv, FramesExact, Held
  <2>6. SlotsExact'
    BY <1>1, <1>2, <1>3, <1>4, <2>1, <2>4 DEF PagingInv, SlotsExact, Held, swap
  <2> QED BY <1>5, <1>6, <1>7, <1>8, <2>5, <2>6 DEF PagingInv
<1> QED BY <1>1, <1>9, <1>10 DEF PagingInv, Types, PTE

\* A step that leaves the heap, the slots, their contents and the identity map alone keeps
\* what is said of them.
LEMMA Untouched ==
  ASSUME PagingInv, UNCHANGED <<mapped, data, swap, history>>,
         spawn' \in [at : {"none", "kstack", "ustack", "switch"}, pd : Nat],
         used' \in SUBSET Usable
  PROVE  /\ Types' /\ SlotsExact' /\ SwapKeepsData'
         /\ UNCHANGED <<PageFrames, Held("page"), IdentSlots>>
<1> USE DEF mapped, swap, history
<1>1. Types'
  BY DEF PagingInv, Types
<1>2. UNCHANGED <<PageFrames, HeapSlots, IdentSlots, Held("page"), Held("swap")>>
  BY DEF PageFrames, HeapSlots, IdentSlots, Held
<1>3. SlotsExact' /\ SwapKeepsData'
  BY <1>2 DEF PagingInv, SlotsExact, SwapKeepsData
<1> QED BY <1>1, <1>2, <1>3

\* paging_create_directory keeps the invariant.
LEMMA CreateInv == PagingInv /\ spawn_create => PagingInv'
<1> SUFFICES ASSUME PagingInv, spawn_create PROVE PagingInv'
  OBVIOUS
<1>1. CASE ~Zeroable(Free) /\ Exhausted(Free)
  BY <1>1, ExhaustedInv DEF spawn_create, Free
<1>2. CASE Zeroable(Free)
  <2>1. PICK f \in Usable \ used :
          /\ used' = used \cup {f} /\ spawn' = [at |-> "kstack", pd |-> f]
          /\ dir' = [d \in DOMAIN dir \cup {f} |->
                       IF d \in DOMAIN dir THEN dir[d] ELSE [dir[cur] EXCEPT !.low = 0]]
    BY <1>2, LowestFree DEF Free, Zeroable, spawn_create
  <2>2. Running /\ spawn = NoSpawn /\ UNCHANGED <<cur, mapped, data, swap, cpu, history>>
    BY <1>2 DEF spawn_create
  <2>3. /\ Types' /\ SlotsExact' /\ SwapKeepsData'
        /\ UNCHANGED <<PageFrames, Held("page"), IdentSlots>>
    BY <2>1, <2>2, Numbers, Untouched DEF PagingInv, Types
  <2>4. /\ Directories = {KERNEL} /\ Directories' = {KERNEL, f} /\ f # KERNEL
        /\ DOMAIN dir = {KERNEL} /\ cur = KERNEL
    BY <2>1, <2>2, Numbers DEF Directories, NoSpawn, PagingInv, Layout, FramesExact
  <2>5. DOMAIN dir' = {KERNEL, f} /\ dir'[KERNEL] = dir[KERNEL] /\ dir'[f].low = 0
    <3>1. DOMAIN dir' = {KERNEL, f} /\ dir'[KERNEL] = dir[KERNEL]
          /\ dir'[f] = [dir[KERNEL] EXCEPT !.low = 0]
      BY <2>1, <2>4
    <3> QED BY <2>2, <3>1 DEF PagingInv, Layout
  <2>6. Layout'
    BY <2>1, <2>2, <2>3, <2>4, <2>5 DEF PagingInv, Layout, Running, mapped
  <2>7. Tables' = Tables
    BY <2>5 DEF Tables
  <2>8. FramesExact'
    BY <2>1, <2>2, <2>3, <2>4, <2>7 DEF PagingInv, FramesExact, mapped
  <2> QED BY <2>2, <2>3, <2>6, <2>8 DEF PagingInv, HaltsOnlyExhausted, Running
<1> QED BY <1>1, <1>2 DEF spawn_create

\* A spawn that gets no stack gives its directory back, and keeps the invariant.
LEMMA NoStackInv == PagingInv /\ spawn_no_stack => PagingInv'
<1> SUFFICES ASSUME PagingInv, spawn_no_stack PROVE PagingInv'
  OBVIOUS
<1>1. /\ Running /\ spawn.pd \in Usable \ {KERNEL} /\ cur = KERNEL /\ spawn' = NoSpawn
      /\ UNCHANGED <<cur, mapped, data, swap, cpu, history>>
  BY DEF spawn_no_stack, PagingInv, Layout, NoSpawn
<1>2. /\ used' = used \ {spawn.pd}
      /\ dir' = [e \in DOMAIN dir \ {spawn.pd} |-> dir[e]]
  BY <1>1 DEF spawn_no_stack, paging_destroy_directory
<1>3. /\ Types' /\ SlotsExact' /\ SwapKeepsData'
      /\ UNCHANGED <<PageFrames, Held("page"), IdentSlots>>
  BY <1>1, <1>2, Untouched DEF PagingInv, Types, NoSpawn
<1>4. Directories = {KERNEL, spawn.pd} /\ Directories' = {KERNEL}
  BY <1>1, Numbers DEF Directories, NoSpawn
<1>5. DOMAIN dir' = {KERNEL} /\ dir'[KERNEL] = dir[KERNEL]
  BY <1>1, <1>2, <1>4 DEF PagingInv, Layout
<1>6. Layout'
  BY <1>1, <1>3, <1>4, <1>5 DEF PagingInv, Layout, Running, mapped
<1>7. Tables' = Tables
  BY <1>5 DEF Tables
<1>8. FramesExact'
  BY <1>1, <1>2, <1>3, <1>4, <1>7 DEF PagingInv, FramesExact, mapped
<1> QED BY <1>1, <1>3, <1>6, <1>8 DEF PagingInv, HaltsOnlyExhausted, Running

\* Every step keeps the invariant.
LEMMA PagingNextInv == PagingInv /\ [Next]_vars => PagingInv'
<1> SUFFICES ASSUME PagingInv, [Next]_vars PROVE PagingInv'
  OBVIOUS
<1>1. CASE pull \/ UNCHANGED vars
  <2>1. UNCHANGED <<used, dir, cur, mapped, data, slots, disk, spawn, cpu, history>>
    BY <1>1 DEF pull, vars, swap
  <2>2. UNCHANGED <<IdentSlots, HeapSlots, Directories, Tables, PageFrames, Held("page"),
                    Held("swap")>>
    BY <2>1 DEF mapped, IdentSlots, HeapSlots, Directories, Tables, PageFrames, Held
  <2>3. Types'
    BY <2>1 DEF mapped, PagingInv, Types
  <2>4. Layout' /\ FramesExact'
    BY <2>1, <2>2 DEF mapped, PagingInv, Layout, FramesExact, Running
  <2>5. SlotsExact' /\ SwapKeepsData' /\ HaltsOnlyExhausted'
    BY <2>1, <2>2 DEF mapped, history, PagingInv, SlotsExact, SwapKeepsData,
       HaltsOnlyExhausted, Free
  <2> QED BY <2>3, <2>4, <2>5 DEF PagingInv
<1>2. ASSUME NEW i \in 1 .. PAGES, NEW o, paging_swap_out(i, o) \/ page_fault_handler(i, o)
      PROVE  PagingInv'
  BY <1>2, SwapOutInv, PageFaultInv
<1>3. CASE spawn_stack
  <2>1. /\ spawn'.pd = spawn.pd /\ spawn # NoSpawn /\ spawn' # NoSpawn
        /\ spawn' \in [at : {"none", "kstack", "ustack", "switch"}, pd : Nat]
    BY <1>3 DEF spawn_stack, PagingInv, Types, NoSpawn
  <2>2. Running /\ UNCHANGED <<used, dir, cur, mapped, data, swap, cpu, history>>
    BY <1>3 DEF spawn_stack
  <2>3. /\ Types' /\ SlotsExact' /\ SwapKeepsData'
        /\ UNCHANGED <<PageFrames, Held("page"), IdentSlots>>
    BY <2>1, <2>2, Untouched DEF PagingInv, Types
  <2>4. UNCHANGED <<Directories, Tables>>
    BY <2>1, <2>2 DEF Directories, Tables
  <2>5. Layout' /\ FramesExact'
    <3>1. Layout'
      BY <2>1, <2>2, <2>3, <2>4 DEF PagingInv, Layout, mapped
    <3>2. FramesExact'
      BY <2>2, <2>3, <2>4 DEF PagingInv, FramesExact, Running, mapped
    <3> QED BY <3>1, <3>2
  <2> QED BY <2>2, <2>3, <2>5 DEF PagingInv, HaltsOnlyExhausted, Running
<1>4. CASE paging_switch_directory
  <2>1. /\ cpu' = "reset" /\ spawn' = NoSpawn
        /\ UNCHANGED <<used, dir, mapped, data, swap, history>>
    BY <1>4 DEF paging_switch_directory, PagingInv, Layout, NoSpawn
  <2>2. Types' /\ SlotsExact' /\ SwapKeepsData'
    BY <2>1, Untouched DEF PagingInv, Types, NoSpawn
  <2> QED BY <2>1, <2>2
      DEF PagingInv, Layout, FramesExact, HaltsOnlyExhausted, Running
<1> QED BY <1>1, <1>2, <1>3, <1>4, GrowInv, TrimInv, CreateInv, NoStackInv DEF Next
-----------------------------------------------------------------------------
\* The invariant of directories, frames, slots and contents.
THEOREM PagingInvariant == Spec => []PagingInv
BY PagingInitInv, PagingNextInv, PTL DEF Spec

\* No frame is lost or used twice while the kernel runs.
THEOREM PagingFramesExact == Spec => []FramesExact
<1>1. PagingInv => FramesExact
  BY DEF PagingInv
<1> QED BY <1>1, PagingInvariant, PTL

\* No swap slot is shared, and none is marked without a page or a dropped page.
THEOREM PagingSlotsExact == Spec => []SlotsExact
<1>1. PagingInv => SlotsExact
  BY DEF PagingInv
<1> QED BY <1>1, PagingInvariant, PTL

\* A page comes back from swap with what was written to it.
THEOREM PagingSwapKeepsData == Spec => []SwapKeepsData
<1>1. PagingInv => SwapKeepsData
  BY DEF PagingInv
<1> QED BY <1>1, PagingInvariant, PTL

\* alloc_frame_zero gives up only when the frames below the limit are all in use.
THEOREM PagingHaltsOnlyExhausted == Spec => []HaltsOnlyExhausted
<1>1. PagingInv => HaltsOnlyExhausted
  BY DEF PagingInv
<1> QED BY <1>1, PagingInvariant, PTL
=============================================================================
