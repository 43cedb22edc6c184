----------------------------- MODULE HeapProofs -----------------------------
(***************************************************************************)
(* The list of blocks of the kernel heap tiles the heap, its pages and     *)
(* frames are accounted for, and kmalloc never hands out memory that is    *)
(* held: for every size of the heap, of its headers and pages, every set   *)
(* of request sizes and every number of frames.                            *)
(***************************************************************************)
EXTENDS Heap, TLAPS

\* Quotients and remainders.
LEMMA DivMod ==
  ASSUME NEW v \in Int, NEW a \in Nat \ {0}
  PROVE  /\ v \div a \in Int /\ (v \div a) * a <= v /\ v < (v \div a + 1) * a
         /\ v % a \in 0 .. a - 1
         /\ v % a = 0 => v = (v \div a) * a
<1>1. v \div a \in Int /\ (v \div a) * a <= v /\ v < (v \div a + 1) * a
  OBVIOUS
<1>2. v % a \in 0 .. a - 1
  OBVIOUS
<1>3. v % a = 0 => v = (v \div a) * a
  OBVIOUS
<1> QED BY <1>1, <1>2, <1>3, Zenon

\* A multiple leaves no remainder.
LEMMA MultipleMod == ASSUME NEW k \in Int, NEW a \in Nat \ {0} PROVE (k * a) % a = 0
  OBVIOUS

\* Factors are ordered as the multiples are.
LEMMA FactorLess ==
  ASSUME NEW j \in Int, NEW k \in Int, NEW a \in Nat \ {0}, j * a < k * a
  PROVE  j < k
<1>1. ASSUME j >= k PROVE FALSE
  <2>1. j - k \in Nat /\ j * a - k * a = (j - k) * a
    BY <1>1
  <2>2. (j - k) * a >= 0
    BY <2>1
  <2> QED BY <2>1, <2>2
<1> QED BY <1>1

\* Sums and differences of multiples are multiples.
LEMMA SumMod ==
  ASSUME NEW x \in Int, NEW y \in Int, NEW a \in Nat \ {0}, x % a = 0, y % a = 0
  PROVE  (x + y) % a = 0 /\ (x - y) % a = 0
<1> DEFINE j == x \div a
           k == y \div a
<1>1. j \in Int /\ k \in Int /\ x = j * a /\ y = k * a
  BY DivMod, Zenon
<1> HIDE DEF j, k
<1>2. x + y = (j + k) * a /\ x - y = (j - k) * a /\ j + k \in Int /\ j - k \in Int
  BY <1>1
<1> QED BY <1>2, MultipleMod, Zenon

\* Two different multiples are at least one step apart.
LEMMA NextMultiple ==
  ASSUME NEW x \in Int, NEW y \in Int, NEW a \in Nat \ {0}, x % a = 0, y % a = 0, x < y
  PROVE  x + a <= y
<1> DEFINE j == x \div a
           k == y \div a
<1>1. j \in Int /\ k \in Int /\ x = j * a /\ y = k * a
  BY DivMod, Zenon
<1> HIDE DEF j, k
<1>2. j + 1 <= k
  BY <1>1, FactorLess
<1>3. k - (j + 1) \in Nat /\ k * a - (j + 1) * a = (k - (j + 1)) * a
  BY <1>1, <1>2
<1>4. (k - (j + 1)) * a >= 0 /\ (j + 1) * a = j * a + a
  BY <1>1, <1>3
<1>5. k * a \in Int /\ j * a \in Int /\ (j + 1) * a \in Int
  BY <1>1
<1> QED BY <1>1, <1>3, <1>4, <1>5

\* align_up returns the first multiple that is not below the value.
LEMMA AlignUp ==
  ASSUME NEW v \in Int, NEW a \in Nat \ {0}
  PROVE  /\ align_up(v, a) \in Int /\ align_up(v, a) % a = 0
         /\ v <= align_up(v, a) /\ align_up(v, a) < v + a
         /\ v % a = 0 => align_up(v, a) = v
<1> DEFINE q == (v + a - 1) \div a
<1>1. q \in Int /\ q * a <= v + a - 1 /\ v + a - 1 < (q + 1) * a
  BY DivMod
<1> HIDE DEF q
<1>2. q * a \in Int /\ (q + 1) * a = q * a + a
  BY <1>1
<1>3. v <= q * a /\ q * a < v + a /\ (q * a) % a = 0
  BY <1>1, <1>2, MultipleMod
<1>4. v % a = 0 => q * a = v
  <2>1. v % a = 0 /\ v < q * a => v + a <= q * a
    BY <1>2, <1>3, NextMultiple, Zenon
  <2> QED BY <1>2, <1>3, <2>1
<1> QED BY <1>2, <1>3, <1>4, Zenon DEF align_up, q

\* A multiple that is not below the value is not below align_up of it.
LEMMA AlignUpLeast ==
  ASSUME NEW v \in Int, NEW a \in Nat \ {0}, NEW m \in Int, m % a = 0, v <= m
  PROVE  align_up(v, a) <= m
<1>1. /\ align_up(v, a) \in Int /\ align_up(v, a) % a = 0
      /\ v <= align_up(v, a) /\ align_up(v, a) < v + a
  BY AlignUp, Zenon
<1>2. m < align_up(v, a) => m + a <= align_up(v, a)
  BY <1>1, NextMultiple, Zenon
<1> QED BY <1>1, <1>2
-----------------------------------------------------------------------------
\* The constants are numbers, and NULL is below the heap.
LEMMA Numbers ==
  /\ ALIGN \in Nat \ {0} /\ PAGE_SIZE \in Nat \ {0} /\ WORD \in Nat \ {0}
  /\ HEAP_START \in Nat \ {0} /\ heap_end \in Nat /\ HEAP_START <= heap_end
  /\ MIN_SPLIT \in Nat /\ BLOCK_OVERHEAD \in Nat \ {0} /\ Sizes \subseteq Nat
  /\ NULL = 0
<1>1. HEAP_SIZE \in Nat /\ heap_end = HEAP_START + HEAP_SIZE
  BY HeapAssumption, Zenon DEF heap_end
<1> QED BY <1>1, HeapAssumption DEF NULL

\* Aligned addresses stay aligned in a sum, and align_up makes one.
LEMMA Alignment ==
  /\ Aligned(HEAP_START) /\ Aligned(BLOCK_OVERHEAD)
  /\ \A x, y \in Int : Aligned(x) /\ Aligned(y) => Aligned(x + y)
  /\ \A v \in Int : /\ align_up(v, ALIGN) \in Int /\ Aligned(align_up(v, ALIGN))
                    /\ v <= align_up(v, ALIGN)
                    /\ Aligned(v) => align_up(v, ALIGN) = v
<1>1. ALIGN \in Nat \ {0}
  BY HeapAssumption, Zenon
<1>2. Aligned(HEAP_START) /\ Aligned(BLOCK_OVERHEAD)
  BY HeapAssumption, Zenon DEF Aligned
<1>3. \A x, y \in Int : Aligned(x) /\ Aligned(y) => Aligned(x + y)
  BY <1>1, SumMod, Zenon DEF Aligned
<1>4. \A v \in Int : /\ align_up(v, ALIGN) \in Int /\ Aligned(align_up(v, ALIGN))
                     /\ v <= align_up(v, ALIGN)
                     /\ Aligned(v) => align_up(v, ALIGN) = v
  BY <1>1, AlignUp, Zenon DEF Aligned
<1> QED BY <1>2, <1>3, <1>4, Zenon

\* The part of the invariant that is about the list of blocks.
ListInv == /\ Blocks \subseteq HEAP_START .. heap_end
           /\ \A b \in Blocks : hdr[b] \in Header
           /\ heap_curr \in HEAP_START .. heap_end
           /\ ListTiles /\ BlocksApart

\* The fields of a header, and where its block lies.
LEMMA BlockFacts ==
  ASSUME ListInv, NEW b \in Blocks
  PROVE  /\ b \in Nat /\ HEAP_START <= b /\ b # NULL /\ Aligned(b)
         /\ hdr[b].next \in Nat /\ hdr[b].prev \in Nat /\ hdr[b].size \in Nat
         /\ hdr[b].free \in BOOLEAN
         /\ BlockEnd(b) = b + BLOCK_OVERHEAD + hdr[b].size /\ BlockEnd(b) \in Nat
         /\ b < BlockEnd(b) /\ BlockEnd(b) <= heap_curr /\ heap_curr \in Nat
<1>1. hdr[b] \in Header /\ b \in HEAP_START .. heap_end
  BY Zenon DEF ListInv
<1>2. /\ hdr[b].next \in Nat /\ hdr[b].prev \in Nat /\ hdr[b].size \in Nat
      /\ hdr[b].free \in BOOLEAN
  BY <1>1, Zenon DEF Header
<1>3. b \in Nat /\ HEAP_START <= b /\ b # NULL
  BY <1>1, Numbers
<1>4. Aligned(b) /\ BlockEnd(b) <= heap_curr /\ heap_curr \in Nat
  BY Numbers DEF ListInv, BlocksApart
<1> QED BY <1>2, <1>3, <1>4, Numbers DEF BlockEnd

\* The links of a block, and the distance of two blocks.
LEMMA LinkFacts ==
  ASSUME ListInv, NEW b \in Blocks
  PROVE  /\ hdr[b].next = NULL => BlockEnd(b) = heap_curr
         /\ hdr[b].next # NULL => /\ hdr[b].next = BlockEnd(b) /\ hdr[b].next \in Blocks
                                  /\ hdr[hdr[b].next].prev = b /\ b < hdr[b].next
         /\ hdr[b].prev = NULL => b = heap_head
         /\ hdr[b].prev # NULL => hdr[b].prev \in Blocks /\ hdr[hdr[b].prev].next = b
         /\ \A c \in Blocks : b < c => BlockEnd(b) <= c
         /\ heap_head = HEAP_START
<1>1. b < BlockEnd(b)
  BY BlockFacts, Zenon
<1>2. \A c \in Blocks : b < c => BlockEnd(b) <= c
  BY Zenon DEF ListInv, BlocksApart
<1>3. /\ hdr[b].next = NULL => BlockEnd(b) = heap_curr
      /\ hdr[b].next # NULL => /\ hdr[b].next = BlockEnd(b) /\ hdr[b].next \in Blocks
                               /\ hdr[hdr[b].next].prev = b
  BY Zenon DEF ListInv, ListTiles
<1>4. /\ hdr[b].prev = NULL => b = heap_head
      /\ hdr[b].prev # NULL => hdr[b].prev \in Blocks /\ hdr[hdr[b].prev].next = b
      /\ heap_head = HEAP_START
  BY Zenon DEF ListInv, ListTiles
<1> QED BY <1>1, <1>2, <1>3, <1>4, Zenon

\* heap_tail is the one block without a successor, and the highest.
LEMMA TailFacts ==
  ASSUME ListInv, Blocks # {}
  PROVE  /\ heap_tail \in Blocks /\ hdr[heap_tail].next = NULL
         /\ BlockEnd(heap_tail) = heap_curr
         /\ \A b \in Blocks \ {heap_tail} : hdr[b].next # NULL /\ BlockEnd(b) <= heap_tail
<1>1. heap_tail \in Blocks /\ hdr[heap_tail].next = NULL
  BY Zenon DEF ListInv, BlocksApart, heap_tail
<1>2. BlockEnd(heap_tail) = heap_curr
  BY <1>1, LinkFacts, Zenon
<1>3. ASSUME NEW b \in Blocks, b # heap_tail PROVE BlockEnd(b) <= heap_tail
  <2>1. /\ b \in Nat /\ heap_tail \in Nat /\ b < BlockEnd(b) /\ BlockEnd(b) <= heap_curr
        /\ BlockEnd(b) \in Nat
    BY <1>1, BlockFacts, Zenon
  <2>2. heap_tail < b => heap_curr <= b
    BY <1>1, <1>2, LinkFacts, Zenon
  <2>3. b < heap_tail
    BY <1>1, <1>2, <1>3, <2>1, <2>2, BlockFacts
  <2> QED BY <1>1, <2>3, LinkFacts, Zenon
<1>4. ASSUME NEW b \in Blocks, b # heap_tail PROVE hdr[b].next # NULL
  <2>1. BlockEnd(b) <= heap_tail /\ heap_tail < heap_curr /\ heap_tail \in Nat
    BY <1>1, <1>2, <1>3, <1>4, BlockFacts, Zenon
  <2> QED BY <2>1, LinkFacts, BlockFacts
<1> QED BY <1>1, <1>2, <1>3, <1>4, Zenon
-----------------------------------------------------------------------------
\* What split_block does to the headers when it splits: the one of b, the one of the
\* remainder at nb, and the back link of their successor.
SplitAt(b, nb, s) ==
  /\ nb = b + BLOCK_OVERHEAD + s /\ nb \in Nat /\ nb \notin Blocks
  /\ b < nb /\ nb < BlockEnd(b)
  /\ hdr' = [x \in Blocks \cup {nb} |-> hdr'[x]]
  /\ hdr'[b] \in Header /\ ~hdr'[b].free
  /\ hdr'[b].next = nb /\ hdr'[b].prev = hdr[b].prev /\ hdr'[b].size = s
  /\ hdr'[nb] = [next |-> hdr[b].next, prev |-> b,
                 size |-> hdr[b].size - s - BLOCK_OVERHEAD, free |-> TRUE]
  /\ \A x \in Blocks \ {b} :
       hdr'[x] = IF x = hdr[b].next THEN [hdr[x] EXCEPT !.prev = nb] ELSE hdr[x]

\* split_block with room for a remainder does just that.
LEMMA SplitFacts ==
  ASSUME ListInv, NEW b \in Blocks, NEW s \in Nat, NEW nb, nb = b + BLOCK_OVERHEAD + s,
         hdr[b].size - s > BLOCK_OVERHEAD + MIN_SPLIT,
         hdr' = split_block([hdr EXCEPT ![b].free = FALSE], b, s)
  PROVE  SplitAt(b, nb, s)
<1>1. /\ b \in Nat /\ hdr[b].size \in Nat /\ BlockEnd(b) = b + BLOCK_OVERHEAD + hdr[b].size
      /\ BLOCK_OVERHEAD \in Nat \ {0} /\ MIN_SPLIT \in Nat /\ NULL = 0
  BY BlockFacts, Numbers, Zenon
<1>2. nb \in Nat /\ b < nb /\ nb < BlockEnd(b)
  BY <1>1
<1>3. nb \notin Blocks
  BY <1>1, <1>2, LinkFacts
<1> DEFINE h == [hdr EXCEPT ![b].free = FALSE]
           r == [next |-> hdr[b].next, prev |-> b, free |-> TRUE,
                 size |-> hdr[b].size - s - BLOCK_OVERHEAD]
           g == [Put(h, nb, r) EXCEPT ![b].next = nb, ![b].size = s]
<1>4. /\ DOMAIN h = Blocks /\ h[b] = [hdr[b] EXCEPT !.free = FALSE]
      /\ \A x \in Blocks \ {b} : h[x] = hdr[x]
  BY Zenon DEF Blocks
<1>5. h[b].next = hdr[b].next /\ h[b].size = hdr[b].size
  <2>1. hdr[b] \in Header
    BY Zenon DEF ListInv
  <2> QED BY <1>4, <2>1, Zenon DEF Header
<1>6. Remainder(h, b, s) = r
  BY <1>5, Zenon DEF Remainder
<1>7. hdr' = Relink(g, nb, hdr[b].next)
  <2> HIDE DEF h, r
  <2>1. ~(h[b].size - s <= BLOCK_OVERHEAD + MIN_SPLIT)
    BY <1>1, <1>5
  <2>2. hdr' = split_block(h, b, s)
    BY Zenon DEF h
  <2>3. hdr' = Relink([Put(h, nb, Remainder(h, b, s)) EXCEPT ![b].next = nb, ![b].size = s],
                      nb, h[b].next)
    BY <2>1, <2>2, Zenon DEF split_block
  <2> QED BY <1>5, <1>6, <2>3, Zenon
<1>8. /\ g = [x \in Blocks \cup {nb} |-> g[x]]
      /\ g[b] = [hdr[b] EXCEPT !.free = FALSE, !.next = nb, !.size = s]
      /\ g[nb] = r /\ \A x \in Blocks \ {b} : g[x] = hdr[x]
  <2>1. /\ DOMAIN Put(h, nb, r) = Blocks \cup {nb} /\ Put(h, nb, r)[nb] = r
        /\ \A x \in Blocks : Put(h, nb, r)[x] = h[x]
    BY <1>3, <1>4, Zenon DEF Put
  <2> HIDE DEF h, r
  <2>2. /\ g = [x \in Blocks \cup {nb} |-> g[x]]
        /\ g[b] = [h[b] EXCEPT !.next = nb, !.size = s]
        /\ g[nb] = r /\ \A x \in Blocks \ {b} : g[x] = h[x]
    BY <1>3, <2>1, Zenon
  <2>3. [h[b] EXCEPT !.next = nb, !.size = s]
           = [hdr[b] EXCEPT !.free = FALSE, !.next = nb, !.size = s]
    BY <1>4, Zenon
  <2> QED BY <1>4, <2>2, <2>3, Zenon
<1>9. /\ g[b] \in Header /\ ~g[b].free
      /\ g[b].next = nb /\ g[b].prev = hdr[b].prev /\ g[b].size = s
  <2>1. hdr[b] \in Header /\ g[b] = [hdr[b] EXCEPT !.free = FALSE, !.next = nb, !.size = s]
    BY <1>8, Zenon DEF ListInv
  <2> HIDE DEF g
  <2>2. s \in Nat /\ nb \in Nat
    BY <1>2, Zenon
  <2> QED BY <2>1, <2>2, Zenon DEF Header
<1> HIDE DEF g
<1>10. CASE hdr[b].next = NULL
  <2>1. hdr' = g /\ NULL \notin Blocks
    BY <1>7, <1>10, BlockFacts, Zenon DEF Relink
  <2> QED BY <1>2, <1>3, <1>8, <1>10, <1>9, <2>1, Zenon DEF SplitAt
<1>11. CASE hdr[b].next # NULL
  <2>1. hdr[b].next \in Blocks \ {b, nb} /\ hdr' = [g EXCEPT ![hdr[b].next].prev = nb]
    <3>1. hdr[b].next \in Blocks /\ b < hdr[b].next /\ hdr[b].next \in Nat
      BY <1>11, LinkFacts, BlockFacts, Zenon
    <3>2. hdr' = [g EXCEPT ![hdr[b].next].prev = nb]
      BY <1>7, <1>11, Zenon DEF Relink
    <3>3. hdr[b].next # b /\ hdr[b].next # nb
      BY <1>1, <1>3, <3>1
    <3> QED BY <3>1, <3>2, <3>3, Zenon
  <2>2. /\ hdr' = [x \in Blocks \cup {nb} |-> hdr'[x]]
        /\ hdr'[hdr[b].next] = [g[hdr[b].next] EXCEPT !.prev = nb]
        /\ \A x \in (Blocks \cup {nb}) \ {hdr[b].next} : hdr'[x] = g[x]
    BY <1>8, <2>1, Zenon
  <2> QED BY <1>2, <1>3, <1>8, <1>9, <2>1, <2>2, Zenon DEF SplitAt
<1> QED BY <1>10, <1>11, Zenon

\* ListInv after a step, field by field.
LEMMA ListInvNext ==
  ASSUME NEW D, hdr' = [x \in D |-> hdr'[x]], D \subseteq HEAP_START .. heap_end,
         \A x \in D : hdr'[x] \in Header /\ Aligned(x),
         heap_curr' \in HEAP_START .. heap_end, Aligned(heap_curr'),
         heap_head' = IF D = {} THEN NULL ELSE HEAP_START,
         D = {} => heap_curr' = HEAP_START,
         \A x \in D :
           LET end == x + BLOCK_OVERHEAD + hdr'[x].size
           IN  /\ hdr'[x].next = NULL => end = heap_curr'
               /\ hdr'[x].next # NULL => /\ hdr'[x].next = end
                                        /\ end \in D /\ hdr'[end].prev = x
               /\ hdr'[x].prev = NULL => x = heap_head'
               /\ hdr'[x].prev # NULL => /\ hdr'[x].prev \in D
                                        /\ hdr'[hdr'[x].prev].next = x
               /\ end <= heap_curr'
               /\ \A y \in D : x < y => end <= y,
         D # {} => \E x \in D : hdr'[x].next = NULL
  PROVE  ListInv'
<1>1. Blocks' = D /\ \A x \in D : BlockEnd(x)' = x + BLOCK_OVERHEAD + hdr'[x].size
  BY Zenon DEF Blocks, BlockEnd
<1>2. ListTiles'
  <2>1. heap_end' = heap_end /\ NULL' = NULL
    BY Zenon DEF heap_end, NULL
  <2> QED BY <1>1, <2>1 DEF ListTiles
<1>3. BlocksApart'
  BY <1>1 DEF BlocksApart, Aligned, NULL
<1> QED BY <1>1, <1>2, <1>3, Zenon DEF ListInv, Header, heap_end

\* split_block keeps the list in order.
LEMMA SplitList ==
  ASSUME ListInv, NEW b \in Blocks, NEW s \in Nat, Aligned(s), NEW nb,
         hdr[b].size - s > BLOCK_OVERHEAD + MIN_SPLIT, SplitAt(b, nb, s),
         UNCHANGED <<heap_head, heap_curr>>
  PROVE  ListInv'
<1> DEFINE D == Blocks \cup {nb}
<1>1. /\ nb = b + BLOCK_OVERHEAD + s /\ nb \in Nat /\ nb \notin Blocks
      /\ b < nb /\ nb < BlockEnd(b) /\ hdr' = [x \in D |-> hdr'[x]]
  BY Zenon DEF SplitAt
<1>2. /\ b \in Nat /\ hdr[b].size \in Nat /\ BLOCK_OVERHEAD \in Nat \ {0} /\ MIN_SPLIT \in Nat
      /\ BlockEnd(b) = b + BLOCK_OVERHEAD + hdr[b].size /\ Aligned(b)
      /\ BlockEnd(b) <= heap_curr /\ heap_curr \in HEAP_START .. heap_end
      /\ hdr[b].next \in Nat /\ hdr[b].prev \in Nat
  BY BlockFacts, Numbers, Zenon DEF ListInv
<1>3. Aligned(nb)
  BY <1>1, <1>2, Alignment
<1>4. /\ hdr'[b] \in Header /\ hdr'[b].next = nb /\ hdr'[b].size = s
      /\ hdr'[b].prev = hdr[b].prev
  BY Zenon DEF SplitAt
<1>5. /\ hdr'[nb] \in Header /\ hdr'[nb].next = hdr[b].next /\ hdr'[nb].prev = b
      /\ hdr'[nb].size = hdr[b].size - s - BLOCK_OVERHEAD
  <2>1. hdr[b].size - s - BLOCK_OVERHEAD \in Nat
    BY <1>2
  <2>2. hdr'[nb] = [next |-> hdr[b].next, prev |-> b,
                    size |-> hdr[b].size - s - BLOCK_OVERHEAD, free |-> TRUE]
    BY Zenon DEF SplitAt
  <2> QED BY <1>2, <2>1, <2>2 DEF Header
<1>6. \A x \in Blocks \ {b} :
        /\ hdr'[x] \in Header /\ hdr'[x].next = hdr[x].next /\ hdr'[x].size = hdr[x].size
        /\ hdr'[x].prev = IF x = hdr[b].next THEN nb ELSE hdr[x].prev
  <2> TAKE x \in Blocks \ {b}
  <2>1. hdr[x] \in Header /\ nb \in Nat
    BY <1>1, Zenon DEF ListInv
  <2>2. hdr'[x] = IF x = hdr[b].next THEN [hdr[x] EXCEPT !.prev = nb] ELSE hdr[x]
    BY Zenon DEF SplitAt
  <2>3. CASE x = hdr[b].next
    BY <2>1, <2>2, <2>3, Zenon DEF Header
  <2>4. CASE x # hdr[b].next
    BY <2>1, <2>2, <2>4, Zenon
  <2> QED BY <2>3, <2>4, Zenon
<1>7. D \subseteq HEAP_START .. heap_end /\ \A x \in D : hdr'[x] \in Header /\ Aligned(x)
  <2>1. nb \in HEAP_START .. heap_end
    BY <1>1, <1>2, BlockFacts, Numbers
  <2> QED BY <1>3, <1>4, <1>5, <1>6, <2>1, BlockFacts, Zenon DEF ListInv
<1>8. heap_head' = HEAP_START /\ NULL = 0 /\ HEAP_START \in Nat \ {0}
  BY LinkFacts, Numbers, Zenon
<1>9. ASSUME NEW x \in D
      PROVE  LET end == x + BLOCK_OVERHEAD + hdr'[x].size
             IN  /\ hdr'[x].next = NULL => end = heap_curr'
                 /\ hdr'[x].next # NULL => /\ hdr'[x].next = end
                                          /\ end \in D /\ hdr'[end].prev = x
                 /\ hdr'[x].prev = NULL => x = heap_head'
                 /\ hdr'[x].prev # NULL => /\ hdr'[x].prev \in D
                                          /\ hdr'[hdr'[x].prev].next = x
                 /\ end <= heap_curr'
                 /\ \A y \in D : x < y => end <= y
  <2>1. /\ x \in Nat /\ heap_curr \in Nat /\ heap_curr' = heap_curr
        /\ \A y \in Blocks : y \in Nat /\ y # NULL
    BY <1>1, BlockFacts, Zenon
  <2>2. CASE x = b
    <3>1. \A y \in D : b < y => nb <= y
      BY <1>1, <1>2, <2>1, LinkFacts
    <3>2. hdr[b].prev # NULL => hdr[b].prev \in Blocks \ {b} /\ hdr[hdr[b].prev].next = b
      BY <1>2, LinkFacts, BlockFacts
    <3> QED BY <1>1, <1>2, <1>4, <1>5, <1>6, <1>8, <2>1, <2>2, <3>1, <3>2, LinkFacts
  <2>3. CASE x = nb
    <3>1. nb + BLOCK_OVERHEAD + hdr'[nb].size = BlockEnd(b)
      BY <1>1, <1>2, <1>5
    <3>2. \A y \in D : nb < y => BlockEnd(b) <= y
      BY <1>1, <1>2, <2>1, LinkFacts
    <3>3. /\ hdr[b].next = NULL => BlockEnd(b) = heap_curr
          /\ hdr[b].next # NULL => hdr[b].next = BlockEnd(b) /\ hdr[b].next \in Blocks \ {b}
      BY <1>2, LinkFacts
    <3> QED BY <1>1, <1>2, <1>4, <1>5, <1>6, <2>1, <2>3, <3>1, <3>2, <3>3
  <2>4. CASE x \in Blocks \ {b}
    <3>1. x + BLOCK_OVERHEAD + hdr'[x].size = BlockEnd(x)
      BY <1>6, <2>4, BlockFacts, Zenon
    <3>2. BlockEnd(x) <= heap_curr /\ \A y \in D : x < y => BlockEnd(x) <= y
      <4>1. x < nb => BlockEnd(x) <= nb
        BY <1>1, <1>2, <2>1, <2>4, LinkFacts, BlockFacts
      <4> QED BY <2>4, <4>1, LinkFacts, BlockFacts, Zenon
    <3>3. /\ hdr'[x].next = NULL => BlockEnd(x) = heap_curr
          /\ hdr'[x].next # NULL => /\ hdr'[x].next = BlockEnd(x) /\ BlockEnd(x) \in D
                                    /\ hdr'[BlockEnd(x)].prev = x
      <4>1. hdr[x].next # NULL => /\ hdr[x].next = BlockEnd(x) /\ hdr[x].next \in Blocks
                                  /\ hdr[hdr[x].next].prev = x
        BY <2>4, LinkFacts, Zenon
      <4>2. hdr[x].next # NULL => hdr[x].next # hdr[b].next
        BY <2>4, LinkFacts
      <4> QED BY <1>4, <1>6, <2>4, <4>1, <4>2, LinkFacts
    <3>4. /\ hdr'[x].prev = NULL => x = heap_head'
          /\ hdr'[x].prev # NULL => hdr'[x].prev \in D /\ hdr'[hdr'[x].prev].next = x
      <4>1. CASE x = hdr[b].next
        <5>1. hdr'[x].prev = nb /\ nb \in D /\ nb # NULL /\ hdr'[nb].next = x
          BY <1>1, <1>2, <1>5, <1>6, <1>8, <2>4, <4>1
        <5> QED BY <5>1, Zenon
      <4>2. CASE x # hdr[b].next
        <5>1. hdr'[x].prev = hdr[x].prev /\ hdr[x].prev # b
          BY <1>2, <1>6, <2>1, <2>4, <4>2, LinkFacts, BlockFacts
        <5> QED BY <1>6, <2>4, <5>1, LinkFacts
      <4> QED BY <4>1, <4>2, Zenon
    <3> QED BY <2>1, <3>1, <3>2, <3>3, <3>4, Zenon
  <2> QED BY <2>2, <2>3, <2>4, Zenon
<1>10. \E x \in D : hdr'[x].next = NULL
  <2>1. PICK x \in Blocks : hdr[x].next = NULL
    BY Zenon DEF ListInv, BlocksApart
  <2>2. CASE x = b
    BY <1>5, <2>1, <2>2, Zenon
  <2>3. CASE x # b
    BY <1>6, <2>1, <2>3, Zenon
  <2> QED BY <2>2, <2>3, Zenon
<1> QED BY <1>1, <1>2, <1>7, <1>8, <1>9, <1>10, ListInvNext, Zenon DEF ListInv, BlocksApart

\* What kmalloc does to the headers when it appends a block at heap_curr.
AppendAt(s) ==
  /\ heap_curr \notin Blocks
  /\ hdr' = [x \in Blocks \cup {heap_curr} |-> hdr'[x]]
  /\ hdr'[heap_curr] = [next |-> NULL, prev |-> IF Blocks = {} THEN NULL ELSE heap_tail,
                        size |-> s, free |-> FALSE]
  /\ \A x \in Blocks :
       hdr'[x] = IF x = heap_tail THEN [hdr[x] EXCEPT !.next = heap_curr] ELSE hdr[x]

\* The appended block is what AppendAt says.
LEMMA AppendFacts ==
  ASSUME ListInv, cur \in Nat, kmalloc_append
  PROVE  /\ AppendAt(cur) /\ heap_head' = HEAP_START
         /\ heap_curr' = heap_curr + BLOCK_OVERHEAD + cur
         /\ heap_curr + BLOCK_OVERHEAD + cur = GrowthEnd(cur)
<1> DEFINE new == [next |-> NULL, size |-> cur, free |-> FALSE,
                   prev |-> IF heap_head = NULL THEN NULL ELSE heap_tail]
<1>1. align_up(heap_curr, ALIGN) = heap_curr /\ heap_curr \in Nat
  BY Alignment, Numbers DEF ListInv, BlocksApart
<1>2. /\ heap_curr' = GrowthEnd(cur)
      /\ heap_head = NULL => heap_head' = heap_curr /\ hdr' = Put(hdr, heap_curr, new)
      /\ heap_head # NULL =>
           /\ heap_head' = heap_head
           /\ hdr' = Put([hdr EXCEPT ![heap_tail].next = heap_curr], heap_curr, new)
  BY <1>1, Zenon DEF kmalloc_append
<1>3. \A b \in Blocks : b \in Nat /\ b # heap_curr
  BY BlockFacts
<1>4. heap_head = NULL <=> Blocks = {}
  BY Numbers, Zenon DEF ListInv, ListTiles
<1>5. new = [next |-> NULL, prev |-> IF Blocks = {} THEN NULL ELSE heap_tail,
             size |-> cur, free |-> FALSE]
  BY <1>4, Zenon
<1> HIDE DEF new
<1>6. AppendAt(cur)
  <2>1. CASE Blocks = {}
    <3>1. hdr' = Put(hdr, heap_curr, new)
      BY <1>2, <1>4, <2>1, Zenon
    <3>2. hdr' = [x \in Blocks \cup {heap_curr} |-> hdr'[x]] /\ hdr'[heap_curr] = new
      BY <3>1, Zenon DEF Put, Blocks
    <3> QED BY <1>3, <1>5, <2>1, <3>2, Zenon DEF AppendAt
  <2>2. CASE Blocks # {}
    <3> DEFINE h == [hdr EXCEPT ![heap_tail].next = heap_curr]
    <3>1. hdr' = Put(h, heap_curr, new) /\ heap_tail \in Blocks
      BY <1>2, <1>4, <2>2, TailFacts, Zenon
    <3>2. /\ DOMAIN h = Blocks /\ h[heap_tail] = [hdr[heap_tail] EXCEPT !.next = heap_curr]
          /\ \A x \in Blocks \ {heap_tail} : h[x] = hdr[x]
      BY <3>1, Zenon DEF Blocks
    <3> HIDE DEF h
    <3>3. /\ hdr' = [x \in Blocks \cup {heap_curr} |-> hdr'[x]] /\ hdr'[heap_curr] = new
          /\ \A x \in Blocks : hdr'[x] = h[x]
      BY <1>3, <3>1, <3>2, Zenon DEF Put
    <3> QED BY <1>3, <1>5, <2>2, <3>2, <3>3, Zenon DEF AppendAt
  <2> QED BY <2>1, <2>2, Zenon
<1>7. heap_head' = HEAP_START
  BY <1>2, <1>4, Zenon DEF ListInv, ListTiles
<1>8. GrowthEnd(cur) = heap_curr + cur + BLOCK_OVERHEAD
  BY <1>1, Zenon DEF GrowthEnd
<1> QED BY <1>1, <1>2, <1>6, <1>7, <1>8, Numbers

\* Appending keeps the list in order.
LEMMA AppendList ==
  ASSUME ListInv, NEW s \in Nat, Aligned(s), AppendAt(s), heap_head' = HEAP_START,
         heap_curr' = heap_curr + BLOCK_OVERHEAD + s, heap_curr' <= heap_end
  PROVE  ListInv'
<1> DEFINE D == Blocks \cup {heap_curr}
<1>1. heap_curr \notin Blocks /\ hdr' = [x \in D |-> hdr'[x]]
  BY Zenon DEF AppendAt
<1>2. /\ heap_curr \in Nat /\ HEAP_START <= heap_curr /\ Aligned(heap_curr)
      /\ BLOCK_OVERHEAD \in Nat \ {0} /\ HEAP_START \in Nat \ {0} /\ NULL = 0 /\ heap_end \in Nat
  BY Numbers DEF ListInv, BlocksApart
<1>3. heap_curr' \in HEAP_START .. heap_end /\ Aligned(heap_curr') /\ heap_curr < heap_curr'
  <2>1. Aligned(heap_curr + BLOCK_OVERHEAD) /\ heap_curr + BLOCK_OVERHEAD \in Int
    BY <1>2, Alignment
  <2>2. Aligned(heap_curr + BLOCK_OVERHEAD + s)
    BY <2>1, Alignment
  <2> QED BY <1>2, <2>2
<1>4. Blocks # {} => /\ heap_tail \in Blocks /\ hdr[heap_tail].next = NULL
                     /\ BlockEnd(heap_tail) = heap_curr
                     /\ \A x \in Blocks \ {heap_tail} : hdr[x].next # NULL
  BY TailFacts, Zenon
<1>5. /\ hdr'[heap_curr] \in Header /\ hdr'[heap_curr].next = NULL /\ hdr'[heap_curr].size = s
      /\ hdr'[heap_curr].prev = IF Blocks = {} THEN NULL ELSE heap_tail
  <2>1. (IF Blocks = {} THEN NULL ELSE heap_tail) \in Nat /\ NULL \in Nat
    BY <1>2, <1>4, BlockFacts, Zenon
  <2>2. hdr'[heap_curr] = [next |-> NULL, prev |-> IF Blocks = {} THEN NULL ELSE heap_tail,
                           size |-> s, free |-> FALSE]
    BY Zenon DEF AppendAt
  <2> QED BY <2>1, <2>2 DEF Header
<1>6. \A x \in Blocks :
        /\ hdr'[x] \in Header /\ hdr'[x].prev = hdr[x].prev /\ hdr'[x].size = hdr[x].size
        /\ hdr'[x].next = IF x = heap_tail THEN heap_curr ELSE hdr[x].next
  <2> TAKE x \in Blocks
  <2>1. hdr[x] \in Header
    BY Zenon DEF ListInv
  <2>2. hdr'[x] = IF x = heap_tail THEN [hdr[x] EXCEPT !.next = heap_curr] ELSE hdr[x]
    BY Zenon DEF AppendAt
  <2>3. CASE x = heap_tail
    BY <1>2, <2>1, <2>2, <2>3, Zenon DEF Header
  <2>4. CASE x # heap_tail
    BY <2>1, <2>2, <2>4, Zenon
  <2> QED BY <2>3, <2>4, Zenon
<1>7. D \subseteq HEAP_START .. heap_end /\ \A x \in D : hdr'[x] \in Header /\ Aligned(x)
  BY <1>2, <1>5, <1>6, BlockFacts, Zenon DEF ListInv
<1>8. ASSUME NEW x \in D
      PROVE  LET end == x + BLOCK_OVERHEAD + hdr'[x].size
             IN  /\ hdr'[x].next = NULL => end = heap_curr'
                 /\ hdr'[x].next # NULL => /\ hdr'[x].next = end
                                          /\ end \in D /\ hdr'[end].prev = x
                 /\ hdr'[x].prev = NULL => x = heap_head'
                 /\ hdr'[x].prev # NULL => /\ hdr'[x].prev \in D
                                          /\ hdr'[hdr'[x].prev].next = x
                 /\ end <= heap_curr'
                 /\ \A y \in D : x < y => end <= y
  <2>1. \A y \in Blocks : y \in Nat /\ y # NULL /\ y < heap_curr /\ BlockEnd(y) <= heap_curr
    BY <1>2, BlockFacts
  <2>2. CASE x = heap_curr
    <3>1. heap_curr + BLOCK_OVERHEAD + hdr'[heap_curr].size = heap_curr'
      BY <1>5, Zenon
    <3>2. \A y \in D : ~(heap_curr < y)
      BY <1>2, <2>1
    <3>3. Blocks = {} => heap_curr = heap_head'
      BY Zenon DEF ListInv, ListTiles
    <3>4. Blocks # {} => /\ heap_tail # NULL /\ heap_tail \in D
                         /\ hdr'[heap_tail].next = heap_curr
      BY <1>4, <1>6, <2>1, Zenon
    <3>5. /\ hdr'[heap_curr].prev = NULL => heap_curr = heap_head'
          /\ hdr'[heap_curr].prev # NULL => /\ hdr'[heap_curr].prev \in D
                                            /\ hdr'[hdr'[heap_curr].prev].next = heap_curr
      BY <1>5, <3>3, <3>4, Zenon
    <3>6. heap_curr' <= heap_curr'
      BY <1>3
    <3> QED BY <1>5, <2>2, <3>1, <3>2, <3>5, <3>6, Zenon
  <2>3. CASE x \in Blocks
    <3>1. x + BLOCK_OVERHEAD + hdr'[x].size = BlockEnd(x) /\ BlockEnd(x) \in Nat
      BY <1>6, <2>3, BlockFacts, Zenon
    <3>2. BlockEnd(x) <= heap_curr' /\ \A y \in D : x < y => BlockEnd(x) <= y
      BY <1>2, <1>3, <2>1, <2>3, <3>1, LinkFacts
    <3>3. /\ hdr'[x].next # NULL /\ hdr'[x].next = BlockEnd(x) /\ BlockEnd(x) \in D
          /\ hdr'[BlockEnd(x)].prev = x
      <4>1. CASE x = heap_tail
        BY <1>2, <1>4, <1>5, <1>6, <2>3, <4>1
      <4>2. CASE x # heap_tail
        BY <1>4, <1>6, <2>3, <4>2, LinkFacts
      <4> QED BY <4>1, <4>2, Zenon
    <3>4. /\ hdr'[x].prev = NULL => x = heap_head'
          /\ hdr'[x].prev # NULL => hdr'[x].prev \in D /\ hdr'[hdr'[x].prev].next = x
      <4>1. hdr[x].prev # NULL => hdr[x].prev \in Blocks /\ hdr[hdr[x].prev].next = x
        BY <2>3, LinkFacts, Zenon
      <4>2. hdr[x].prev # NULL => hdr[x].prev # heap_tail
        BY <1>4, <2>1, <2>3, <4>1, Zenon
      <4> QED BY <1>6, <2>3, <4>1, <4>2, LinkFacts
    <3> QED BY <3>1, <3>2, <3>3, <3>4, Zenon
  <2> QED BY <2>2, <2>3, Zenon
<1>9. D # {} /\ \E x \in D : hdr'[x].next = NULL
  BY <1>5, Zenon
<1> HIDE DEF D
<1> QED BY <1>1, <1>3, <1>7, <1>8, <1>9, ListInvNext, Zenon

\* What Absorb does to the headers: the one of `into', and the back link of the
\* successor of `gone'.
AbsorbAt(into, gone) ==
  /\ into \in Blocks /\ gone \in Blocks /\ into # gone /\ hdr[into].next = gone
  /\ hdr' = [x \in Blocks \ {gone} |-> hdr'[x]]
  /\ hdr'[into] \in Header /\ hdr'[into].free = hdr[into].free
  /\ hdr'[into].next = hdr[gone].next /\ hdr'[into].prev = hdr[into].prev
  /\ hdr'[into].size = hdr[into].size + BLOCK_OVERHEAD + hdr[gone].size
  /\ \A x \in Blocks \ {into, gone} :
       hdr'[x] = IF x = hdr[gone].next THEN [hdr[x] EXCEPT !.prev = into] ELSE hdr[x]

\* coalesce, where it merges, does just that.
LEMMA AbsorbFacts ==
  ASSUME ListInv, NEW into \in Blocks, NEW gone, hdr[into].next = gone, gone # NULL,
         hdr' = Absorb(into, gone)
  PROVE  AbsorbAt(into, gone)
<1>1. /\ gone \in Blocks /\ into < gone /\ into \in Nat /\ gone \in Nat
      /\ hdr[into].size \in Nat /\ hdr[gone].size \in Nat /\ hdr[gone].next \in Nat
      /\ BLOCK_OVERHEAD \in Nat
  BY LinkFacts, BlockFacts, Numbers, Zenon
<1>2. hdr[gone].next # NULL => hdr[gone].next \in Blocks \ {into, gone}
  BY <1>1, LinkFacts, BlockFacts
<1> DEFINE sz == hdr[into].size + BLOCK_OVERHEAD + hdr[gone].size
           g  == [hdr EXCEPT ![into].size = sz, ![into].next = hdr[gone].next]
<1>3. hdr' = Drop(Relink(g, into, hdr[gone].next), gone)
  BY Zenon DEF Absorb
<1>4. /\ DOMAIN g = Blocks /\ \A x \in Blocks \ {into} : g[x] = hdr[x]
      /\ g[into] = [hdr[into] EXCEPT !.size = sz, !.next = hdr[gone].next]
  BY Zenon DEF Blocks
<1>5. sz \in Nat
  BY <1>1
<1>6. /\ g[into] \in Header /\ g[into].free = hdr[into].free /\ g[into].next = hdr[gone].next
      /\ g[into].prev = hdr[into].prev /\ g[into].size = sz
  <2>1. hdr[into] \in Header
    BY Zenon DEF ListInv
  <2> HIDE DEF g, sz
  <2> QED BY <1>1, <1>4, <1>5, <2>1, Zenon DEF Header
<1> HIDE DEF g
<1>7. CASE hdr[gone].next = NULL
  <2>1. hdr' = Drop(g, gone) /\ NULL \notin Blocks
    BY <1>3, <1>7, BlockFacts, Zenon DEF Relink
  <2>2. hdr' = [x \in Blocks \ {gone} |-> g[x]]
    BY <1>4, <2>1, Zenon DEF Drop, Restrict
  <2> QED BY <1>1, <1>4, <1>6, <1>7, <2>1, <2>2, Zenon DEF AbsorbAt
<1>8. CASE hdr[gone].next # NULL
  <2> DEFINE k == [g EXCEPT ![hdr[gone].next].prev = into]
  <2>1. hdr' = Drop(k, gone)
    BY <1>3, <1>8, Zenon DEF Relink
  <2>2. /\ DOMAIN k = Blocks /\ k[hdr[gone].next] = [hdr[hdr[gone].next] EXCEPT !.prev = into]
        /\ \A x \in Blocks \ {hdr[gone].next} : k[x] = g[x]
    BY <1>2, <1>4, <1>8, Zenon
  <2> HIDE DEF k
  <2>3. hdr' = [x \in Blocks \ {gone} |-> k[x]]
    BY <2>1, <2>2, Zenon DEF Drop, Restrict
  <2>4. /\ hdr' = [x \in Blocks \ {gone} |-> hdr'[x]] /\ hdr'[into] = g[into]
        /\ \A x \in Blocks \ {gone} : hdr'[x] = k[x]
    BY <1>1, <1>2, <1>8, <2>2, <2>3, Zenon
  <2>5. \A x \in Blocks \ {into, gone} :
          hdr'[x] = IF x = hdr[gone].next THEN [hdr[x] EXCEPT !.prev = into] ELSE hdr[x]
    BY <1>2, <1>4, <1>8, <2>2, <2>4
  <2>6. /\ hdr'[into] \in Header /\ hdr'[into].free = hdr[into].free
        /\ hdr'[into].next = hdr[gone].next /\ hdr'[into].prev = hdr[into].prev
        /\ hdr'[into].size = hdr[into].size + BLOCK_OVERHEAD + hdr[gone].size
    BY <1>6, <2>4, Zenon
  <2>7. gone \in Blocks /\ into # gone
    BY <1>1
  <2> QED BY <2>4, <2>5, <2>6, <2>7, Zenon DEF AbsorbAt
<1> QED BY <1>7, <1>8, Zenon

\* Merging keeps the list in order.
LEMMA AbsorbList ==
  ASSUME ListInv, NEW into, NEW gone, AbsorbAt(into, gone), UNCHANGED <<heap_head, heap_curr>>
  PROVE  ListInv'
<1> DEFINE D == Blocks \ {gone}
<1>1. /\ into \in Blocks /\ gone \in Blocks /\ into # gone /\ hdr[into].next = gone
      /\ hdr' = [x \in D |-> hdr'[x]]
  BY Zenon DEF AbsorbAt
<1>2. /\ into \in Nat /\ gone \in Nat /\ gone # NULL /\ gone = BlockEnd(into) /\ into < gone
      /\ hdr[gone].next \in Nat /\ hdr[gone].size \in Nat /\ hdr[into].size \in Nat
      /\ BlockEnd(into) = into + BLOCK_OVERHEAD + hdr[into].size
      /\ BlockEnd(gone) = gone + BLOCK_OVERHEAD + hdr[gone].size
      /\ BLOCK_OVERHEAD \in Nat /\ heap_curr \in Nat /\ BlockEnd(gone) <= heap_curr
      /\ hdr[gone].prev = into /\ gone < BlockEnd(gone) /\ BlockEnd(gone) \in Nat
  <2>1. gone # NULL
    BY <1>1, BlockFacts, Zenon
  <2> QED BY <1>1, <2>1, LinkFacts, BlockFacts, Numbers, Zenon
<1>3. hdr[gone].next # NULL => /\ hdr[gone].next \in D \ {into}
                               /\ hdr[gone].next = BlockEnd(gone)
  <2>1. hdr[gone].next # NULL => /\ hdr[gone].next \in Blocks /\ gone < hdr[gone].next
                                 /\ hdr[gone].next = BlockEnd(gone)
    BY <1>1, LinkFacts, Zenon
  <2> QED BY <1>2, <2>1
<1>4. /\ hdr'[into] \in Header /\ hdr'[into].next = hdr[gone].next
      /\ hdr'[into].prev = hdr[into].prev
      /\ into + BLOCK_OVERHEAD + hdr'[into].size = BlockEnd(gone)
  <2>1. /\ hdr'[into] \in Header /\ hdr'[into].next = hdr[gone].next
        /\ hdr'[into].prev = hdr[into].prev
        /\ hdr'[into].size = hdr[into].size + BLOCK_OVERHEAD + hdr[gone].size
    BY Zenon DEF AbsorbAt
  <2> QED BY <1>2, <2>1
<1>5. \A x \in D \ {into} :
        /\ hdr'[x] \in Header /\ hdr'[x].next = hdr[x].next /\ hdr'[x].size = hdr[x].size
        /\ hdr'[x].prev = IF x = hdr[gone].next THEN into ELSE hdr[x].prev
  <2> TAKE x \in D \ {into}
  <2>1. hdr[x] \in Header /\ into \in Nat
    BY <1>2, Zenon DEF ListInv
  <2>2. hdr'[x] = IF x = hdr[gone].next THEN [hdr[x] EXCEPT !.prev = into] ELSE hdr[x]
    BY Zenon DEF AbsorbAt
  <2>3. CASE x = hdr[gone].next
    BY <2>1, <2>2, <2>3, Zenon DEF Header
  <2>4. CASE x # hdr[gone].next
    BY <2>1, <2>2, <2>4, Zenon
  <2> QED BY <2>3, <2>4, Zenon
<1>6. D \subseteq HEAP_START .. heap_end /\ \A x \in D : hdr'[x] \in Header /\ Aligned(x)
  BY <1>4, <1>5, BlockFacts, Zenon DEF ListInv
<1>7. heap_head' = HEAP_START /\ heap_head = HEAP_START /\ heap_curr' = heap_curr
  BY <1>1, LinkFacts, Zenon
<1>8. ASSUME NEW x \in D
      PROVE  LET end == x + BLOCK_OVERHEAD + hdr'[x].size
             IN  /\ hdr'[x].next = NULL => end = heap_curr'
                 /\ hdr'[x].next # NULL => /\ hdr'[x].next = end
                                          /\ end \in D /\ hdr'[end].prev = x
                 /\ hdr'[x].prev = NULL => x = heap_head'
                 /\ hdr'[x].prev # NULL => /\ hdr'[x].prev \in D
                                          /\ hdr'[hdr'[x].prev].next = x
                 /\ end <= heap_curr'
                 /\ \A y \in D : x < y => end <= y
  <2>1. \A y \in Blocks : y \in Nat /\ y # NULL
    BY BlockFacts, Zenon
  <2>2. CASE x = into
    <3>1. \A y \in D : into < y => BlockEnd(gone) <= y
      <4> SUFFICES ASSUME NEW y \in D, into < y PROVE BlockEnd(gone) <= y
        BY Zenon
      <4>1. gone <= y /\ y # gone
        BY <1>1, <1>2, LinkFacts
      <4>2. gone < y
        BY <1>2, <2>1, <4>1
      <4> QED BY <1>1, <4>2, LinkFacts, Zenon
    <3>2. hdr[into].prev # NULL => /\ hdr[into].prev \in D \ {into}
                                   /\ hdr[hdr[into].prev].next = into
      <4>1. hdr[into].prev # NULL => hdr[into].prev \in Blocks /\ hdr[hdr[into].prev].next = into
        BY <1>1, LinkFacts, Zenon
      <4>2. hdr[gone].next # into
        BY <1>1, <1>2, <1>3, <2>1, Zenon
      <4> QED BY <1>1, <4>1, <4>2, Zenon
    <3>3. /\ hdr[gone].next = NULL => BlockEnd(gone) = heap_curr
          /\ hdr[into].prev = NULL => into = heap_head
      BY <1>1, LinkFacts, Zenon
    <3>4. hdr[gone].next # NULL => hdr'[BlockEnd(gone)].prev = into
      BY <1>3, <1>5, Zenon
    <3>5. hdr[into].prev # NULL => hdr'[hdr[into].prev].next = into
      BY <1>5, <3>2, Zenon
    <3> DEFINE end == into + BLOCK_OVERHEAD + hdr'[into].size
    <3>6. /\ end = BlockEnd(gone)
          /\ hdr'[into].next = NULL => end = heap_curr'
          /\ hdr'[into].next # NULL => /\ hdr'[into].next = end
                                        /\ end \in D /\ hdr'[end].prev = into
      BY <1>3, <1>4, <1>7, <3>3, <3>4, Zenon
    <3>7. /\ hdr'[into].prev = NULL => into = heap_head'
          /\ hdr'[into].prev # NULL => /\ hdr'[into].prev \in D
                                        /\ hdr'[hdr'[into].prev].next = into
      BY <1>4, <1>7, <3>2, <3>3, <3>5, Zenon
    <3> HIDE DEF end
    <3>8. end <= heap_curr' /\ \A y \in D : into < y => end <= y
      BY <1>2, <1>7, <3>1, <3>6, Zenon
    <3> QED BY <2>2, <3>6, <3>7, <3>8, Zenon DEF end
  <2>3. CASE x # into
    <3>1. x + BLOCK_OVERHEAD + hdr'[x].size = BlockEnd(x)
      BY <1>5, <2>3, BlockFacts, Zenon
    <3>2. BlockEnd(x) <= heap_curr /\ \A y \in D : x < y => BlockEnd(x) <= y
      BY LinkFacts, BlockFacts, Zenon
    <3>3. /\ hdr'[x].next = NULL => BlockEnd(x) = heap_curr
          /\ hdr'[x].next # NULL => /\ hdr'[x].next = BlockEnd(x) /\ BlockEnd(x) \in D
                                    /\ hdr'[BlockEnd(x)].prev = x
      <4>1. hdr[x].next # NULL => /\ hdr[x].next = BlockEnd(x) /\ hdr[x].next \in Blocks
                                  /\ hdr[hdr[x].next].prev = x
        BY LinkFacts, Zenon
      <4>2. hdr[x].next # NULL => hdr[x].next # gone /\ hdr[x].next # hdr[gone].next
        BY <1>1, <1>2, <2>3, <4>1, LinkFacts, Zenon
      <4>3. /\ hdr'[x].next = hdr[x].next
            /\ hdr[x].next = NULL => BlockEnd(x) = heap_curr
        BY <1>5, <2>3, LinkFacts, Zenon
      <4>4. CASE hdr[x].next = into
        BY <1>1, <1>4, <1>5, <2>1, <2>3, <4>1, <4>3, <4>4, Zenon
      <4>5. CASE hdr[x].next # into
        BY <1>5, <2>3, <4>1, <4>2, <4>3, <4>5, Zenon
      <4> QED BY <4>4, <4>5, Zenon
    <3>4. /\ hdr'[x].prev = NULL => x = heap_head'
          /\ hdr'[x].prev # NULL => hdr'[x].prev \in D /\ hdr'[hdr'[x].prev].next = x
      <4>1. CASE x = hdr[gone].next
        <5>1. hdr'[x].prev = into /\ into \in D /\ into # NULL /\ hdr'[into].next = x
          BY <1>1, <1>4, <1>5, <2>1, <2>3, <4>1, Zenon
        <5> QED BY <5>1, Zenon
      <4>2. CASE x # hdr[gone].next
        <5>1. /\ hdr'[x].prev = hdr[x].prev
              /\ hdr[x].prev = NULL => x = heap_head
              /\ hdr[x].prev # NULL => hdr[x].prev \in Blocks /\ hdr[hdr[x].prev].next = x
          BY <1>5, <2>3, <4>2, LinkFacts, Zenon
        <5>2. hdr[x].prev # NULL => hdr[x].prev # gone /\ hdr[x].prev # into
          BY <1>1, <4>2, <5>1, Zenon
        <5>3. hdr[x].prev # NULL => hdr[x].prev \in D \ {into}
          BY <5>1, <5>2, Zenon
        <5>4. hdr[x].prev # NULL => hdr'[hdr[x].prev].next = x
          BY <1>5, <5>1, <5>3, Zenon
        <5> QED BY <1>7, <5>1, <5>3, <5>4, Zenon
      <4> QED BY <4>1, <4>2, Zenon
    <3> QED BY <1>7, <3>1, <3>2, <3>3, <3>4, Zenon
  <2> QED BY <2>2, <2>3, Zenon
<1>9. D # {} /\ \E x \in D : hdr'[x].next = NULL
  <2>1. PICK x \in Blocks : hdr[x].next = NULL
    BY <1>1, Zenon DEF ListInv, BlocksApart
  <2>2. CASE x = gone
    BY <1>1, <1>4, <2>1, <2>2, Zenon
  <2>3. CASE x # gone
    BY <1>1, <1>2, <1>5, <2>1, <2>3, Zenon
  <2> QED BY <2>2, <2>3, Zenon
<1>10. heap_curr' \in HEAP_START .. heap_end /\ Aligned(heap_curr')
  BY <1>7, Zenon DEF ListInv, BlocksApart
<1> HIDE DEF D
<1> QED BY <1>1, <1>6, <1>7, <1>8, <1>9, <1>10, ListInvNext, Zenon

\* What a turn of heap_trim's first loop does to the headers.
PopAt(tail) ==
  /\ tail \in Blocks /\ hdr[tail].next = NULL /\ BlockEnd(tail) = heap_curr
  /\ hdr' = [x \in Blocks \ {tail} |-> hdr'[x]]
  /\ \A x \in Blocks \ {tail} :
       hdr'[x] = IF x = hdr[tail].prev THEN [hdr[x] EXCEPT !.next = NULL] ELSE hdr[x]
  /\ heap_head' = (IF hdr[tail].prev = NULL THEN NULL ELSE heap_head) /\ heap_curr' = tail

\* The list is not empty when heap_head is not NULL.
LEMMA HeadFacts ==
  ASSUME ListInv PROVE heap_head # NULL <=> Blocks # {}
BY Numbers, Zenon DEF ListInv, ListTiles

\* heap_trim_pop does just that.
LEMMA PopFacts ==
  ASSUME ListInv, heap_trim_pop
  PROVE  PopAt(heap_tail)
<1> DEFINE tail == heap_tail
           prev == hdr[tail].prev
<1>1. /\ tail \in Blocks /\ hdr[tail].next = NULL /\ BlockEnd(tail) = heap_curr
  BY HeadFacts, TailFacts, Zenon DEF heap_trim_pop
<1>2. /\ hdr' = Drop(IF prev = NULL THEN hdr ELSE [hdr EXCEPT ![prev].next = NULL], tail)
      /\ heap_head' = (IF prev = NULL THEN NULL ELSE heap_head) /\ heap_curr' = tail
  BY Zenon DEF heap_trim_pop
<1>3. /\ prev # NULL => prev \in Blocks \ {tail}
      /\ NULL \notin Blocks
  BY <1>1, LinkFacts, BlockFacts, Zenon
<1> HIDE DEF tail
<1>4. CASE prev = NULL
  <2>1. hdr' = [x \in Blocks \ {tail} |-> hdr[x]]
    BY <1>2, <1>4, Zenon DEF Drop, Restrict, Blocks
  <2> QED BY <1>1, <1>2, <1>3, <1>4, <2>1, Zenon DEF PopAt, tail
<1>5. CASE prev # NULL
  <2> DEFINE k == [hdr EXCEPT ![prev].next = NULL]
  <2>1. hdr' = Drop(k, tail)
    BY <1>2, <1>5, Zenon
  <2>2. /\ DOMAIN k = Blocks /\ k[prev] = [hdr[prev] EXCEPT !.next = NULL]
        /\ \A x \in Blocks \ {prev} : k[x] = hdr[x]
    BY <1>3, <1>5, Zenon DEF Blocks
  <2> HIDE DEF k
  <2>3. hdr' = [x \in Blocks \ {tail} |-> k[x]]
    BY <2>1, <2>2, Zenon DEF Drop, Restrict
  <2>4. \A x \in Blocks \ {tail} :
          hdr'[x] = IF x = prev THEN [hdr[x] EXCEPT !.next = NULL] ELSE hdr[x]
    BY <1>3, <1>5, <2>2, <2>3, Zenon
  <2>5. hdr' = [x \in Blocks \ {tail} |-> hdr'[x]]
    BY <2>3, Zenon
  <2> QED BY <1>1, <1>2, <2>4, <2>5, Zenon DEF PopAt, tail
<1> QED BY <1>4, <1>5, Zenon

\* Dropping the tail keeps the list in order.
LEMMA PopList ==
  ASSUME ListInv, NEW tail, PopAt(tail)
  PROVE  ListInv'
<1> DEFINE D == Blocks \ {tail}
           prev == hdr[tail].prev
<1>1. /\ tail \in Blocks /\ hdr[tail].next = NULL /\ BlockEnd(tail) = heap_curr
      /\ hdr' = [x \in D |-> hdr'[x]] /\ heap_curr' = tail
      /\ heap_head' = IF prev = NULL THEN NULL ELSE heap_head
  BY Zenon DEF PopAt
<1>2. /\ \A x \in D : x \in Nat /\ x # NULL /\ BlockEnd(x) \in Nat /\ BlockEnd(x) <= tail
      /\ \A x \in D : hdr[x].next # NULL
      /\ tail \in Nat /\ tail # NULL /\ Aligned(tail) /\ tail \in HEAP_START .. heap_end
  <2>1. \A x \in D : hdr[x].next # NULL /\ BlockEnd(x) <= tail
    <3>1. heap_tail \in Blocks /\ \A b \in Blocks \ {heap_tail} : hdr[b].next # NULL /\ BlockEnd(b) <= heap_tail
      BY <1>1, TailFacts, Zenon
    <3>2. heap_tail = tail
      BY <1>1, <3>1, Zenon
    <3> QED BY <3>1, <3>2, Zenon
  <2> QED BY <1>1, <2>1, BlockFacts, Zenon DEF ListInv
<1>3. prev # NULL => /\ prev \in D /\ hdr[prev].next = tail /\ BlockEnd(prev) = tail
                     /\ heap_head = HEAP_START
  BY <1>1, <1>2, LinkFacts, Zenon
<1>4. \A x \in D :
        /\ hdr'[x] \in Header /\ hdr'[x].prev = hdr[x].prev /\ hdr'[x].size = hdr[x].size
        /\ hdr'[x].next = IF x = prev THEN NULL ELSE hdr[x].next
  <2> TAKE x \in D
  <2>1. hdr[x] \in Header /\ NULL \in Nat
    BY Numbers, Zenon DEF ListInv
  <2>2. hdr'[x] = IF x = prev THEN [hdr[x] EXCEPT !.next = NULL] ELSE hdr[x]
    BY Zenon DEF PopAt
  <2>3. CASE x = prev
    BY <2>1, <2>2, <2>3, Zenon DEF Header
  <2>4. CASE x # prev
    BY <2>1, <2>2, <2>4, Zenon
  <2> QED BY <2>3, <2>4, Zenon
<1>5. D \subseteq HEAP_START .. heap_end /\ \A x \in D : hdr'[x] \in Header /\ Aligned(x)
  BY <1>4, BlockFacts, Zenon DEF ListInv
<1>6. prev = NULL => D = {} /\ tail = HEAP_START
  <2> SUFFICES ASSUME prev = NULL PROVE D = {} /\ tail = HEAP_START
    BY Zenon
  <2>1. tail = HEAP_START
    BY <1>1, LinkFacts, Zenon
  <2>2. \A x \in D : HEAP_START <= x /\ x < BlockEnd(x) /\ BlockEnd(x) <= HEAP_START
    BY <1>2, <2>1, BlockFacts, Zenon
  <2>3. \A x \in D : FALSE
    BY <1>2, <2>2, Numbers
  <2> QED BY <2>1, <2>3, Zenon
<1>7. ASSUME NEW x \in D
      PROVE  LET end == x + BLOCK_OVERHEAD + hdr'[x].size
             IN  /\ hdr'[x].next = NULL => end = heap_curr'
                 /\ hdr'[x].next # NULL => /\ hdr'[x].next = end
                                          /\ end \in D /\ hdr'[end].prev = x
                 /\ hdr'[x].prev = NULL => x = heap_head'
                 /\ hdr'[x].prev # NULL => /\ hdr'[x].prev \in D
                                          /\ hdr'[hdr'[x].prev].next = x
                 /\ end <= heap_curr'
                 /\ \A y \in D : x < y => end <= y
  <2>1. /\ x + BLOCK_OVERHEAD + hdr'[x].size = BlockEnd(x) /\ BlockEnd(x) <= heap_curr'
        /\ \A y \in D : x < y => BlockEnd(x) <= y
    BY <1>1, <1>2, <1>4, LinkFacts, BlockFacts, Zenon
  <2>2. prev # NULL /\ heap_head' = heap_head
    BY <1>1, <1>6, Zenon
  <2>3. /\ hdr'[x].next = NULL => BlockEnd(x) = heap_curr'
        /\ hdr'[x].next # NULL => /\ hdr'[x].next = BlockEnd(x) /\ BlockEnd(x) \in D
                                  /\ hdr'[BlockEnd(x)].prev = x
    <3>1. CASE x = prev
      BY <1>1, <1>3, <1>4, <2>2, <3>1, Zenon
    <3>2. CASE x # prev
      <4>1. hdr'[x].next = hdr[x].next /\ hdr[x].next # NULL
        BY <1>2, <1>4, <3>2, Zenon
      <4>2. hdr[x].next = BlockEnd(x) /\ BlockEnd(x) \in Blocks /\ hdr[BlockEnd(x)].prev = x
        BY <4>1, LinkFacts
      <4>3. BlockEnd(x) # tail
        BY <3>2, <4>2, Zenon
      <4> QED BY <1>4, <4>1, <4>2, <4>3, Zenon
    <3> QED BY <3>1, <3>2, Zenon
  <2>4. /\ hdr[x].prev = NULL => x = heap_head
        /\ hdr[x].prev # NULL => hdr[x].prev \in D \ {prev} /\ hdr[hdr[x].prev].next = x
    BY <1>1, <1>2, <1>3, <2>2, LinkFacts
  <2>5. hdr[x].prev # NULL => hdr'[hdr[x].prev].next = x
    BY <1>4, <2>4, Zenon
  <2> QED BY <1>4, <2>1, <2>2, <2>3, <2>4, <2>5, Zenon
<1>8. D # {} => \E x \in D : hdr'[x].next = NULL
  BY <1>3, <1>4, <1>6, Zenon
<1>9. heap_head' = IF D = {} THEN NULL ELSE HEAP_START
  BY <1>1, <1>3, <1>6, Zenon
<1>10. D = {} => heap_curr' = HEAP_START
  BY <1>1, <1>3, <1>6, Zenon
<1> HIDE DEF D
<1> QED BY <1>1, <1>2, <1>5, <1>7, <1>8, <1>9, <1>10, ListInvNext, Zenon

\* Marking a block, free or in use, leaves the list as it is.
LEMMA MarkList ==
  ASSUME ListInv, NEW b \in Blocks, NEW f \in BOOLEAN, hdr' = [hdr EXCEPT ![b].free = f],
         UNCHANGED <<heap_head, heap_curr>>
  PROVE  /\ ListInv' /\ Blocks' = Blocks /\ hdr'[b].free = f
         /\ \A x \in Blocks \ {b} : hdr'[x] = hdr[x]
         /\ \A x \in Blocks : /\ hdr'[x].next = hdr[x].next /\ hdr'[x].prev = hdr[x].prev
                              /\ hdr'[x].size = hdr[x].size
<1>1. hdr = [x \in Blocks |-> hdr[x]] /\ hdr[b] \in Header
  BY Zenon DEF ListInv, BlocksApart
<1>2. /\ hdr' = [x \in Blocks |-> hdr'[x]] /\ hdr'[b] = [hdr[b] EXCEPT !.free = f]
      /\ \A x \in Blocks \ {b} : hdr'[x] = hdr[x]
  BY <1>1, Zenon
<1>3. /\ hdr'[b] \in Header /\ hdr'[b].next = hdr[b].next /\ hdr'[b].prev = hdr[b].prev
      /\ hdr'[b].size = hdr[b].size /\ hdr'[b].free = f
  <2>1. hdr'[b] = [hdr[b] EXCEPT !.free = f]
    BY <1>2, Zenon
  <2> QED BY <1>1, <2>1, Zenon DEF Header
<1>4. /\ Blocks' = Blocks
      /\ \A x \in Blocks : /\ hdr'[x].next = hdr[x].next /\ hdr'[x].prev = hdr[x].prev
                           /\ hdr'[x].size = hdr[x].size /\ hdr'[x] \in Header
  <2>1. \A x \in Blocks : hdr[x] \in Header
    BY Zenon DEF ListInv
  <2>2. Blocks' = Blocks
    BY <1>2, Zenon DEF Blocks
  <2> QED BY <1>2, <1>3, <2>1, <2>2, Zenon
<1>5. \A x \in Blocks : /\ hdr'[x].next # NULL => hdr'[x].next \in Blocks
                        /\ hdr'[x].prev # NULL => hdr'[x].prev \in Blocks
                        /\ BlockEnd(x) = x + BLOCK_OVERHEAD + hdr'[x].size
                        /\ BlockEnd(x) <= heap_curr'
  BY <1>4, LinkFacts, BlockFacts
<1>6. ASSUME NEW x \in Blocks
      PROVE  LET end == x + BLOCK_OVERHEAD + hdr'[x].size
             IN  /\ hdr'[x].next = NULL => end = heap_curr'
                 /\ hdr'[x].next # NULL => /\ hdr'[x].next = end
                                          /\ end \in Blocks /\ hdr'[end].prev = x
                 /\ hdr'[x].prev = NULL => x = heap_head'
                 /\ hdr'[x].prev # NULL => /\ hdr'[x].prev \in Blocks
                                          /\ hdr'[hdr'[x].prev].next = x
                 /\ end <= heap_curr'
                 /\ \A y \in Blocks : x < y => end <= y
  BY <1>4, <1>5, LinkFacts
<1>7. /\ heap_head' = IF Blocks = {} THEN NULL ELSE HEAP_START
      /\ Blocks = {} => heap_curr' = HEAP_START
      /\ heap_curr' \in HEAP_START .. heap_end /\ Aligned(heap_curr')
      /\ Blocks \subseteq HEAP_START .. heap_end /\ \A x \in Blocks : Aligned(x)
      /\ Blocks # {} => \E x \in Blocks : hdr'[x].next = NULL
  BY <1>4, Zenon DEF ListInv, ListTiles, BlocksApart
<1>8. ListInv'
  BY <1>2, <1>4, <1>6, <1>7, ListInvNext, Zenon
<1> QED BY <1>2, <1>3, <1>4, <1>8, Zenon

\* A step that does not touch the list leaves it in order.
LEMMA SameList ==
  ASSUME ListInv, UNCHANGED <<hdr, heap_head, heap_curr>>
  PROVE  ListInv' /\ Blocks' = Blocks
<1>1. Blocks' = Blocks /\ NULL' = NULL /\ heap_end' = heap_end /\ Header' = Header
  BY Zenon DEF Blocks, NULL, heap_end, Header
<1>2. \A b \in Blocks : BlockEnd(b)' = BlockEnd(b)
  BY Zenon DEF BlockEnd
<1>3. ListTiles'
  BY <1>1, <1>2, Zenon DEF ListInv, ListTiles
<1>4. BlocksApart'
  BY <1>1, <1>2, Zenon DEF ListInv, BlocksApart, Aligned
<1> QED BY <1>1, <1>3, <1>4, Zenon DEF ListInv
-----------------------------------------------------------------------------
\* The part of the invariant that is about the regions callers hold.
OwnedInv == OwnedBlocks /\ \A p \in DOMAIN owned : p \in Nat /\ owned[p] \in Sizes

\* A pointer and its block.
LEMMA OwnedFacts ==
  ASSUME ListInv, OwnedInv, NEW p \in DOMAIN owned
  PROVE  /\ p \in Nat /\ owned[p] \in Sizes /\ owned[p] \in Nat
         /\ p - BLOCK_OVERHEAD \in Blocks /\ ~hdr[p - BLOCK_OVERHEAD].free
         /\ owned[p] <= hdr[p - BLOCK_OVERHEAD].size
         /\ p = (p - BLOCK_OVERHEAD) + BLOCK_OVERHEAD
<1>1. p \in Nat /\ owned[p] \in Sizes /\ owned[p] \in Nat
  BY Numbers, Zenon DEF OwnedInv
<1>2. /\ p - BLOCK_OVERHEAD \in Blocks /\ ~hdr[p - BLOCK_OVERHEAD].free
      /\ owned[p] <= hdr[p - BLOCK_OVERHEAD].size
  BY Zenon DEF OwnedInv, OwnedBlocks
<1>3. p = (p - BLOCK_OVERHEAD) + BLOCK_OVERHEAD
  BY <1>1, Numbers
<1> QED BY <1>1, <1>2, <1>3, Zenon

\* OwnedInv after a step that leaves the blocks in use as they are.
LEMMA OwnedSame ==
  ASSUME ListInv, OwnedInv, UNCHANGED owned, NEW D, hdr' = [x \in D |-> hdr'[x]],
         \A x \in Blocks : ~hdr[x].free => /\ x \in D /\ ~hdr'[x].free
                                          /\ hdr'[x].size = hdr[x].size,
         \A x \in D : ~hdr'[x].free => x \in Blocks /\ ~hdr[x].free
  PROVE  OwnedInv'
<1>1. Blocks' = D
  BY Zenon DEF Blocks
<1>2. ASSUME NEW p \in DOMAIN owned'
      PROVE  /\ p \in Nat /\ owned'[p] \in Sizes /\ p - BLOCK_OVERHEAD \in D
             /\ ~hdr'[p - BLOCK_OVERHEAD].free
             /\ owned'[p] <= hdr'[p - BLOCK_OVERHEAD].size
  BY OwnedFacts, Zenon
<1>3. ASSUME NEW x \in D, ~hdr'[x].free PROVE x + BLOCK_OVERHEAD \in DOMAIN owned'
  BY <1>3, Zenon DEF OwnedInv, OwnedBlocks
<1> QED BY <1>1, <1>2, <1>3, Zenon DEF OwnedInv, OwnedBlocks

\* OwnedInv after a step that hands out the payload of block b.
LEMMA OwnedNext ==
  ASSUME ListInv, OwnedInv, NEW D, hdr' = [x \in D |-> hdr'[x]],
         \A x \in Blocks : ~hdr[x].free => /\ x \in D /\ ~hdr'[x].free
                                          /\ hdr'[x].size = hdr[x].size,
         NEW b \in D, b \in Nat, ~hdr'[b].free,
         \A x \in D \ {b} : ~hdr'[x].free => x \in Blocks /\ ~hdr[x].free,
         NEW n \in Sizes, n <= hdr'[b].size, b + BLOCK_OVERHEAD \notin DOMAIN owned,
         owned' = Put(owned, b + BLOCK_OVERHEAD, n)
  PROVE  OwnedInv'
<1>1. Blocks' = D /\ BLOCK_OVERHEAD \in Nat
  BY Numbers, Zenon DEF Blocks
<1>2. /\ DOMAIN owned' = DOMAIN owned \cup {b + BLOCK_OVERHEAD}
      /\ owned'[b + BLOCK_OVERHEAD] = n /\ \A p \in DOMAIN owned : owned'[p] = owned[p]
  BY Zenon DEF Put
<1>3. ASSUME NEW p \in DOMAIN owned'
      PROVE  /\ p \in Nat /\ owned'[p] \in Sizes /\ p - BLOCK_OVERHEAD \in D
             /\ ~hdr'[p - BLOCK_OVERHEAD].free
             /\ owned'[p] <= hdr'[p - BLOCK_OVERHEAD].size
  <2>1. CASE p \in DOMAIN owned
    BY <1>2, <2>1, OwnedFacts, Zenon
  <2>2. CASE p = b + BLOCK_OVERHEAD
    <3>1. p \in Nat /\ p - BLOCK_OVERHEAD = b
      BY <1>1, <2>2
    <3> QED BY <1>2, <2>2, <3>1, Zenon
  <2> QED BY <1>2, <2>1, <2>2, Zenon
<1>4. ASSUME NEW x \in D, ~hdr'[x].free PROVE x + BLOCK_OVERHEAD \in DOMAIN owned'
  <2>1. CASE x = b
    BY <1>2, <2>1, Zenon
  <2>2. CASE x # b
    <3>1. x \in Blocks /\ ~hdr[x].free
      BY <1>4, <2>2, Zenon
    <3>2. x + BLOCK_OVERHEAD \in DOMAIN owned
      BY <3>1, Zenon DEF OwnedInv, OwnedBlocks
    <3> QED BY <1>2, <3>2, Zenon
  <2> QED BY <2>1, <2>2, Zenon
<1> QED BY <1>1, <1>3, <1>4, Zenon DEF OwnedInv, OwnedBlocks

\* The size kmalloc rounds a request up to.
LEMMA RequestSize ==
  ASSUME NEW n \in Sizes
  PROVE  /\ align_up(n, ALIGN) \in Nat /\ Aligned(align_up(n, ALIGN)) /\ n \in Nat
         /\ n <= align_up(n, ALIGN)
BY Numbers, Alignment

\* MergesLeft between calls and while kmalloc maps pages.
LEMMA MergesIdle ==
  ASSUME MergesLeft, pc \in {"idle", "grow", "unmap"}, NEW b \in Blocks, hdr[b].free
  PROVE  hdr[b].next # NULL /\ ~hdr[hdr[b].next].free
BY Zenon DEF MergesLeft, Isolated

\* MergesLeft after a step that ends between calls or while pages are mapped.
LEMMA MergesIdleNext ==
  ASSUME NEW D, hdr' = [x \in D |-> hdr'[x]], pc' \in {"idle", "grow", "unmap"},
         \A x \in D : hdr'[x].free => hdr'[x].next # NULL /\ ~hdr'[hdr'[x].next].free
  PROVE  MergesLeft'
<1>1. Blocks' = D /\ NULL' = NULL
  BY Zenon DEF Blocks, NULL
<1> QED BY <1>1, Zenon DEF MergesLeft, Isolated

\* kmalloc's append: the tail it links from is in use, so no free block gets a new
\* neighbour.
LEMMA AppendStep ==
  ASSUME ListInv, OwnedInv, MergesLeft, PagesLeft, cur \in Nat, kmalloc_append
  PROVE  /\ ListInv' /\ OwnedInv' /\ MergesLeft'
         /\ owned' = Put(owned, heap_curr + BLOCK_OVERHEAD, req)
<1>1. /\ pc = "grow" /\ pc' = "idle" /\ heap_curr \in Nat
      /\ owned' = Put(owned, heap_curr + BLOCK_OVERHEAD, req)
  BY Alignment, Numbers DEF kmalloc_append, ListInv, BlocksApart
<1>2. /\ AppendAt(cur) /\ heap_head' = HEAP_START
      /\ heap_curr' = heap_curr + BLOCK_OVERHEAD + cur /\ heap_curr' <= heap_end
      /\ Aligned(cur) /\ req \in Sizes /\ req <= cur
  BY <1>1, AppendFacts, Zenon DEF PagesLeft
<1>3. ListInv'
  BY <1>2, AppendList, Zenon
<1> DEFINE D == Blocks \cup {heap_curr}
<1>4. /\ heap_curr \notin Blocks /\ hdr' = [x \in D |-> hdr'[x]]
      /\ hdr'[heap_curr].size = cur /\ ~hdr'[heap_curr].free
  BY <1>2 DEF AppendAt
<1>5. \A x \in Blocks : /\ hdr'[x].size = hdr[x].size /\ hdr'[x].free = hdr[x].free
                        /\ x # heap_tail => hdr'[x].next = hdr[x].next
  <2> TAKE x \in Blocks
  <2>1. hdr[x] \in Header
    BY Zenon DEF ListInv
  <2>2. hdr'[x] = IF x = heap_tail THEN [hdr[x] EXCEPT !.next = heap_curr] ELSE hdr[x]
    BY <1>2, Zenon DEF AppendAt
  <2>3. CASE x = heap_tail
    BY <2>1, <2>2, <2>3, Zenon DEF Header
  <2>4. CASE x # heap_tail
    BY <2>2, <2>4, Zenon
  <2> QED BY <2>3, <2>4, Zenon
<1>6. OwnedInv'
  <2>1. heap_curr + BLOCK_OVERHEAD \notin DOMAIN owned
    <3>1. (heap_curr + BLOCK_OVERHEAD) - BLOCK_OVERHEAD = heap_curr
      BY <1>1, Numbers
    <3> QED BY <1>4, <3>1, OwnedFacts, Zenon
  <2>2. \A x \in Blocks : ~hdr[x].free => /\ x \in D /\ ~hdr'[x].free
                                          /\ hdr'[x].size = hdr[x].size
    BY <1>5, Zenon
  <2>3. \A x \in D \ {heap_curr} : ~hdr'[x].free => x \in Blocks /\ ~hdr[x].free
    BY <1>5, Zenon
  <2>4. heap_curr \in D
    BY Zenon
  <2> HIDE DEF D
  <2> QED BY <1>1, <1>2, <1>4, <2>1, <2>2, <2>3, <2>4, OwnedNext, Zenon
<1>7. MergesLeft'
  <2>1. ASSUME NEW x \in D, hdr'[x].free
        PROVE  hdr'[x].next # NULL /\ ~hdr'[hdr'[x].next].free
    <3>1. x \in Blocks /\ hdr[x].free
      BY <1>4, <1>5, <2>1, Zenon
    <3>2. hdr[x].next # NULL /\ ~hdr[hdr[x].next].free /\ hdr[x].next \in Blocks
      BY <1>1, <3>1, MergesIdle, LinkFacts, Zenon
    <3>3. x # heap_tail
      BY <3>1, <3>2, TailFacts, Zenon
    <3> QED BY <1>5, <3>1, <3>2, <3>3, Zenon
  <2> HIDE DEF D
  <2> QED BY <1>1, <1>4, <2>1, MergesIdleNext, Zenon
<1> QED BY <1>1, <1>3, <1>6, <1>7, Zenon

\* kfree marks a block; the only free block that may get a free successor by this is
\* its predecessor.
LEMMA FreeStep ==
  ASSUME ListInv, OwnedInv, MergesLeft, NEW ptr \in DOMAIN owned, kfree(ptr)
  PROVE  /\ ListInv' /\ OwnedInv' /\ MergesLeft' /\ cur' \in Blocks
         /\ cur' = ptr - BLOCK_OVERHEAD
<1> DEFINE b == ptr - BLOCK_OVERHEAD
<1>1. /\ pc = "idle" /\ hdr' = [hdr EXCEPT ![b].free = TRUE] /\ owned' = Drop(owned, ptr)
      /\ pc' = "merge_next" /\ cur' = b /\ UNCHANGED <<heap_head, heap_curr>>
  BY Zenon DEF kfree
<1>2. /\ b \in Blocks /\ ~hdr[b].free /\ ptr \in Nat /\ ptr = b + BLOCK_OVERHEAD
  BY OwnedFacts, Zenon
<1>3. /\ DOMAIN owned' = DOMAIN owned \ {ptr}
      /\ \A p \in DOMAIN owned' : owned'[p] = owned[p]
  BY <1>1, Zenon DEF Drop, Restrict
<1> HIDE DEF b
<1>4. /\ ListInv' /\ Blocks' = Blocks /\ hdr'[b].free
      /\ \A x \in Blocks \ {b} : hdr'[x] = hdr[x]
      /\ \A x \in Blocks : hdr'[x].next = hdr[x].next
  BY <1>1, <1>2, MarkList, Zenon
<1>5. OwnedInv'
  <2>1. ASSUME NEW p \in DOMAIN owned'
        PROVE  /\ p \in Nat /\ owned'[p] \in Sizes /\ p - BLOCK_OVERHEAD \in Blocks
               /\ ~hdr'[p - BLOCK_OVERHEAD].free
               /\ owned'[p] <= hdr'[p - BLOCK_OVERHEAD].size
    <3>1. /\ p \in Nat /\ owned[p] \in Sizes /\ p - BLOCK_OVERHEAD \in Blocks /\ p # ptr
          /\ ~hdr[p - BLOCK_OVERHEAD].free /\ owned[p] <= hdr[p - BLOCK_OVERHEAD].size
          /\ p = (p - BLOCK_OVERHEAD) + BLOCK_OVERHEAD
      BY <1>3, OwnedFacts, Zenon
    <3>2. p - BLOCK_OVERHEAD # b
      BY <1>2, <3>1, Zenon
    <3> QED BY <1>3, <1>4, <3>1, <3>2, Zenon
  <2>2. ASSUME NEW x \in Blocks, ~hdr'[x].free PROVE x + BLOCK_OVERHEAD \in DOMAIN owned'
    <3>1. x # b /\ ~hdr[x].free
      BY <1>4, <2>2, Zenon
    <3>2. x + BLOCK_OVERHEAD \in DOMAIN owned
      BY <3>1, Zenon DEF OwnedInv, OwnedBlocks
    <3>3. x + BLOCK_OVERHEAD # ptr
      BY <1>2, <3>1, BlockFacts, Numbers
    <3> QED BY <1>3, <3>2, <3>3, Zenon
  <2> QED BY <1>4, <2>1, <2>2, Zenon DEF OwnedInv, OwnedBlocks
<1>6. MergesLeft'
  <2>1. ASSUME NEW x \in Blocks \ {b}, hdr'[x].free
        PROVE  hdr'[x].next = b \/ (hdr'[x].next # NULL /\ ~hdr'[hdr'[x].next].free)
    <3>1. hdr[x].free
      BY <1>4, <2>1, Zenon
    <3>2. hdr[x].next # NULL /\ ~hdr[hdr[x].next].free /\ hdr[x].next \in Blocks
      BY <1>1, <3>1, MergesIdle, LinkFacts, Zenon
    <3> QED BY <1>4, <3>2, Zenon
  <2>2. NULL' = NULL
    BY Zenon DEF NULL
  <2> QED BY <1>1, <1>2, <1>4, <2>1, <2>2, Zenon DEF MergesLeft, Isolated
<1> QED BY <1>1, <1>2, <1>4, <1>5, <1>6, Zenon DEF b

\* Merging two free blocks changes no block in use.
LEMMA AbsorbOwned ==
  ASSUME ListInv, OwnedInv, NEW into, NEW gone, AbsorbAt(into, gone),
         hdr[into].free, hdr[gone].free, UNCHANGED owned
  PROVE  /\ OwnedInv' /\ Blocks' = Blocks \ {gone}
         /\ hdr'[into].free /\ hdr'[into].next = hdr[gone].next
         /\ \A x \in Blocks \ {into, gone} :
              /\ hdr'[x].next = hdr[x].next /\ hdr'[x].size = hdr[x].size
              /\ hdr'[x].free = hdr[x].free
<1> DEFINE D == Blocks \ {gone}
<1>1. /\ hdr' = [x \in D |-> hdr'[x]] /\ hdr'[into].free = hdr[into].free
      /\ hdr'[into].next = hdr[gone].next /\ into \in Blocks
  BY Zenon DEF AbsorbAt
<1>2. into \in Nat
  BY <1>1, BlockFacts, Zenon
<1>3. \A x \in Blocks \ {into, gone} :
        /\ hdr'[x].next = hdr[x].next /\ hdr'[x].size = hdr[x].size
        /\ hdr'[x].free = hdr[x].free
  <2> TAKE x \in Blocks \ {into, gone}
  <2>1. hdr[x] \in Header
    BY Zenon DEF ListInv
  <2>2. hdr'[x] = IF x = hdr[gone].next THEN [hdr[x] EXCEPT !.prev = into] ELSE hdr[x]
    BY Zenon DEF AbsorbAt
  <2>3. CASE x = hdr[gone].next
    BY <2>1, <2>2, <2>3 DEF Header
  <2>4. CASE x # hdr[gone].next
    BY <2>2, <2>4, Zenon
  <2> QED BY <2>3, <2>4, Zenon
<1>4. \A x \in Blocks : ~hdr[x].free => /\ x \in D /\ ~hdr'[x].free
                                        /\ hdr'[x].size = hdr[x].size
  BY <1>3, Zenon
<1>5. \A x \in D : ~hdr'[x].free => x \in Blocks /\ ~hdr[x].free
  BY <1>1, <1>3, Zenon
<1>6. Blocks' = D
  BY <1>1, Zenon DEF Blocks
<1>7. OwnedInv'
  <2> HIDE DEF D
  <2> QED BY <1>1, <1>4, <1>5, OwnedSame, Zenon
<1> QED BY <1>1, <1>3, <1>6, <1>7, Zenon

\* What MergesLeft says in each half of coalesce.
LEMMA MergesCur ==
  ASSUME MergesLeft, pc \in {"merge_next", "merge_prev"}
  PROVE  /\ cur \in Blocks /\ hdr[cur].free
         /\ \A b \in Blocks \ {cur} :
              hdr[b].free => \/ hdr[b].next = cur
                             \/ hdr[b].next # NULL /\ ~hdr[hdr[b].next].free
         /\ pc = "merge_prev" => \/ hdr[cur].next = NULL
                                 \/ hdr[cur].next # NULL /\ ~hdr[hdr[cur].next].free
BY Zenon DEF MergesLeft, Isolated

\* The first half of coalesce: the successor it absorbs has no free successor itself.
LEMMA MergeNextStep ==
  ASSUME ListInv, OwnedInv, MergesLeft, coalesce_next
  PROVE  ListInv' /\ OwnedInv' /\ MergesLeft'
<1> DEFINE next == hdr[cur].next
<1>1. /\ pc = "merge_next" /\ pc' = "merge_prev" /\ UNCHANGED <<heap_head, heap_curr, owned>>
      /\ cur' = cur
      /\ hdr' = IF next # NULL /\ hdr[next].free THEN Absorb(cur, next) ELSE hdr
  BY Zenon DEF coalesce_next
<1>2. /\ cur \in Blocks /\ hdr[cur].free
      /\ \A b \in Blocks \ {cur} :
           hdr[b].free => \/ hdr[b].next = cur
                          \/ hdr[b].next # NULL /\ ~hdr[hdr[b].next].free
  BY <1>1, MergesCur, Zenon
<1>3. NULL' = NULL
  BY Zenon DEF NULL
<1>4. CASE next # NULL /\ hdr[next].free
  <2>1. AbsorbAt(cur, next)
    BY <1>1, <1>2, <1>4, AbsorbFacts, Zenon
  <2> HIDE DEF next
  <2>2. next \in Blocks /\ hdr[cur].next = next /\ next # cur
    BY <2>1, Zenon DEF AbsorbAt
  <2>3. ListInv'
    BY <1>1, <2>1, AbsorbList, Zenon
  <2>4. /\ OwnedInv' /\ Blocks' = Blocks \ {next}
        /\ hdr'[cur].free /\ hdr'[cur].next = hdr[next].next
        /\ \A x \in Blocks \ {cur, next} :
             hdr'[x].next = hdr[x].next /\ hdr'[x].free = hdr[x].free
    <3>1. hdr[cur].free /\ hdr[next].free /\ UNCHANGED owned
      BY <1>1, <1>2, <1>4, Zenon
    <3> QED BY <2>1, <3>1, AbsorbOwned
  <2>5. hdr[next].next # cur
    <3>1. cur < next /\ cur \in Nat /\ next \in Nat
      BY <1>2, <1>4, <2>2, LinkFacts, BlockFacts, Zenon
    <3>2. hdr[next].next # NULL => next < hdr[next].next
      BY <2>2, LinkFacts, Zenon
    <3>3. cur # NULL /\ hdr[next].next \in Nat
      BY <1>2, <2>2, BlockFacts, Zenon
    <3> QED BY <3>1, <3>2, <3>3
  <2>6. hdr[next].next # NULL /\ ~hdr[hdr[next].next].free
    BY <1>2, <1>4, <2>2, <2>5, Zenon
  <2>7. hdr[next].next \in Blocks \ {cur, next}
    BY <1>2, <1>4, <2>2, <2>6, LinkFacts, Zenon
  <2>8. hdr'[cur].next # NULL /\ ~hdr'[hdr'[cur].next].free
    BY <2>4, <2>6, <2>7, Zenon
  <2>9. ASSUME NEW x \in Blocks \ {cur, next}, hdr'[x].free
        PROVE  hdr'[x].next = cur \/ (hdr'[x].next # NULL /\ ~hdr'[hdr'[x].next].free)
    <3>1. hdr[x].free /\ hdr'[x].next = hdr[x].next
      BY <2>4, <2>9, Zenon
    <3>2. CASE hdr[x].next = cur
      BY <3>1, <3>2, Zenon
    <3>3. CASE hdr[x].next # NULL /\ ~hdr[hdr[x].next].free
      <4>1. hdr[x].next \in Blocks
        BY <3>3, LinkFacts, Zenon
      <4>2. hdr[x].next # cur /\ hdr[x].next # next
        BY <1>2, <1>4, <3>3, Zenon
      <4> QED BY <2>4, <3>1, <3>3, <4>1, <4>2, Zenon
    <3> QED BY <1>2, <3>1, <3>2, <3>3, Zenon
  <2>10. MergesLeft'
    BY <1>1, <1>2, <1>3, <2>2, <2>4, <2>8, <2>9, Zenon DEF MergesLeft, Isolated
  <2> QED BY <2>3, <2>4, <2>10, Zenon
<1>5. CASE ~(next # NULL /\ hdr[next].free)
  <2>1. hdr' = hdr /\ Blocks' = Blocks
    BY <1>1, <1>5, Zenon DEF Blocks
  <2>2. ListInv'
    BY <1>1, <2>1, SameList, Zenon
  <2>3. OwnedInv'
    BY <1>1, <2>1, Zenon DEF OwnedInv, OwnedBlocks
  <2>4. MergesLeft'
    BY <1>1, <1>2, <1>3, <1>5, <2>1, Zenon DEF MergesLeft, Isolated
  <2> QED BY <2>2, <2>3, <2>4, Zenon
<1> QED BY <1>4, <1>5, Zenon

\* The second half of coalesce: the predecessor that absorbs the block was the only
\* free one left before it.
LEMMA MergePrevStep ==
  ASSUME ListInv, OwnedInv, MergesLeft, coalesce_prev
  PROVE  ListInv' /\ OwnedInv' /\ MergesLeft'
<1> DEFINE prev == hdr[cur].prev
<1>1. /\ pc = "merge_prev" /\ pc' = "trim" /\ UNCHANGED <<heap_head, heap_curr, owned>>
      /\ hdr' = IF prev # NULL /\ hdr[prev].free THEN Absorb(prev, cur) ELSE hdr
  BY Zenon DEF coalesce_prev
<1>2. /\ cur \in Blocks /\ hdr[cur].free
      /\ \A b \in Blocks \ {cur} :
           hdr[b].free => \/ hdr[b].next = cur
                          \/ hdr[b].next # NULL /\ ~hdr[hdr[b].next].free
      /\ hdr[cur].next = NULL \/ (hdr[cur].next # NULL /\ ~hdr[hdr[cur].next].free)
  BY <1>1, MergesCur, Zenon
<1>3. NULL' = NULL
  BY Zenon DEF NULL
<1>4. /\ prev # NULL => prev \in Blocks /\ hdr[prev].next = cur
      /\ cur # NULL
      /\ \A b \in Blocks : hdr[b].next = cur => b = prev /\ b # NULL
  BY <1>2, LinkFacts, BlockFacts, Zenon
<1>5. CASE prev # NULL /\ hdr[prev].free
  <2>1. AbsorbAt(prev, cur)
    BY <1>1, <1>4, <1>5, AbsorbFacts, Zenon
  <2> HIDE DEF prev
  <2>2. prev \in Blocks /\ prev # cur
    BY <2>1, Zenon DEF AbsorbAt
  <2>3. ListInv'
    BY <1>1, <2>1, AbsorbList, Zenon
  <2>4. /\ OwnedInv' /\ Blocks' = Blocks \ {cur}
        /\ hdr'[prev].free /\ hdr'[prev].next = hdr[cur].next
        /\ \A x \in Blocks \ {prev, cur} :
             hdr'[x].next = hdr[x].next /\ hdr'[x].free = hdr[x].free
    <3>1. hdr[cur].free /\ hdr[prev].free /\ UNCHANGED owned
      BY <1>1, <1>2, <1>5, Zenon
    <3> QED BY <2>1, <3>1, AbsorbOwned
  <2>5. ASSUME NEW x \in Blocks \ {cur}, hdr'[x].free
        PROVE  hdr'[x].next = NULL \/ ~hdr'[hdr'[x].next].free
    <3>1. CASE x = prev
      <4>1. hdr[cur].next # NULL => /\ hdr[cur].next \in Blocks /\ ~hdr[hdr[cur].next].free
                                    /\ hdr[cur].next # cur /\ hdr[cur].next # prev
        BY <1>2, <1>5, LinkFacts, Zenon
      <4> QED BY <2>4, <3>1, <4>1, Zenon
    <3>2. CASE x # prev
      <4>1. hdr[x].free /\ hdr'[x].next = hdr[x].next
        BY <2>4, <2>5, <3>2, Zenon
      <4>2. hdr[x].next # NULL /\ ~hdr[hdr[x].next].free
        BY <1>2, <1>4, <3>2, <4>1, Zenon
      <4>3. hdr[x].next \in Blocks /\ hdr[x].next # cur /\ hdr[x].next # prev
        BY <1>2, <1>5, <4>2, LinkFacts, Zenon
      <4> QED BY <2>4, <4>1, <4>2, <4>3, Zenon
    <3> QED BY <3>1, <3>2, Zenon
  <2>6. MergesLeft'
    BY <1>1, <1>3, <2>4, <2>5, Zenon DEF MergesLeft, Isolated
  <2> QED BY <2>3, <2>4, <2>6, Zenon
<1>6. CASE ~(prev # NULL /\ hdr[prev].free)
  <2>1. hdr' = hdr /\ Blocks' = Blocks
    BY <1>1, <1>6, Zenon DEF Blocks
  <2>2. ListInv'
    BY <1>1, <2>1, SameList, Zenon
  <2>3. OwnedInv'
    BY <1>1, <2>1, Zenon DEF OwnedInv, OwnedBlocks
  <2>4. \A x \in Blocks : hdr[x].free => \/ hdr[x].next = NULL
                                         \/ hdr[x].next # NULL /\ ~hdr[hdr[x].next].free
    BY <1>2, <1>4, <1>6, Zenon
  <2>5. MergesLeft'
    BY <1>1, <1>3, <2>1, <2>4, Zenon DEF MergesLeft, Isolated
  <2> QED BY <2>2, <2>3, <2>5, Zenon
<1> QED BY <1>5, <1>6, Zenon

\* heap_trim drops a free tail: the block before it is in use, or was merged into it.
LEMMA PopStep ==
  ASSUME ListInv, OwnedInv, MergesLeft, heap_trim_pop
  PROVE  /\ ListInv' /\ OwnedInv' /\ MergesLeft'
         /\ heap_curr' \in Nat /\ heap_curr' <= heap_curr
<1> DEFINE tail == heap_tail
<1>1. pc = "trim" /\ pc' = "trim" /\ hdr[tail].free /\ UNCHANGED owned
  BY Zenon DEF heap_trim_pop
<1>2. PopAt(tail)
  BY PopFacts, Zenon
<1> HIDE DEF tail
<1>3. ListInv'
  BY <1>2, PopList, Zenon
<1> DEFINE D == Blocks \ {tail}
<1>4. /\ tail \in Blocks /\ hdr[tail].next = NULL /\ BlockEnd(tail) = heap_curr
      /\ heap_curr' = tail /\ hdr' = [x \in D |-> hdr'[x]]
  BY <1>2, Zenon DEF PopAt
<1>5. \A x \in D : /\ hdr'[x].size = hdr[x].size /\ hdr'[x].free = hdr[x].free
                   /\ x # hdr[tail].prev => hdr'[x].next = hdr[x].next
  <2> TAKE x \in D
  <2>1. hdr[x] \in Header
    BY Zenon DEF ListInv
  <2>2. hdr'[x] = IF x = hdr[tail].prev THEN [hdr[x] EXCEPT !.next = NULL] ELSE hdr[x]
    BY <1>2, Zenon DEF PopAt
  <2>3. CASE x = hdr[tail].prev
    BY <2>1, <2>2, <2>3, Zenon DEF Header
  <2>4. CASE x # hdr[tail].prev
    BY <2>2, <2>4, Zenon
  <2> QED BY <2>3, <2>4, Zenon
<1>6. OwnedInv'
  <2>1. \A x \in Blocks : ~hdr[x].free => /\ x \in D /\ ~hdr'[x].free
                                          /\ hdr'[x].size = hdr[x].size
    BY <1>1, <1>5, Zenon
  <2>2. \A x \in D : ~hdr'[x].free => x \in Blocks /\ ~hdr[x].free
    BY <1>5, Zenon
  <2> HIDE DEF D
  <2> QED BY <1>1, <1>4, <2>1, <2>2, OwnedSame, Zenon
<1>7. MergesLeft'
  <2>1. ASSUME NEW x \in D, hdr'[x].free
        PROVE  hdr'[x].next # NULL /\ ~hdr'[hdr'[x].next].free
    <3>1. hdr[x].free /\ x # tail
      BY <1>5, <2>1, Zenon
    <3>2. hdr[x].next # NULL
      BY <1>4, <3>1, TailFacts, Zenon
    <3>3. ~hdr[hdr[x].next].free /\ hdr[x].next \in Blocks
      BY <1>1, <3>1, <3>2, LinkFacts, Zenon DEF MergesLeft, Isolated
    <3>4. hdr[x].next \in D
      BY <1>1, <3>3, Zenon
    <3>5. x # hdr[tail].prev
      <4>1. hdr[tail].prev # NULL => hdr[hdr[tail].prev].next = tail
        BY <1>4, LinkFacts, Zenon
      <4>2. x # NULL
        BY BlockFacts, Zenon
      <4> QED BY <3>4, <4>1, <4>2, Zenon
    <3> QED BY <1>5, <3>2, <3>3, <3>4, <3>5, Zenon
  <2>2. Blocks' = D /\ NULL' = NULL
    BY <1>4, Zenon DEF Blocks, NULL
  <2> HIDE DEF D
  <2> QED BY <1>1, <2>1, <2>2, Zenon DEF MergesLeft, Isolated
<1> QED BY <1>3, <1>4, <1>6, <1>7, BlockFacts

\* The end of heap_trim's first loop finds heap_curr where the list ends already.
LEMMA StopStep ==
  ASSUME ListInv, OwnedInv, MergesLeft, heap_trim_stop
  PROVE  ListInv' /\ OwnedInv' /\ MergesLeft' /\ heap_curr' = heap_curr
<1>1. /\ pc = "trim" /\ pc' = "unmap" /\ UNCHANGED <<hdr, heap_head, owned>>
      /\ heap_head # NULL => ~hdr[heap_tail].free
      /\ heap_curr' = IF heap_head = NULL THEN HEAP_START ELSE BlockEnd(heap_tail)
  BY Zenon DEF heap_trim_stop
<1>2. heap_curr' = heap_curr
  <2>1. CASE heap_head = NULL
    BY <1>1, <2>1, HeadFacts, Zenon DEF ListInv, ListTiles
  <2>2. CASE heap_head # NULL
    BY <1>1, <2>2, HeadFacts, TailFacts, Zenon
  <2> QED BY <2>1, <2>2, Zenon
<1>3. ListInv' /\ Blocks' = Blocks
  BY <1>1, <1>2, SameList, Zenon
<1>4. OwnedInv'
  BY <1>1, <1>3, Zenon DEF OwnedInv, OwnedBlocks
<1>5. \A x \in Blocks : hdr[x].free => hdr[x].next # NULL /\ ~hdr[hdr[x].next].free
  <2> SUFFICES ASSUME NEW x \in Blocks, hdr[x].free
               PROVE  hdr[x].next # NULL /\ ~hdr[hdr[x].next].free
    BY Zenon
  <2>1. x # heap_tail
    BY <1>1, HeadFacts, Zenon
  <2>2. hdr[x].next # NULL
    BY <2>1, TailFacts, Zenon
  <2> QED BY <1>1, <2>2, Zenon DEF MergesLeft, Isolated
<1>6. MergesLeft'
  <2>1. hdr' = [x \in Blocks |-> hdr'[x]]
    BY <1>1, Zenon DEF ListInv, BlocksApart
  <2> QED BY <1>1, <1>5, <2>1, MergesIdleNext, Zenon
<1> QED BY <1>2, <1>3, <1>4, <1>6, Zenon

\* The steps that only move pages or the program counter.
LEMMA RestStep ==
  ASSUME ListInv, OwnedInv, MergesLeft, UNCHANGED <<hdr, heap_head, heap_curr, owned>>,
         pc \in {"idle", "grow", "unmap"}, pc' \in {"idle", "grow", "unmap", "halted"}
  PROVE  ListInv' /\ OwnedInv' /\ MergesLeft'
<1>1. ListInv' /\ Blocks' = Blocks
  BY SameList, Zenon
<1>2. OwnedInv'
  BY <1>1, Zenon DEF OwnedInv, OwnedBlocks
<1>3. MergesLeft'
  <2>1. NULL' = NULL /\ \A x \in Blocks : Isolated(x)' <=> Isolated(x)
    BY Zenon DEF NULL, Isolated
  <2> QED BY <1>1, <2>1, Zenon DEF MergesLeft
<1> QED BY <1>1, <1>2, <1>3, Zenon
-----------------------------------------------------------------------------
\* The part of the invariant that is about the mapped range.
PagesInv == heap_mapped_end \in Nat /\ PagesCoverBlocks /\ PagesLeft

\* The addresses that PagesInv compares.
LEMMA PagesFacts ==
  ASSUME ListInv, PagesInv
  PROVE  /\ heap_mapped_end \in Nat /\ heap_mapped_end % PAGE_SIZE = 0
         /\ heap_curr \in Nat /\ heap_curr <= heap_mapped_end /\ HEAP_START <= heap_curr
         /\ KeepEnd \in Int /\ KeepEnd % PAGE_SIZE = 0 /\ heap_curr <= KeepEnd
         /\ KeepEnd <= heap_mapped_end
         /\ DOMAIN page = {a \in HEAP_START .. heap_mapped_end - 1 : a % PAGE_SIZE = 0}
         /\ align_up(heap_curr, ALIGN) = heap_curr
<1>1. heap_curr \in Nat /\ HEAP_START <= heap_curr /\ Aligned(heap_curr)
  BY Numbers DEF ListInv, BlocksApart
<1>2. KeepEnd \in Int /\ KeepEnd % PAGE_SIZE = 0 /\ heap_curr <= KeepEnd
  <2>1. heap_curr \in Int /\ PAGE_SIZE \in Nat \ {0}
    BY <1>1, Numbers
  <2> QED BY <2>1, AlignUp, Zenon DEF KeepEnd
<1>3. align_up(heap_curr, ALIGN) = heap_curr
  BY <1>1, Alignment
<1> QED BY <1>1, <1>2, <1>3, Zenon DEF PagesInv, PagesCoverBlocks, PagesLeft

\* The pages of a range.
LEMMA PageRange ==
  ASSUME NEW lo \in Nat, NEW e \in Nat, NEW P \in Nat \ {0}, NEW a,
         a \in {x \in lo .. e - 1 : x % P = 0}
  PROVE  a \in Int /\ lo <= a /\ a < e /\ a % P = 0
<1>1. a \in lo .. e - 1 /\ a % P = 0
  BY Zenon
<1> QED BY <1>1

\* The steps that leave the range as it is.
LEMMA PagesSame ==
  ASSUME PagesInv, UNCHANGED <<heap_curr, heap_mapped_end, page>>,
         pc' = "idle" => pc = "idle", pc' # "grow"
  PROVE  PagesInv'
BY Zenon DEF PagesInv, PagesCoverBlocks, PagesLeft, KeepEnd, align_up

\* The end of the range that a request grows to.
LEMMA GrowthFacts ==
  ASSUME ListInv, PagesInv, NEW s \in Nat
  PROVE  /\ GrowthEnd(s) = heap_curr + s + BLOCK_OVERHEAD /\ GrowthEnd(s) \in Nat
         /\ heap_curr <= GrowthEnd(s)
         /\ align_up(GrowthEnd(s), PAGE_SIZE) \in Int
         /\ align_up(GrowthEnd(s), PAGE_SIZE) % PAGE_SIZE = 0
         /\ GrowthEnd(s) <= align_up(GrowthEnd(s), PAGE_SIZE)
<1>1. GrowthEnd(s) = heap_curr + s + BLOCK_OVERHEAD
  BY PagesFacts, Zenon DEF GrowthEnd
<1>2. GrowthEnd(s) \in Nat /\ heap_curr <= GrowthEnd(s)
  BY <1>1, PagesFacts, Numbers
<1>3. GrowthEnd(s) \in Int /\ PAGE_SIZE \in Nat \ {0}
  BY <1>2, Numbers
<1>4. /\ align_up(GrowthEnd(s), PAGE_SIZE) \in Int
      /\ align_up(GrowthEnd(s), PAGE_SIZE) % PAGE_SIZE = 0
      /\ GrowthEnd(s) <= align_up(GrowthEnd(s), PAGE_SIZE)
  BY <1>3, AlignUp, Zenon
<1> QED BY <1>1, <1>2, <1>4, Zenon

\* A request that passes the bound check.
LEMMA PagesRequest ==
  ASSUME ListInv, PagesInv, NEW n \in Sizes, kmalloc_request(n)
  PROVE  PagesInv' /\ cur' \in Nat /\ req' \in Nat
<1> DEFINE size == align_up(n, ALIGN)
<1>1. /\ pc = "idle" /\ pc' = "grow" /\ cur' = size /\ req' = n /\ n # 0
      /\ GrowthEnd(size) <= heap_end /\ UNCHANGED <<heap_curr, heap_mapped_end, page>>
  BY Zenon DEF kmalloc_request, InBounds, memory
<1>2. size \in Nat /\ Aligned(size) /\ n \in Nat /\ n <= size
  BY RequestSize, Zenon
<1> HIDE DEF size
<1>3. heap_mapped_end = KeepEnd
  BY <1>1, Zenon DEF PagesInv, PagesCoverBlocks, KeepEnd
<1>4. KeepEnd <= align_up(GrowthEnd(size), PAGE_SIZE)
  <2>1. /\ align_up(GrowthEnd(size), PAGE_SIZE) \in Int /\ heap_curr \in Int
        /\ align_up(GrowthEnd(size), PAGE_SIZE) % PAGE_SIZE = 0
        /\ heap_curr <= align_up(GrowthEnd(size), PAGE_SIZE)
    BY <1>2, PagesFacts, GrowthFacts
  <2> QED BY <2>1, AlignUpLeast, Numbers, Zenon DEF KeepEnd
<1>5. /\ KeepEnd' = KeepEnd /\ GrowthEnd(cur)' = GrowthEnd(size) /\ heap_end' = heap_end
      /\ align_up(heap_curr, PAGE_SIZE)' = align_up(heap_curr, PAGE_SIZE)
      /\ align_up(GrowthEnd(cur), PAGE_SIZE)' = align_up(GrowthEnd(size), PAGE_SIZE)
      /\ Aligned(cur)' = Aligned(size)
  BY <1>1, Zenon DEF KeepEnd, GrowthEnd, heap_end, align_up, Aligned
<1>6. PagesCoverBlocks'
  BY <1>1, Zenon DEF PagesInv, PagesCoverBlocks
<1>7. PagesLeft'
  BY <1>1, <1>2, <1>3, <1>4, <1>5, Zenon DEF PagesInv, PagesLeft
<1> QED BY <1>1, <1>2, <1>6, <1>7, Zenon DEF PagesInv

\* A turn of ensure_space maps the page at the end of the range and no other.
LEMMA PagesMap ==
  ASSUME ListInv, PagesInv, cur \in Nat, map_new_page
  PROVE  PagesInv' /\ heap_mapped_end \notin DOMAIN page
<1>1. /\ pc = "grow" /\ pc' = pc /\ heap_mapped_end < GrowthEnd(cur)
      /\ heap_mapped_end' = heap_mapped_end + PAGE_SIZE
      /\ UNCHANGED <<heap_curr, cur, req>>
      /\ DOMAIN page' = DOMAIN page \cup {heap_mapped_end}
  BY Zenon DEF map_new_page, Put
<1>2. PAGE_SIZE \in Nat \ {0} /\ HEAP_START \in Nat /\ PAGE_SIZE % PAGE_SIZE = 0
  BY Numbers
<1>3. heap_mapped_end' \in Nat /\ heap_mapped_end' % PAGE_SIZE = 0
  <2>1. heap_mapped_end \in Nat /\ heap_mapped_end % PAGE_SIZE = 0
    BY PagesFacts, Zenon
  <2>2. (heap_mapped_end + PAGE_SIZE) % PAGE_SIZE = 0
    BY <1>2, <2>1, SumMod
  <2> QED BY <1>1, <1>2, <2>1, <2>2
<1>4. heap_mapped_end' <= align_up(GrowthEnd(cur), PAGE_SIZE)
  <2> DEFINE top == align_up(GrowthEnd(cur), PAGE_SIZE)
  <2>1. /\ GrowthEnd(cur) \in Nat /\ top \in Int /\ top % PAGE_SIZE = 0
        /\ GrowthEnd(cur) <= top
    BY GrowthFacts, Zenon
  <2>2. heap_mapped_end \in Int /\ heap_mapped_end % PAGE_SIZE = 0
    BY PagesFacts
  <2> HIDE DEF top
  <2>3. heap_mapped_end < top
    BY <1>1, <2>1, <2>2
  <2>4. heap_mapped_end + PAGE_SIZE <= top
    BY <1>2, <2>1, <2>2, <2>3, NextMultiple, Zenon
  <2> QED BY <1>1, <2>4, Zenon DEF top
<1>5. heap_mapped_end \notin DOMAIN page
  BY PagesFacts
<1>6. \A a \in Int : a % PAGE_SIZE = 0 /\ heap_mapped_end < a => heap_mapped_end' <= a
  <2> TAKE a \in Int
  <2> HAVE a % PAGE_SIZE = 0 /\ heap_mapped_end < a
  <2>1. heap_mapped_end \in Int /\ heap_mapped_end % PAGE_SIZE = 0
    BY PagesFacts
  <2>2. heap_mapped_end + PAGE_SIZE <= a
    BY <1>2, <2>1, NextMultiple, Zenon
  <2> QED BY <1>1, <2>2, Zenon
<1>7. DOMAIN page' = {a \in HEAP_START .. heap_mapped_end' - 1 : a % PAGE_SIZE = 0}
  <2> DEFINE R == {a \in HEAP_START .. heap_mapped_end' - 1 : a % PAGE_SIZE = 0}
  <2>1. ASSUME NEW a \in DOMAIN page' PROVE a \in R
    BY <1>1, <1>2, <1>3, PagesFacts
  <2>2. ASSUME NEW a \in R PROVE a \in DOMAIN page'
    <3>1. a \in Int /\ HEAP_START <= a /\ a < heap_mapped_end' /\ a % PAGE_SIZE = 0
      BY <1>2, <1>3, PageRange, Zenon
    <3>2. a <= heap_mapped_end
      BY <1>3, <1>6, <3>1, PagesFacts
    <3>3. CASE a = heap_mapped_end
      BY <1>1, <3>3, Zenon
    <3>4. CASE a < heap_mapped_end
      <4>1. a \in HEAP_START .. heap_mapped_end - 1
        BY <1>2, <3>1, <3>4, PagesFacts
      <4>2. DOMAIN page = {x \in HEAP_START .. heap_mapped_end - 1 : x % PAGE_SIZE = 0}
        BY PagesFacts, Zenon
      <4> QED BY <1>1, <3>1, <4>1, <4>2, Zenon
    <3> QED BY <3>1, <3>2, <3>3, <3>4, PagesFacts
  <2> QED BY <2>1, <2>2, Zenon
<1>8. /\ KeepEnd' = KeepEnd /\ GrowthEnd(cur)' = GrowthEnd(cur) /\ heap_end' = heap_end
      /\ align_up(GrowthEnd(cur), PAGE_SIZE)' = align_up(GrowthEnd(cur), PAGE_SIZE)
      /\ Aligned(cur)' = Aligned(cur)
  BY <1>1, Zenon DEF KeepEnd, GrowthEnd, heap_end, align_up, Aligned
<1>9. PagesCoverBlocks'
  <2>1. heap_curr <= heap_mapped_end'
    BY <1>1, <1>2, PagesFacts
  <2> QED BY <1>1, <1>7, <2>1, Zenon DEF PagesCoverBlocks
<1>10. PagesLeft'
  <2>1. heap_mapped_end' >= HEAP_START /\ KeepEnd <= heap_mapped_end'
    BY <1>1, <1>2, PagesFacts
  <2>2. req \in Sizes \ {0} /\ req <= cur /\ Aligned(cur) /\ GrowthEnd(cur) <= heap_end
    BY <1>1, Zenon DEF PagesInv, PagesLeft
  <2> QED BY <1>1, <1>3, <1>4, <1>8, <2>1, <2>2, Zenon DEF PagesLeft
<1> QED BY <1>3, <1>5, <1>9, <1>10, Zenon DEF PagesInv

\* The appended block ends in the last page that was mapped for it.
LEMMA PagesAppend ==
  ASSUME ListInv, PagesInv, cur \in Nat, kmalloc_append
  PROVE  PagesInv'
<1>1. /\ pc = "grow" /\ pc' = "idle" /\ heap_curr' = GrowthEnd(cur)
      /\ GrowthEnd(cur) <= heap_mapped_end /\ UNCHANGED <<heap_mapped_end, page>>
  BY GrowthFacts, PagesFacts, Zenon DEF kmalloc_append, memory
<1>2. heap_mapped_end <= align_up(GrowthEnd(cur), PAGE_SIZE)
  BY <1>1, Zenon DEF PagesInv, PagesLeft
<1>3. align_up(GrowthEnd(cur), PAGE_SIZE) <= heap_mapped_end
  BY <1>1, PagesFacts, GrowthFacts, AlignUpLeast, Numbers
<1>4. heap_mapped_end = align_up(GrowthEnd(cur), PAGE_SIZE)
  BY <1>2, <1>3, PagesFacts, GrowthFacts
<1>5. KeepEnd' = heap_mapped_end /\ align_up(heap_curr, PAGE_SIZE)' = heap_mapped_end
  BY <1>1, <1>4, Zenon DEF KeepEnd, align_up
<1>6. PagesCoverBlocks'
  BY <1>1, <1>5, PagesFacts, Zenon DEF PagesCoverBlocks
<1>7. PagesLeft'
  BY <1>1, <1>5, PagesFacts, Zenon DEF PagesInv, PagesLeft
<1> QED BY <1>1, <1>6, <1>7, Zenon DEF PagesInv

\* A smaller heap_curr needs no more pages.
LEMMA PagesPop ==
  ASSUME ListInv, PagesInv, heap_curr' \in Nat, heap_curr' <= heap_curr,
         UNCHANGED <<heap_mapped_end, page>>, pc' \notin {"idle", "grow"}
  PROVE  PagesInv'
<1>1. heap_curr' <= heap_mapped_end
  BY PagesFacts
<1>2. align_up(heap_curr', PAGE_SIZE) <= heap_mapped_end
  BY <1>1, PagesFacts, AlignUpLeast, Numbers
<1>3. KeepEnd' = align_up(heap_curr', PAGE_SIZE)
  BY Zenon DEF KeepEnd, align_up
<1>4. PagesCoverBlocks'
  BY <1>1, PagesFacts, Zenon DEF PagesCoverBlocks
<1>5. PagesLeft'
  BY <1>2, <1>3, PagesFacts, Zenon DEF PagesInv, PagesLeft
<1> QED BY <1>4, <1>5, Zenon DEF PagesInv

\* A turn of heap_trim's second loop unmaps the last page, which no block reaches.
LEMMA PagesUnmap ==
  ASSUME ListInv, PagesInv, heap_trim_unmap
  PROVE  PagesInv' /\ heap_mapped_end' \in DOMAIN page
<1>1. /\ pc = "unmap" /\ pc' = pc /\ KeepEnd < heap_mapped_end
      /\ heap_mapped_end' = heap_mapped_end - PAGE_SIZE /\ UNCHANGED heap_curr
      /\ DOMAIN page' = DOMAIN page \ {heap_mapped_end'}
  BY PagesFacts, Zenon DEF heap_trim_unmap, Drop, Restrict
<1>2. PAGE_SIZE \in Nat \ {0} /\ HEAP_START \in Nat /\ PAGE_SIZE % PAGE_SIZE = 0
  BY Numbers
<1>3. KeepEnd + PAGE_SIZE <= heap_mapped_end
  BY <1>1, <1>2, PagesFacts, NextMultiple
<1>4. KeepEnd <= heap_mapped_end' /\ HEAP_START <= heap_mapped_end' /\ heap_mapped_end' \in Nat
  BY <1>1, <1>2, <1>3, PagesFacts
<1>5. heap_mapped_end' % PAGE_SIZE = 0
  <2>1. heap_mapped_end \in Int /\ PAGE_SIZE \in Int /\ heap_mapped_end % PAGE_SIZE = 0
    BY <1>2, PagesFacts
  <2> QED BY <1>1, <1>2, <2>1, SumMod, Zenon
<1>6. heap_mapped_end' \in DOMAIN page
  BY <1>1, <1>2, <1>4, <1>5, PagesFacts
<1>7. \A a \in Int : a % PAGE_SIZE = 0 /\ heap_mapped_end' < a => heap_mapped_end <= a
  <2> TAKE a \in Int
  <2> HAVE a % PAGE_SIZE = 0 /\ heap_mapped_end' < a
  <2>1. heap_mapped_end' + PAGE_SIZE <= a
    <3>1. heap_mapped_end' \in Int
      BY <1>4
    <3> QED BY <1>2, <1>5, <3>1, NextMultiple, Zenon
  <2> QED BY <1>1, <1>2, <2>1, PagesFacts
<1>8. DOMAIN page' = {a \in HEAP_START .. heap_mapped_end' - 1 : a % PAGE_SIZE = 0}
  <2> DEFINE R == {a \in HEAP_START .. heap_mapped_end' - 1 : a % PAGE_SIZE = 0}
  <2>1. ASSUME NEW a \in DOMAIN page' PROVE a \in R
    <3>1. /\ a \in Int /\ HEAP_START <= a /\ a < heap_mapped_end /\ a % PAGE_SIZE = 0
          /\ a # heap_mapped_end'
      BY <1>1, <1>2, PagesFacts
    <3>2. a < heap_mapped_end'
      BY <1>4, <1>7, <3>1, PagesFacts
    <3> QED BY <1>2, <1>4, <3>1, <3>2
  <2>2. ASSUME NEW a \in R PROVE a \in DOMAIN page'
    <3>1. a \in Int /\ HEAP_START <= a /\ a < heap_mapped_end' /\ a % PAGE_SIZE = 0
      BY <1>2, <1>4, PageRange, Zenon
    <3> QED BY <1>1, <1>2, <3>1, PagesFacts
  <2> QED BY <2>1, <2>2, Zenon
<1>9. KeepEnd' = KeepEnd
  BY <1>1, Zenon DEF KeepEnd, align_up
<1>10. PagesCoverBlocks'
  <2>1. heap_curr <= heap_mapped_end'
    BY <1>4, PagesFacts
  <2> QED BY <1>1, <1>8, <2>1, Zenon DEF PagesCoverBlocks
<1>11. PagesLeft'
  BY <1>1, <1>4, <1>5, <1>9, Zenon DEF PagesLeft
<1> QED BY <1>4, <1>6, <1>10, <1>11, Zenon DEF PagesInv

\* When heap_trim returns the mapped range ends where the blocks need it to.
LEMMA PagesDone ==
  ASSUME ListInv, PagesInv, heap_trim_done
  PROVE  PagesInv'
<1>1. /\ pc' = "idle" /\ heap_mapped_end <= KeepEnd
      /\ UNCHANGED <<heap_curr, heap_mapped_end, page>>
  BY Zenon DEF heap_trim_done, memory
<1>2. heap_mapped_end = KeepEnd
  BY <1>1, PagesFacts
<1>3. KeepEnd' = KeepEnd /\ align_up(heap_curr, PAGE_SIZE)' = KeepEnd
  BY <1>1, Zenon DEF KeepEnd, align_up
<1>4. PagesCoverBlocks'
  BY <1>1, <1>2, <1>3, PagesFacts, Zenon DEF PagesCoverBlocks
<1>5. PagesLeft'
  BY <1>1, <1>3, Zenon DEF PagesInv, PagesLeft
<1> QED BY <1>1, <1>4, <1>5, Zenon DEF PagesInv
-----------------------------------------------------------------------------
\* A new entry with a new value keeps a function injective.
LEMMA PutInjective ==
  ASSUME NEW f, IsInjective(f), NEW x, x \notin DOMAIN f, NEW v, v \notin Range(f)
  PROVE  IsInjective(Put(f, x, v)) /\ Range(Put(f, x, v)) = Range(f) \cup {v}
<1> DEFINE g == Put(f, x, v)
<1>1. /\ DOMAIN g = DOMAIN f \cup {x} /\ g[x] = v /\ \A y \in DOMAIN f : g[y] = f[y]
  BY Zenon DEF Put
<1> HIDE DEF g
<1>2. \A y \in DOMAIN f : f[y] # v
  BY Zenon DEF Range
<1>3. IsInjective(g)
  BY <1>1, <1>2, Zenon DEF IsInjective
<1>4. Range(g) = Range(f) \cup {v}
  BY <1>1 DEF Range
<1> QED BY <1>3, <1>4, Zenon DEF g

\* A dropped entry takes its value along.
LEMMA DropInjective ==
  ASSUME NEW f, IsInjective(f), NEW x \in DOMAIN f
  PROVE  IsInjective(Drop(f, x)) /\ Range(Drop(f, x)) = Range(f) \ {f[x]}
<1> DEFINE g == Drop(f, x)
<1>1. DOMAIN g = DOMAIN f \ {x} /\ \A y \in DOMAIN f \ {x} : g[y] = f[y]
  BY Zenon DEF Drop, Restrict
<1> HIDE DEF g
<1>2. IsInjective(g)
  BY <1>1, Zenon DEF IsInjective
<1>3. \A y \in DOMAIN f \ {x} : f[y] # f[x]
  BY Zenon DEF IsInjective
<1>4. Range(g) = Range(f) \ {f[x]}
  BY <1>1, <1>3, Zenon DEF Range
<1> QED BY <1>2, <1>4, Zenon DEF g

\* The part of the invariant that is about frames.
FramesInv == /\ FramesConserved /\ pool \in Pools /\ avail \subseteq pool
             /\ Range(page) \subseteq pool /\ Range(tables) \subseteq pool

\* FramesInv after a step, in terms of who holds which frame.
LEMMA FramesNext ==
  ASSUME NEW P, NEW T, Range(page') = P, Range(tables') = T,
         IsInjective(page'), IsInjective(tables'), UNCHANGED pool, pool \in Pools,
         P \cap T = {}, (P \cup T) \cap avail' = {},
         P \subseteq pool, T \subseteq pool, avail' \subseteq pool,
         pc' # "halted" => P \cup T \cup avail' = pool
  PROVE  FramesInv'
<1>1. /\ Range(page)' = P /\ Range(tables)' = T
      /\ IsInjective(page)' /\ IsInjective(tables)'
  BY Zenon DEF Range, IsInjective
<1> QED BY <1>1, Zenon DEF FramesInv, FramesConserved

\* The steps that move no frame.
LEMMA FramesSame ==
  ASSUME FramesInv, UNCHANGED <<page, tables, pool, avail>>,
         pc' # "halted" => pc # "halted"
  PROVE  FramesInv'
BY FramesNext, Zenon DEF FramesInv, FramesConserved

\* A turn of heap_trim's second loop gives the frame of the page back.
LEMMA FramesUnmap ==
  ASSUME FramesInv, heap_trim_unmap, heap_mapped_end' \in DOMAIN page
  PROVE  FramesInv'
<1> DEFINE frame == page[heap_mapped_end']
           P == Range(page)
           T == Range(tables)
<1>1. /\ pc = "unmap" /\ pc' = pc /\ UNCHANGED <<pool, tables>>
      /\ page' = Drop(page, heap_mapped_end') /\ avail' = avail \cup {frame}
  BY Zenon DEF heap_trim_unmap
<1>2. /\ P \cap T = {} /\ (P \cup T) \cap avail = {} /\ P \cup T \cup avail = pool
      /\ IsInjective(page) /\ IsInjective(tables) /\ pool \in Pools
      /\ P \subseteq pool /\ T \subseteq pool /\ avail \subseteq pool
  BY <1>1, Zenon DEF FramesInv, FramesConserved
<1>3. frame \in P
  BY Zenon DEF Range
<1>4. IsInjective(page') /\ Range(page') = P \ {frame}
  BY <1>1, <1>2, DropInjective, Zenon
<1>5. Range(tables') = T /\ IsInjective(tables')
  BY <1>1, <1>2, Zenon
<1> HIDE DEF frame, P, T
<1>6. /\ (P \ {frame}) \cap T = {} /\ ((P \ {frame}) \cup T) \cap avail' = {}
      /\ P \ {frame} \subseteq pool /\ avail' \subseteq pool
      /\ (P \ {frame}) \cup T \cup avail' = pool
  BY <1>1, <1>2, <1>3, Zenon
<1> QED BY <1>1, <1>2, <1>4, <1>5, <1>6, FramesNext, Zenon

\* Out of frames, the kernel halts: what it lost is not missed any more.
LEMMA FramesHalt ==
  ASSUME FramesInv, out_of_frames
  PROVE  FramesInv'
<1>1. avail' = {} /\ pc' = "halted" /\ UNCHANGED <<page, tables, pool>>
  BY Zenon DEF out_of_frames
<1> QED BY <1>1, FramesNext, Zenon DEF FramesInv, FramesConserved
-----------------------------------------------------------------------------
\* The rest of the invariant.
ScalarInv == /\ allocated_bytes \in 0 .. WORD - 1 /\ cur \in Nat /\ req \in Nat
             /\ pc \in {"idle", "grow", "merge_next", "merge_prev", "trim", "unmap",
                        "halted"}

\* The invariant, taken apart.
LEMMA HeapParts ==
  ASSUME HeapInv
  PROVE  ListInv /\ OwnedInv /\ MergesLeft /\ PagesInv /\ FramesInv /\ ScalarInv
<1>1. ListInv
  BY Zenon DEF HeapInv, TypeOK, ListInv
<1>2. OwnedInv
  BY Zenon DEF HeapInv, TypeOK, OwnedInv
<1>3. FramesInv
  <2>1. Range(page) \subseteq pool /\ Range(tables) \subseteq pool
    BY Zenon DEF HeapInv, TypeOK, Range
  <2> QED BY <2>1, Zenon DEF HeapInv, TypeOK, FramesInv
<1>4. ScalarInv
  BY Zenon DEF HeapInv, TypeOK, ScalarInv
<1> QED BY <1>1, <1>2, <1>3, <1>4, Zenon DEF HeapInv, TypeOK, PagesInv

\* The invariant after a step, put together.
LEMMA HeapWhole ==
  ASSUME ListInv', OwnedInv', MergesLeft', PagesInv', FramesInv', ScalarInv'
  PROVE  HeapInv'
<1>1. heap_head' \in Nat
  <2>1. heap_head' = IF Blocks' = {} THEN NULL ELSE HEAP_START
    BY Zenon DEF ListInv, ListTiles, NULL
  <2> QED BY <2>1, Numbers, Zenon
<1>2. /\ \A a \in DOMAIN page' : page'[a] \in pool'
      /\ \A t \in DOMAIN tables' : tables'[t] \in pool'
  BY Zenon DEF FramesInv, Range
<1>3. TypeOK'
  BY <1>1, <1>2, Zenon DEF TypeOK, ListInv, OwnedInv, PagesInv, FramesInv, ScalarInv
<1> QED BY <1>3, Zenon DEF HeapInv, ListInv, OwnedInv, PagesInv, FramesInv

\* The counter of allocated bytes wraps at the word.
LEMMA WordRange == ASSUME NEW v \in Int PROVE v % WORD \in 0 .. WORD - 1
BY DivMod, Numbers, Zenon

-----------------------------------------------------------------------------
\* The facts on minima and intervals are wanted from here on only.
INSTANCE NumberLemmas

\* The block kmalloc's walk stops at.
LEMMA ReuseFacts ==
  ASSUME ListInv, OwnedInv, NEW n \in Sizes, NEW size, size = align_up(n, ALIGN),
         NEW b, b = Min(Fits(size)), Fits(size) # {}
  PROVE  /\ b \in Blocks /\ hdr[b].free /\ size <= hdr[b].size /\ n <= hdr[b].size
         /\ b + BLOCK_OVERHEAD \notin DOMAIN owned
<1>1. Fits(size) \in SUBSET Nat
  BY BlockFacts, Zenon DEF Fits
<1>2. b \in Fits(size)
  BY <1>1, MinNat, Zenon
<1>3. b \in Blocks /\ hdr[b].free /\ hdr[b].size >= size
  BY <1>2, Zenon DEF Fits
<1>4. hdr[b].size \in Nat /\ b \in Nat /\ BLOCK_OVERHEAD \in Nat
  BY <1>3, BlockFacts, Numbers, Zenon
<1>5. b + BLOCK_OVERHEAD \notin DOMAIN owned
  <2>1. (b + BLOCK_OVERHEAD) - BLOCK_OVERHEAD = b
    BY <1>4
  <2> QED BY <1>3, <2>1, OwnedFacts, Zenon
<1> QED BY <1>3, <1>4, <1>5, RequestSize

\* kmalloc's reuse of a block, with and without a remainder.
LEMMA ReuseStep ==
  ASSUME ListInv, OwnedInv, MergesLeft, NEW n \in Sizes, kmalloc_reuse(n)
  PROVE  ListInv' /\ OwnedInv' /\ MergesLeft'
<1> DEFINE size == align_up(n, ALIGN)
           b    == Min(Fits(size))
           nb   == b + BLOCK_OVERHEAD + size
<1>1. /\ Fits(size) # {} /\ hdr' = split_block([hdr EXCEPT ![b].free = FALSE], b, size)
      /\ owned' = Put(owned, b + BLOCK_OVERHEAD, n)
      /\ UNCHANGED <<heap_head, heap_curr>> /\ pc = "idle" /\ pc' = "idle"
  BY Zenon DEF kmalloc_reuse
<1>2. size \in Nat /\ Aligned(size) /\ n \in Nat /\ n <= size
  BY RequestSize, Zenon
<1>3. /\ b \in Blocks /\ hdr[b].free /\ size <= hdr[b].size /\ n <= hdr[b].size
      /\ b + BLOCK_OVERHEAD \notin DOMAIN owned
  BY <1>1, ReuseFacts, Zenon
<1> HIDE DEF size, b
<1>4. /\ b \in Nat /\ hdr[b].size \in Nat /\ BLOCK_OVERHEAD \in Nat /\ MIN_SPLIT \in Nat
      /\ hdr[b].next # NULL /\ ~hdr[hdr[b].next].free /\ hdr[b].next \in Blocks
  BY <1>1, <1>3, BlockFacts, LinkFacts, MergesIdle, Numbers, Zenon
<1>5. \A x \in Blocks : ~hdr[x].free => x # b
  BY <1>3, Zenon
<1>6. CASE hdr[b].size - size <= BLOCK_OVERHEAD + MIN_SPLIT
  <2>1. hdr' = [hdr EXCEPT ![b].free = FALSE]
    <3> DEFINE h == [hdr EXCEPT ![b].free = FALSE]
    <3>1. h[b].size = hdr[b].size
      <4>1. hdr[b] \in Header /\ h[b] = [hdr[b] EXCEPT !.free = FALSE]
        BY <1>3, Zenon DEF ListInv, Blocks
      <4> QED BY <4>1, Zenon DEF Header
    <3> HIDE DEF h
    <3> QED BY <1>1, <1>6, <3>1, Zenon DEF split_block, h
  <2>2. /\ ListInv' /\ Blocks' = Blocks /\ ~hdr'[b].free
        /\ \A x \in Blocks \ {b} : hdr'[x] = hdr[x]
        /\ \A x \in Blocks : hdr'[x].next = hdr[x].next /\ hdr'[x].size = hdr[x].size
    BY <1>1, <1>3, <2>1, MarkList, Zenon
  <2>3. hdr' = [x \in Blocks |-> hdr'[x]]
    BY <2>2, Zenon DEF ListInv, BlocksApart
  <2>4. OwnedInv'
    <3>1. b \in Nat /\ n <= hdr'[b].size
      BY <1>3, <1>4, <2>2, Zenon
    <3>2. \A x \in Blocks : ~hdr[x].free => /\ x \in Blocks /\ ~hdr'[x].free
                                             /\ hdr'[x].size = hdr[x].size
      BY <1>5, <2>2, Zenon
    <3>3. \A x \in Blocks \ {b} : ~hdr'[x].free => x \in Blocks /\ ~hdr[x].free
      BY <2>2, Zenon
    <3> QED BY <1>1, <1>3, <2>2, <2>3, <3>1, <3>2, <3>3, OwnedNext, Zenon
  <2>5. MergesLeft'
    <3>1. ASSUME NEW x \in Blocks, hdr'[x].free
          PROVE  hdr'[x].next # NULL /\ ~hdr'[hdr'[x].next].free
      <4>1. x # b /\ hdr'[x] = hdr[x]
        BY <2>2, <3>1, Zenon
      <4>2. hdr[x].next # NULL /\ ~hdr[hdr[x].next].free /\ hdr[x].next \in Blocks
        BY <1>1, <3>1, <4>1, MergesIdle, LinkFacts, Zenon
      <4> QED BY <2>2, <4>1, <4>2, Zenon
    <3> QED BY <1>1, <2>3, <3>1, MergesIdleNext, Zenon
  <2> QED BY <2>2, <2>4, <2>5, Zenon
<1>7. CASE hdr[b].size - size > BLOCK_OVERHEAD + MIN_SPLIT
  <2>1. SplitAt(b, nb, size)
    BY <1>1, <1>2, <1>3, <1>7, SplitFacts, Zenon
  <2>2. ListInv'
    BY <1>1, <1>2, <1>3, <1>7, <2>1, SplitList, Zenon
  <2>3. /\ nb \notin Blocks /\ hdr' = [x \in Blocks \cup {nb} |-> hdr'[x]]
        /\ ~hdr'[b].free /\ hdr'[b].size = size
        /\ hdr'[nb].next = hdr[b].next /\ hdr'[nb].free
    BY <2>1 DEF SplitAt
  <2>4. \A x \in Blocks \ {b} : /\ hdr'[x].next = hdr[x].next /\ hdr'[x].size = hdr[x].size
                                /\ hdr'[x].free = hdr[x].free
    <3> TAKE x \in Blocks \ {b}
    <3>1. hdr[x] \in Header
      BY Zenon DEF ListInv
    <3>2. hdr'[x] = IF x = hdr[b].next THEN [hdr[x] EXCEPT !.prev = nb] ELSE hdr[x]
      BY <2>1, Zenon DEF SplitAt
    <3>3. CASE x = hdr[b].next
      BY <3>1, <3>2, <3>3, Zenon DEF Header
    <3>4. CASE x # hdr[b].next
      BY <3>2, <3>4, Zenon
    <3> QED BY <3>3, <3>4, Zenon
  <2> HIDE DEF nb
  <2>5. OwnedInv'
    <3> DEFINE D == Blocks \cup {nb}
    <3>1. \A x \in Blocks : ~hdr[x].free => /\ x \in D /\ ~hdr'[x].free
                                            /\ hdr'[x].size = hdr[x].size
      BY <1>5, <2>4, Zenon
    <3>2. \A x \in D \ {b} : ~hdr'[x].free => x \in Blocks /\ ~hdr[x].free
      BY <2>3, <2>4, Zenon
    <3>3. b \in D /\ b \in Nat /\ n <= hdr'[b].size /\ hdr' = [x \in D |-> hdr'[x]]
      BY <1>2, <1>3, <1>4, <2>3, Zenon
    <3> HIDE DEF D
    <3> QED BY <1>1, <1>3, <2>3, <3>1, <3>2, <3>3, OwnedNext, Zenon
  <2>6. ASSUME NEW x \in Blocks \cup {nb}, hdr'[x].free
        PROVE  hdr'[x].next # NULL /\ ~hdr'[hdr'[x].next].free
    <3>1. hdr[b].next # b
      BY <1>3, <1>4, Zenon
    <3>2. CASE x = nb
      BY <1>4, <2>3, <2>4, <3>1, <3>2, Zenon
    <3>3. CASE x \in Blocks
      <4>1. x # b /\ hdr[x].free /\ hdr'[x].next = hdr[x].next
        BY <2>3, <2>4, <2>6, <3>3, Zenon
      <4>2. hdr[x].next # NULL /\ ~hdr[hdr[x].next].free /\ hdr[x].next \in Blocks
        BY <1>1, <3>3, <4>1, MergesIdle, LinkFacts, Zenon
      <4>3. hdr[x].next # b
        BY <1>3, <4>2, Zenon
      <4> QED BY <2>4, <4>1, <4>2, <4>3, Zenon
    <3> QED BY <3>2, <3>3, Zenon
  <2>7. MergesLeft'
    BY <1>1, <2>3, <2>6, MergesIdleNext, Zenon
  <2> QED BY <2>2, <2>5, <2>7, Zenon
<1> QED BY <1>2, <1>4, <1>6, <1>7

\* A turn of ensure_space takes its frames from those that nobody holds.
LEMMA FramesMap ==
  ASSUME FramesInv, map_new_page, heap_mapped_end \notin DOMAIN page
  PROVE  FramesInv'
<1> DEFINE table == heap_mapped_end \div TABLE_SPAN
           frame == Min(avail)
           table_phys == Min(avail \ {frame})
           P == Range(page)
           T == Range(tables)
<1>1. /\ pc = "grow" /\ pc' = pc /\ avail # {} /\ UNCHANGED pool
      /\ page' = Put(page, heap_mapped_end, frame)
      /\ \/ avail' = avail \ {frame} /\ tables' = tables
         \/ /\ table \notin DOMAIN tables /\ avail # {frame}
            /\ tables' = Put(tables, table, table_phys)
            /\ avail' = avail \ {frame, table_phys}
  BY Zenon DEF map_new_page
<1>2. /\ P \cap T = {} /\ (P \cup T) \cap avail = {} /\ P \cup T \cup avail = pool
      /\ IsInjective(page) /\ IsInjective(tables) /\ pool \in Pools
      /\ P \subseteq pool /\ T \subseteq pool /\ avail \subseteq pool
  BY <1>1, Zenon DEF FramesInv, FramesConserved
<1>3. avail \in SUBSET Nat /\ avail \ {frame} \in SUBSET Nat
  BY <1>2, HeapAssumption, Zenon
<1>4. frame \in avail
  BY <1>1, <1>3, MinNat, Zenon
<1>5. avail # {frame} => table_phys \in avail \ {frame}
  <2>1. avail # {frame} => avail \ {frame} # {}
    BY <1>4, Zenon
  <2> QED BY <1>3, <2>1, MinNat, Zenon
<1>6. IsInjective(page') /\ Range(page') = P \cup {frame}
  BY <1>1, <1>2, <1>4, PutInjective, Zenon
<1> HIDE DEF table, frame, table_phys, P, T
<1>7. CASE avail' = avail \ {frame} /\ tables' = tables
  <2>1. Range(tables') = T /\ IsInjective(tables')
    BY <1>2, <1>7, Zenon DEF T
  <2>2. /\ (P \cup {frame}) \cap T = {} /\ ((P \cup {frame}) \cup T) \cap avail' = {}
        /\ P \cup {frame} \subseteq pool /\ avail' \subseteq pool
        /\ (P \cup {frame}) \cup T \cup avail' = pool
    BY <1>2, <1>4, <1>7, Zenon
  <2> QED BY <1>1, <1>2, <1>6, <2>1, <2>2, FramesNext, Zenon
<1>8. CASE /\ table \notin DOMAIN tables /\ avail # {frame}
           /\ tables' = Put(tables, table, table_phys)
           /\ avail' = avail \ {frame, table_phys}
  <2>1. table_phys \in avail /\ table_phys # frame
    BY <1>5, <1>8, Zenon
  <2>2. Range(tables') = T \cup {table_phys} /\ IsInjective(tables')
    BY <1>2, <1>8, <2>1, PutInjective, Zenon DEF T
  <2> DEFINE Q == P \cup {frame}
             U == T \cup {table_phys}
  <2>3. /\ Q \cap U = {} /\ (Q \cup U) \cap avail' = {}
        /\ Q \subseteq pool /\ U \subseteq pool /\ avail' \subseteq pool
        /\ Q \cup U \cup avail' = pool
    BY <1>2, <1>4, <1>8, <2>1, Zenon
  <2>4. Range(page') = Q /\ Range(tables') = U
    BY <1>6, <2>2, Zenon
  <2> HIDE DEF Q, U
  <2> QED BY <1>1, <1>2, <1>6, <2>2, <2>3, <2>4, FramesNext, Zenon
<1> QED BY <1>1, <1>7, <1>8, Zenon

\* The heap that heap_init leaves is in order.
LEMMA HeapInit == Init => HeapInv
<1> SUFFICES ASSUME Init PROVE HeapInv
  BY Zenon
<1>1. /\ hdr = << >> /\ heap_head = NULL /\ heap_curr = HEAP_START
      /\ heap_mapped_end = HEAP_START /\ allocated_bytes = 0 /\ page = << >>
      /\ tables = << >> /\ pool \in Pools /\ avail = pool /\ pc = "idle" /\ cur = 0
      /\ req = 0 /\ owned = << >>
  BY Zenon DEF Init
<1>2. Blocks = {} /\ DOMAIN page = {} /\ DOMAIN tables = {} /\ DOMAIN owned = {}
  BY <1>1 DEF Blocks
<1>3. Range(page) = {} /\ Range(tables) = {} /\ IsInjective(page) /\ IsInjective(tables)
  BY <1>2, Zenon DEF Range, IsInjective
<1>4. TypeOK
  <2>1. HEAP_START \in HEAP_START .. heap_end /\ 0 \in 0 .. WORD - 1
    BY Numbers
  <2> QED BY <1>1, <1>2, <2>1, Numbers, Zenon DEF TypeOK
<1>5. ListTiles
  BY <1>1, <1>2, Zenon DEF ListTiles
<1>6. OwnedBlocks
  BY <1>2, Zenon DEF OwnedBlocks
<1>7. align_up(HEAP_START, PAGE_SIZE) = HEAP_START /\ HEAP_START % PAGE_SIZE = 0
  BY HeapAssumption, Numbers, AlignUp
<1>8. PagesCoverBlocks
  <2>1. {a \in HEAP_START .. HEAP_START - 1 : a % PAGE_SIZE = 0} = {}
    BY Numbers
  <2> QED BY <1>1, <1>2, <1>7, <2>1, Numbers DEF PagesCoverBlocks
<1>9. FramesConserved
  BY <1>1, <1>3, Zenon DEF FramesConserved
<1>10. BlocksApart
  <2>1. hdr = [b \in Blocks |-> hdr[b]]
    BY <1>1, <1>2
  <2> QED BY <1>1, <1>2, <2>1, Alignment, Zenon DEF BlocksApart
<1>11. MergesLeft
  BY <1>1, <1>2, Zenon DEF MergesLeft
<1>12. PagesLeft
  BY <1>1, <1>7, Numbers DEF PagesLeft, KeepEnd
<1> QED BY <1>4, <1>5, <1>6, <1>8, <1>9, <1>10, <1>11, <1>12, Zenon DEF HeapInv

\* Every step of kmalloc and kfree keeps the invariant.
LEMMA HeapStep == HeapInv /\ [Next]_vars => HeapInv'
<1> SUFFICES ASSUME HeapInv, [Next]_vars PROVE HeapInv'
  BY Zenon
<1> USE HeapParts
<1>0. cur \in Nat /\ req \in Nat /\ allocated_bytes \in Int
  BY DEF ScalarInv
<1>1. ASSUME NEW n \in Sizes, kmalloc_reuse(n) PROVE HeapInv'
  <2>1. /\ UNCHANGED <<heap_curr, allocated_bytes, pc, cur, req, heap_mapped_end, page,
                       tables, pool, avail>>
        /\ pc = "idle"
    BY <1>1, Zenon DEF kmalloc_reuse, memory
  <2>2. ListInv' /\ OwnedInv' /\ MergesLeft'
    BY <1>1, ReuseStep, Zenon
  <2>3. PagesInv' /\ FramesInv'
    BY <2>1, PagesSame, FramesSame, Zenon
  <2>4. ScalarInv'
    BY <2>1, Zenon DEF ScalarInv
  <2> QED BY <2>2, <2>3, <2>4, HeapWhole, Zenon
<1>2. ASSUME NEW n \in Sizes, kmalloc_request(n) PROVE HeapInv'
  <2>1. /\ UNCHANGED <<hdr, heap_head, heap_curr, owned, allocated_bytes, page, tables,
                       pool, avail>>
        /\ pc = "idle" /\ pc' = "grow"
    BY <1>2, Zenon DEF kmalloc_request, memory
  <2>2. ListInv' /\ OwnedInv' /\ MergesLeft'
    BY <2>1, RestStep, Zenon
  <2>3. PagesInv' /\ cur' \in Nat /\ req' \in Nat
    BY <1>2, PagesRequest, Zenon
  <2>4. FramesInv'
    BY <2>1, FramesSame, Zenon
  <2>5. ScalarInv'
    BY <2>1, <2>3, Zenon DEF ScalarInv
  <2> QED BY <2>2, <2>3, <2>4, <2>5, HeapWhole, Zenon
<1>3. CASE map_new_page
  <2>1. /\ UNCHANGED <<hdr, heap_head, heap_curr, owned, allocated_bytes, pc, cur, req>>
        /\ pc = "grow"
    BY <1>3, Zenon DEF map_new_page
  <2>2. ListInv' /\ OwnedInv' /\ MergesLeft'
    BY <2>1, RestStep, Zenon
  <2>3. PagesInv' /\ heap_mapped_end \notin DOMAIN page
    BY <1>0, <1>3, PagesMap, Zenon
  <2>4. FramesInv'
    BY <1>3, <2>3, FramesMap, Zenon
  <2>5. ScalarInv'
    BY <2>1, Zenon DEF ScalarInv
  <2> QED BY <2>2, <2>3, <2>4, <2>5, HeapWhole, Zenon
<1>4. CASE out_of_frames
  <2>1. /\ UNCHANGED <<hdr, heap_head, heap_curr, owned, allocated_bytes, cur, req,
                       heap_mapped_end, page>>
        /\ pc = "grow" /\ pc' = "halted"
    BY <1>4, Zenon DEF out_of_frames
  <2>2. ListInv' /\ OwnedInv' /\ MergesLeft'
    BY <2>1, RestStep, Zenon
  <2>3. PagesInv' /\ FramesInv'
    BY <1>4, <2>1, PagesSame, FramesHalt, Zenon
  <2>4. ScalarInv'
    BY <2>1, Zenon DEF ScalarInv
  <2> QED BY <2>2, <2>3, <2>4, HeapWhole, Zenon
<1>5. CASE kmalloc_append
  <2>1. /\ pc = "grow" /\ pc' = "idle" /\ cur' = 0 /\ req' = 0
        /\ UNCHANGED <<heap_mapped_end, page, tables, pool, avail>>
        /\ allocated_bytes' = (allocated_bytes + cur) % WORD
    BY <1>5, Zenon DEF kmalloc_append, memory
  <2>2. ListInv' /\ OwnedInv' /\ MergesLeft'
    BY <1>0, <1>5, AppendStep, Zenon DEF PagesInv
  <2>3. PagesInv' /\ FramesInv'
    BY <1>0, <1>5, <2>1, PagesAppend, FramesSame, Zenon
  <2>4. allocated_bytes' \in 0 .. WORD - 1
    BY <1>0, <2>1, WordRange
  <2>5. ScalarInv'
    BY <2>1, <2>4, Zenon DEF ScalarInv
  <2> QED BY <2>2, <2>3, <2>5, HeapWhole, Zenon
<1>6. ASSUME NEW ptr \in DOMAIN owned, kfree(ptr) PROVE HeapInv'
  <2>1. /\ pc = "idle" /\ pc' = "merge_next" /\ req' = req
        /\ UNCHANGED <<heap_curr, heap_mapped_end, page, tables, pool, avail>>
        /\ allocated_bytes' = (allocated_bytes - hdr[ptr - BLOCK_OVERHEAD].size) % WORD
    BY <1>6, Zenon DEF kfree, memory
  <2>2. ListInv' /\ OwnedInv' /\ MergesLeft' /\ cur' \in Blocks /\ cur' = ptr - BLOCK_OVERHEAD
    BY <1>6, FreeStep, Zenon
  <2>3. PagesInv' /\ FramesInv'
    BY <2>1, PagesSame, FramesSame, Zenon
  <2>4. hdr[ptr - BLOCK_OVERHEAD].size \in Nat /\ cur' \in Nat
    BY <2>2, BlockFacts, Zenon
  <2>5. allocated_bytes' \in 0 .. WORD - 1
    BY <1>0, <2>1, <2>4, WordRange
  <2>6. ScalarInv'
    BY <1>0, <2>1, <2>4, <2>5, Zenon DEF ScalarInv
  <2> QED BY <2>2, <2>3, <2>6, HeapWhole, Zenon
<1>7. CASE coalesce_next
  <2>1. /\ pc = "merge_next" /\ pc' = "merge_prev"
        /\ UNCHANGED <<heap_curr, heap_mapped_end, page, tables, pool, avail, cur, req,
                       allocated_bytes>>
    BY <1>7, Zenon DEF coalesce_next, memory
  <2>2. ListInv' /\ OwnedInv' /\ MergesLeft'
    BY <1>7, MergeNextStep, Zenon
  <2>3. PagesInv' /\ FramesInv'
    BY <2>1, PagesSame, FramesSame, Zenon
  <2>4. ScalarInv'
    BY <2>1, Zenon DEF ScalarInv
  <2> QED BY <2>2, <2>3, <2>4, HeapWhole, Zenon
<1>8. CASE coalesce_prev
  <2>1. /\ pc = "merge_prev" /\ pc' = "trim" /\ cur' = 0
        /\ UNCHANGED <<heap_curr, heap_mapped_end, page, tables, pool, avail, req,
                       allocated_bytes>>
    BY <1>8, Zenon DEF coalesce_prev, memory
  <2>2. ListInv' /\ OwnedInv' /\ MergesLeft'
    BY <1>8, MergePrevStep, Zenon
  <2>3. PagesInv' /\ FramesInv'
    BY <2>1, PagesSame, FramesSame, Zenon
  <2>4. ScalarInv'
    BY <2>1, Zenon DEF ScalarInv
  <2> QED BY <2>2, <2>3, <2>4, HeapWhole, Zenon
<1>9. CASE heap_trim_pop
  <2>1. /\ pc = "trim" /\ UNCHANGED <<pc, heap_mapped_end, page, tables, pool, avail, cur,
                                      req, allocated_bytes>>
    BY <1>9, Zenon DEF heap_trim_pop, memory
  <2>2. /\ ListInv' /\ OwnedInv' /\ MergesLeft'
        /\ heap_curr' \in Nat /\ heap_curr' <= heap_curr
    BY <1>9, PopStep, Zenon
  <2>3. PagesInv' /\ FramesInv'
    BY <2>1, <2>2, PagesPop, FramesSame, Zenon
  <2>4. ScalarInv'
    BY <2>1, Zenon DEF ScalarInv
  <2> QED BY <2>2, <2>3, <2>4, HeapWhole, Zenon
<1>10. CASE heap_trim_stop
  <2>1. /\ pc = "trim" /\ pc' = "unmap"
        /\ UNCHANGED <<heap_mapped_end, page, tables, pool, avail, cur, req,
                       allocated_bytes>>
    BY <1>10, Zenon DEF heap_trim_stop, memory
  <2>2. ListInv' /\ OwnedInv' /\ MergesLeft' /\ heap_curr' = heap_curr
    BY <1>10, StopStep, Zenon
  <2>3. PagesInv' /\ FramesInv'
    BY <2>1, <2>2, PagesSame, FramesSame, Zenon
  <2>4. ScalarInv'
    BY <2>1, Zenon DEF ScalarInv
  <2> QED BY <2>2, <2>3, <2>4, HeapWhole, Zenon
<1>11. CASE heap_trim_unmap
  <2>1. /\ pc = "unmap"
        /\ UNCHANGED <<hdr, heap_head, heap_curr, owned, pc, cur, req, allocated_bytes>>
    BY <1>11, Zenon DEF heap_trim_unmap
  <2>2. ListInv' /\ OwnedInv' /\ MergesLeft'
    BY <2>1, RestStep, Zenon
  <2>3. PagesInv' /\ heap_mapped_end' \in DOMAIN page
    BY <1>11, PagesUnmap, Zenon
  <2>4. FramesInv'
    BY <1>11, <2>3, FramesUnmap, Zenon
  <2>5. ScalarInv'
    BY <2>1, Zenon DEF ScalarInv
  <2> QED BY <2>2, <2>3, <2>4, <2>5, HeapWhole, Zenon
<1>12. CASE heap_trim_done
  <2>1. /\ pc = "unmap" /\ pc' = "idle"
        /\ UNCHANGED <<hdr, heap_head, heap_curr, owned, cur, req, allocated_bytes,
                       page, tables, pool, avail>>
    BY <1>12, Zenon DEF heap_trim_done, memory
  <2>2. ListInv' /\ OwnedInv' /\ MergesLeft'
    BY <2>1, RestStep, Zenon
  <2>3. PagesInv' /\ FramesInv'
    BY <1>12, <2>1, PagesDone, FramesSame, Zenon
  <2>4. ScalarInv'
    BY <2>1, Zenon DEF ScalarInv
  <2> QED BY <2>2, <2>3, <2>4, HeapWhole, Zenon
<1>13. CASE UNCHANGED vars
  <2>1. UNCHANGED <<hdr, heap_head, heap_curr, heap_mapped_end, allocated_bytes, page,
                    tables, pool, avail, pc, cur, req, owned>>
    BY <1>13, Zenon DEF vars
  <2>2. ListInv' /\ Blocks' = Blocks
    BY <2>1, SameList, Zenon
  <2>3. OwnedInv'
    BY <2>1, <2>2, Zenon DEF OwnedInv, OwnedBlocks
  <2>4. MergesLeft'
    <3>1. NULL' = NULL /\ \A x \in Blocks : Isolated(x)' <=> Isolated(x)
      BY <2>1, Zenon DEF NULL, Isolated
    <3>2. cur \in Blocks => (Isolated(cur)' <=> Isolated(cur))
      BY <2>1, Zenon DEF NULL, Isolated
    <3> QED BY <2>1, <2>2, <3>1, <3>2, Zenon DEF MergesLeft
  <2>5. PagesInv'
    BY <2>1, Zenon DEF PagesInv, PagesCoverBlocks, PagesLeft, KeepEnd, GrowthEnd, align_up,
                heap_end, Aligned
  <2>6. FramesInv'
    BY <2>1, FramesSame, Zenon
  <2>7. ScalarInv'
    BY <2>1, Zenon DEF ScalarInv
  <2> QED BY <2>2, <2>3, <2>4, <2>5, <2>6, <2>7, HeapWhole, Zenon
<1> QED BY <1>1, <1>2, <1>3, <1>4, <1>5, <1>6, <1>7, <1>8, <1>9, <1>10, <1>11, <1>12,
           <1>13, Zenon DEF Next

\* The inductive invariant of the heap, for all constants.
THEOREM HeapInvariant == Spec => []HeapInv
<1>1. Init => HeapInv
  BY HeapInit, Zenon
<1>2. HeapInv /\ [Next]_vars => HeapInv'
  BY HeapStep, Zenon
<1> QED BY <1>1, <1>2, PTL DEF Spec

\* No block starts and heap_curr never lies past the end of the heap; every frame the
\* heap uses is one it was given.
THEOREM HeapTypeCorrect == Spec => []TypeOK
<1>1. HeapInv => TypeOK
  BY Zenon DEF HeapInv
<1> QED BY <1>1, HeapInvariant, PTL

\* The list tiles the heap from HEAP_START to heap_curr after every step of kmalloc,
\* coalesce and heap_trim.
THEOREM HeapListTiles == Spec => []ListTiles
<1>1. HeapInv => ListTiles
  BY Zenon DEF HeapInv
<1> QED BY <1>1, HeapInvariant, PTL

\* Between calls a free block is neither last nor before another free block.
THEOREM HeapFreeBlocksIsolated == Spec => []FreeBlocksIsolated
<1>1. HeapInv => FreeBlocksIsolated
  BY Zenon DEF HeapInv, MergesLeft, Isolated, FreeBlocksIsolated
<1> QED BY <1>1, HeapInvariant, PTL

\* The blocks in use are those of the pointers callers hold, each big enough.
THEOREM HeapOwnedBlocks == Spec => []OwnedBlocks
<1>1. HeapInv => OwnedBlocks
  BY Zenon DEF HeapInv
<1> QED BY <1>1, HeapInvariant, PTL

\* The mapped pages cover the blocks, and between calls there is none too many.
THEOREM HeapPagesCoverBlocks == Spec => []PagesCoverBlocks
<1>1. HeapInv => PagesCoverBlocks
  BY Zenon DEF HeapInv
<1> QED BY <1>1, HeapInvariant, PTL

\* ensure_space and heap_trim lose no frame and use none twice.
THEOREM HeapFramesConserved == Spec => []FramesConserved
<1>1. HeapInv => FramesConserved
  BY Zenon DEF HeapInv
<1> QED BY <1>1, HeapInvariant, PTL
-----------------------------------------------------------------------------
\* A region inside block b, which no caller holds, overlaps no region held.
LEMMA RegionApart ==
  ASSUME ListInv, OwnedInv, NEW b \in Nat, NEW n \in Nat, NEW e \in Nat,
         b + BLOCK_OVERHEAD + n <= e,
         \A c \in Blocks : ~hdr[c].free => e <= c \/ BlockEnd(c) <= b,
         NEW q \in DOMAIN owned
  PROVE  Abstract!Disjoint(b + BLOCK_OVERHEAD, n, q, owned[q])
<1> DEFINE c == q - BLOCK_OVERHEAD
<1>1. /\ q \in Nat /\ owned[q] \in Nat /\ c \in Blocks /\ ~hdr[c].free
      /\ owned[q] <= hdr[c].size /\ q = c + BLOCK_OVERHEAD
  BY OwnedFacts, Zenon
<1> HIDE DEF c
<1>2. /\ c \in Nat /\ hdr[c].size \in Nat /\ BlockEnd(c) = c + BLOCK_OVERHEAD + hdr[c].size
      /\ BLOCK_OVERHEAD \in Nat
  BY <1>1, BlockFacts, Numbers, Zenon
<1>3. CASE e <= c
  <2>1. (b + BLOCK_OVERHEAD) + n <= q
    BY <1>1, <1>2, <1>3
  <2> QED BY <2>1, Zenon DEF Abstract!Disjoint
<1>4. CASE BlockEnd(c) <= b
  <2>1. q + owned[q] <= BlockEnd(c)
    BY <1>1, <1>2
  <2>2. q + owned[q] <= b + BLOCK_OVERHEAD
    BY <1>1, <1>2, <1>4, <2>1
  <2> QED BY <2>2, Zenon DEF Abstract!Disjoint
<1> QED BY <1>1, <1>3, <1>4, Zenon

\* Handing out a region inside [b, e) is a Malloc of the abstract allocator.
LEMMA MallocStep ==
  ASSUME ListInv, OwnedInv, NEW b \in Nat, HEAP_START <= b, NEW n \in Sizes, n # 0,
         NEW e \in Nat, b + BLOCK_OVERHEAD + n <= e, e <= heap_end,
         b + BLOCK_OVERHEAD \notin DOMAIN owned,
         \A c \in Blocks : ~hdr[c].free => e <= c \/ BlockEnd(c) <= b,
         owned' = Put(owned, b + BLOCK_OVERHEAD, n)
  PROVE  Abstract!Malloc
<1> DEFINE p == b + BLOCK_OVERHEAD
<1>1. /\ DOMAIN owned' = DOMAIN owned \cup {p} /\ owned'[p] = n
      /\ \A q \in DOMAIN owned : owned'[q] = owned[q]
  BY Zenon DEF Put
<1>2. n \in Nat /\ p \in (HEAP_START .. heap_end - 1) \ DOMAIN owned /\ p + n <= heap_end
  BY Numbers
<1>3. \A q \in DOMAIN owned : Abstract!Disjoint(p, n, q, owned[q])
  BY <1>2, RegionApart, Zenon
<1> HIDE DEF p
<1> QED BY <1>1, <1>2, <1>3, Zenon DEF Abstract!Malloc

\* Every step of the heap is a step of the abstract allocator or leaves the regions.
LEMMA AbstractStep == HeapInv /\ [Next]_vars => [Abstract!Next]_owned
<1> SUFFICES ASSUME HeapInv, [Next]_vars, owned' # owned PROVE Abstract!Next
  BY Zenon
<1>0. ListInv /\ OwnedInv /\ MergesLeft /\ PagesInv /\ ScalarInv
  BY HeapParts, Zenon
<1>1. ASSUME NEW n \in Sizes, kmalloc_reuse(n) PROVE Abstract!Next
  <2> DEFINE size == align_up(n, ALIGN)
             b    == Min(Fits(size))
  <2>1. Fits(size) # {} /\ n # 0 /\ owned' = Put(owned, b + BLOCK_OVERHEAD, n)
    BY <1>1, Zenon DEF kmalloc_reuse
  <2>2. /\ b \in Blocks /\ hdr[b].free /\ n <= hdr[b].size
        /\ b + BLOCK_OVERHEAD \notin DOMAIN owned
    BY <1>0, <2>1, ReuseFacts, Zenon
  <2> HIDE DEF b
  <2>3. /\ b \in Nat /\ HEAP_START <= b /\ BlockEnd(b) \in Nat /\ hdr[b].size \in Nat
        /\ BlockEnd(b) = b + BLOCK_OVERHEAD + hdr[b].size /\ BlockEnd(b) <= heap_curr
        /\ n \in Nat /\ BLOCK_OVERHEAD \in Nat /\ heap_curr \in Nat /\ heap_curr <= heap_end
        /\ heap_end \in Nat
    <3>1. /\ b \in Nat /\ HEAP_START <= b /\ BlockEnd(b) \in Nat /\ hdr[b].size \in Nat
          /\ BlockEnd(b) = b + BLOCK_OVERHEAD + hdr[b].size /\ BlockEnd(b) <= heap_curr
      BY <1>0, <2>2, BlockFacts, Zenon
    <3>2. heap_curr \in HEAP_START .. heap_end
      BY <1>0, Zenon DEF ListInv
    <3> QED BY <3>1, <3>2, Numbers
  <2>4. b + BLOCK_OVERHEAD + n <= BlockEnd(b) /\ BlockEnd(b) <= heap_end
    BY <2>2, <2>3
  <2>5. \A c \in Blocks : ~hdr[c].free => BlockEnd(b) <= c \/ BlockEnd(c) <= b
    <3> SUFFICES ASSUME NEW c \in Blocks, c # b PROVE BlockEnd(b) <= c \/ BlockEnd(c) <= b
      BY <2>2, Zenon
    <3>1. b < c \/ c < b
      <4>1. c \in Nat
        BY <1>0, BlockFacts, Zenon
      <4> QED BY <2>3, <4>1
    <3> QED BY <1>0, <2>2, <3>1, LinkFacts, Zenon
  <2>6. Abstract!Malloc
    BY <1>0, <2>1, <2>2, <2>3, <2>4, <2>5, MallocStep, Zenon
  <2> QED BY <2>6, Zenon DEF Abstract!Next
<1>2. CASE kmalloc_append
  <2>1. cur \in Nat /\ PagesLeft /\ pc = "grow"
    BY <1>0, <1>2, Zenon DEF ScalarInv, PagesInv, kmalloc_append
  <2>2. owned' = Put(owned, heap_curr + BLOCK_OVERHEAD, req)
    BY <1>0, <1>2, <2>1, AppendStep, Zenon
  <2>3. /\ req \in Sizes /\ req # 0 /\ req \in Nat /\ req <= cur /\ GrowthEnd(cur) <= heap_end
        /\ GrowthEnd(cur) = heap_curr + cur + BLOCK_OVERHEAD /\ GrowthEnd(cur) \in Nat
    BY <1>0, <2>1, GrowthFacts, Zenon DEF PagesLeft, ScalarInv
  <2>4. heap_curr \in Nat /\ HEAP_START <= heap_curr /\ BLOCK_OVERHEAD \in Nat
    BY <1>0, PagesFacts, Numbers, Zenon
  <2>5. heap_curr + BLOCK_OVERHEAD + req <= GrowthEnd(cur)
    BY <2>1, <2>3, <2>4
  <2>6. \A c \in Blocks : BlockEnd(c) <= heap_curr /\ c # heap_curr
    BY <1>0, BlockFacts
  <2>7. heap_curr + BLOCK_OVERHEAD \notin DOMAIN owned
    <3>1. (heap_curr + BLOCK_OVERHEAD) - BLOCK_OVERHEAD = heap_curr
      BY <2>4
    <3> QED BY <1>0, <2>6, <3>1, OwnedFacts, Zenon
  <2>8. Abstract!Malloc
    BY <1>0, <2>2, <2>3, <2>4, <2>5, <2>6, <2>7, MallocStep, Zenon
  <2> QED BY <2>8, Zenon DEF Abstract!Next
<1>3. ASSUME NEW ptr \in DOMAIN owned, kfree(ptr) PROVE Abstract!Next
  <2>1. owned' = Drop(owned, ptr)
    BY <1>3, Zenon DEF kfree
  <2> QED BY <2>1, Zenon DEF Abstract!Next, Abstract!Free, Drop, Abstract!Restrict, Restrict
<1>4. ~(\E n \in Sizes : kmalloc_request(n)) /\ ~map_new_page /\ ~out_of_frames
  BY Zenon DEF kmalloc_request, map_new_page, out_of_frames
<1>5. /\ ~coalesce_next /\ ~coalesce_prev /\ ~heap_trim_pop /\ ~heap_trim_stop
      /\ ~heap_trim_unmap /\ ~heap_trim_done /\ ~UNCHANGED vars
  BY Zenon DEF coalesce_next, coalesce_prev, heap_trim_pop, heap_trim_stop, heap_trim_unmap,
         heap_trim_done, vars
<1> QED BY <1>1, <1>2, <1>3, <1>4, <1>5, Zenon DEF Next

\* The heap implements the abstract allocator: kmalloc never hands out memory that
\* overlaps a region still held, and kfree gives back one region only.
THEOREM HeapRefinement == Spec => AbstractSpec
<1>1. Init => Abstract!Init
  BY Zenon DEF Init, Abstract!Init
<1>2. HeapInv /\ [Next]_vars => [Abstract!Next]_owned
  BY AbstractStep, Zenon
<1> QED BY <1>1, <1>2, HeapInvariant, PTL DEF Spec, AbstractSpec, Abstract!Spec
=============================================================================
