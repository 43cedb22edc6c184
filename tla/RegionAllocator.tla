--------------------------- MODULE RegionAllocator --------------------------
(***************************************************************************)
(* What kmalloc and kfree promise: every pointer handed out addresses a    *)
(* region of the arena that overlaps no other region still held.           *)
(***************************************************************************)
EXTENDS Integers, Functions

CONSTANTS ArenaStart, ArenaEnd,  \* the arena is [ArenaStart, ArenaEnd)
          Sizes                  \* sizes callers ask for

VARIABLE owned   \* the regions held: a function from pointers to sizes

Init == owned = << >>

Disjoint(p, n, q, m) == p + n <= q \/ q + m <= p

Malloc == \E p \in (ArenaStart .. ArenaEnd - 1) \ DOMAIN owned :
            /\ DOMAIN owned' = DOMAIN owned \cup {p}
            /\ owned'[p] \in Sizes
            /\ p + owned'[p] <= ArenaEnd
            /\ \A q \in DOMAIN owned : /\ owned'[q] = owned[q]
                                       /\ Disjoint(p, owned'[p], q, owned[q])

Free == \E p \in DOMAIN owned : owned' = Restrict(owned, DOMAIN owned \ {p})

Next == Malloc \/ Free

Spec == Init /\ [][Next]_owned
=============================================================================
