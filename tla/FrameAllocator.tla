--------------------------- MODULE FrameAllocator ---------------------------
(***************************************************************************)
(* What the physical memory manager promises its callers, with no bitmap,  *)
(* no counter and no search hint: a set of frames nobody owns, from which  *)
(* an allocation takes one and to which a free returns one.  0 is the      *)
(* "no frame" answer; frame 0 is never in the pool.                        *)
(***************************************************************************)
EXTENDS Integers

VARIABLES up,       \* the boot-time region scan is over
          avail,    \* frames nobody owns
          granted,  \* frames handed out and not yet returned
          answer    \* frame returned by the last allocation, 0 for "none"

faVars == <<up, avail, granted, answer>>

Init == /\ up = FALSE
        /\ avail = {}
        /\ granted = {}
        /\ answer = 0

\* Boot: the firmware map fills the pool; nothing is handed out meanwhile.
Discover == /\ ~up
            /\ up' \in BOOLEAN
            /\ 0 \notin avail'
            /\ avail \subseteq avail'
            /\ UNCHANGED <<granted, answer>>

\* Alloc hands out a frame of the pool, and answers "none" only if it is empty.
Alloc == /\ up
         /\ \/ /\ answer' \in avail
               /\ avail' = avail \ {answer'}
               /\ granted' = granted \cup {answer'}
            \/ /\ avail = {}
               /\ answer' = 0
               /\ UNCHANGED <<avail, granted>>
         /\ UNCHANGED up

Free == /\ up
        /\ \E f \in granted : /\ granted' = granted \ {f}
                              /\ avail' = avail \cup {f}
        /\ UNCHANGED <<up, answer>>

Next == Discover \/ Alloc \/ Free

Spec == Init /\ [][Next]_faVars
=============================================================================
