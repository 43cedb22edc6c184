------------------------------ MODULE Virtqueue -----------------------------
(***************************************************************************)
(* A split virtqueue of src/drivers/virtio.c and the device behind it.     *)
(*                                                                         *)
(* The driver owns the descriptor table and the available ring, the device *)
(* the used ring.  The free list runs through the next fields of the       *)
(* descriptors.  Addresses and lengths are left out: a chain stands for    *)
(* the request whose buffers it names, which the device reads when it      *)
(* takes the chain.  Ring indices wrap at 2^16 as in the code.             *)
(***************************************************************************)
EXTENDS Integers, FiniteSets

CONSTANTS NUM,  \* vq.num, the size of the queue
          IDX   \* 2^16, the modulus of the ring indices

ASSUME VirtqueueAssumption ==
  NUM \in Nat \ {0} /\ IDX \in Nat \ {0} /\ IDX > NUM /\ IDX % NUM = 0

VARIABLES next, chained,  \* desc[].next, and VRING_DESC_F_NEXT of desc[].flags
          free_head, num_free, last_used_idx,
          avail, avail_idx, used, used_idx,
          dev_seen,  \* device: how far it has read the available ring
          taken      \* device: head |-> request, for the chains it works on

driver == <<next, chained, free_head, num_free, last_used_idx, avail, avail_idx>>
device == <<used, used_idx, dev_seen, taken>>
vqVars == <<driver, device>>

Descs == 0 .. NUM - 1

\* virtqueue_init: desc[i].next = i + 1, and 0 for the last.
VqInit == /\ next = [i \in Descs |-> (i + 1) % NUM]
          /\ chained = [i \in Descs |-> FALSE]
          /\ free_head = 0 /\ num_free = NUM /\ last_used_idx = 0
          /\ avail = [i \in Descs |-> 0] /\ avail_idx = 0
          /\ used = [i \in Descs |-> 0] /\ used_idx = 0
          /\ dev_seen = 0
          /\ taken = << >>
-----------------------------------------------------------------------------
\* The descriptor k links after d.
Follow(d, k) ==
  LET at[i \in 1 .. NUM] == next[IF i = 1 THEN d ELSE at[i - 1]]
  IN  IF k = 0 THEN d ELSE at[k]

\* Mutation: the ring slot is one off.
Mut_SlotOff(i) == (i + 1) % NUM

\* Where the i-th entry of a ring lies.
Slot(i) == i % NUM

\* virtqueue_add_chain of count buffers.  virtqueue_add_buf is the case count = 1.
virtqueue_add_chain(count) ==
  LET last == Follow(free_head, count - 1)
      body == {Follow(free_head, i) : i \in 0 .. count - 2}
  IN  /\ num_free >= count
      /\ next' = [next EXCEPT ![last] = 0]
      /\ chained' = [d \in Descs |-> d \in body \/ (d # last /\ chained[d])]
      /\ free_head' = next[last]
      /\ num_free' = num_free - count
      /\ avail' = [avail EXCEPT ![Slot(avail_idx)] = free_head]
      /\ avail_idx' = (avail_idx + 1) % IDX
      /\ UNCHANGED <<last_used_idx, device>>

\* Mutation: only the head of a chain is returned to the free list.
Mut_HeadOnly(h) == 1

\* The number of descriptors in the chain that starts at h.
ChainLen(h) == CHOOSE n \in 1 .. NUM : /\ ~chained[Follow(h, n - 1)]
                                       /\ \A i \in 1 .. n - 1 : chained[Follow(h, i - 1)]
Chain(h) == {Follow(h, i) : i \in 0 .. ChainLen(h) - 1}

\* virtqueue_get_buf when there is a completion: the chain goes back to the free
\* list, one descriptor after the other, so its last one becomes the head.
Completion == last_used_idx # used_idx

virtqueue_get_buf ==
  LET h == used[last_used_idx % NUM]
      n == ChainLen(h)
  IN  /\ Completion
      /\ next' = [d \in Descs |->
                    IF d = h THEN free_head
                    ELSE IF \E i \in 1 .. n - 1 : d = Follow(h, i)
                         THEN Follow(h, (CHOOSE i \in 1 .. n - 1 : d = Follow(h, i)) - 1)
                         ELSE next[d]]
      /\ free_head' = Follow(h, n - 1)
      /\ num_free' = num_free + n
      /\ last_used_idx' = (last_used_idx + 1) % IDX
      /\ UNCHANGED <<chained, avail, avail_idx, device>>

\* The device takes the next chain and reads the request it carries.
dev_take(request) ==
  LET h == avail[dev_seen % NUM]
  IN  /\ dev_seen # avail_idx
      /\ h \notin DOMAIN taken
      /\ taken' = [t \in DOMAIN taken \cup {h} |-> IF t = h THEN request ELSE taken[t]]
      /\ dev_seen' = (dev_seen + 1) % IDX
      /\ UNCHANGED <<driver, used, used_idx>>

\* The device is done with the chain at h.  Chains complete in any order.
dev_complete(h) ==
  /\ h \in DOMAIN taken
  /\ taken' = [t \in DOMAIN taken \ {h} |-> taken[t]]
  /\ used' = [used EXCEPT ![used_idx % NUM] = h]
  /\ used_idx' = (used_idx + 1) % IDX
  /\ UNCHANGED <<driver, dev_seen>>
-----------------------------------------------------------------------------
\* Types of the queue.
VqTypeOK == /\ next \in [Descs -> Descs] /\ chained \in [Descs -> BOOLEAN]
            /\ free_head \in Descs /\ num_free \in 0 .. NUM
            /\ avail \in [Descs -> Descs] /\ used \in [Descs -> Descs]
            /\ {last_used_idx, avail_idx, used_idx, dev_seen} \subseteq 0 .. IDX - 1
            /\ DOMAIN taken \subseteq Descs

Waiting == (avail_idx - dev_seen) % IDX   \* chains the device has not taken
Done == (used_idx - last_used_idx) % IDX  \* completions the driver has not seen

WaitingHeads == {avail[(dev_seen + i) % NUM] : i \in 0 .. Waiting - 1}
DoneHeads == {used[(last_used_idx + i) % NUM] : i \in 0 .. Done - 1}
Posted == WaitingHeads \cup DOMAIN taken \cup DoneHeads

\* Neither ring is overrun: every chain that was posted and not yet returned is in
\* exactly one place, waiting, taken or done.
RingsSound ==
  Waiting + Cardinality(DOMAIN taken) + Done = Cardinality(Posted)

\* The free list holds num_free different descriptors, and every other descriptor is
\* in exactly one posted chain: none is lost, and none is reused while the device may
\* still write through it.
DescriptorsConserved ==
  LET free == {Follow(free_head, i) : i \in 0 .. num_free - 1}
  IN  /\ Cardinality(free) = num_free
      /\ \A h \in Posted : /\ Chain(h) \cap free = {}
                           /\ \A g \in Posted \ {h} : Chain(g) \cap Chain(h) = {}
      /\ free \cup UNION {Chain(h) : h \in Posted} = Descs
=============================================================================
