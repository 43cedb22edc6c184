------------------------------ MODULE InputProofs ---------------------------
(***************************************************************************)
(* Event buffers and descriptors in virtio_input.c stay paired, every key  *)
(* is read, on its way or lost for one of the two reasons the code has,    *)
(* and the keys of one keyboard arrive in order: for every size of the     *)
(* ring, the line and the queue, and every number of events and keys.      *)
(***************************************************************************)
EXTENDS Input, NumberLemmas

\* What a remainder is.
LEMMA Remainder == \A a \in Int, b \in Nat \ {0} :
                      a % b \in 0 .. b - 1 /\ (a \in 0 .. b - 1 => a % b = a)
  OBVIOUS

\* The event buffers are the first descriptors.
LEMMA BufferFacts == /\ NUM \in Nat \ {0} /\ IDX \in Nat \ {0} /\ EVENTS \in Nat \ {0}
                     /\ Buffers \subseteq Descs
                     /\ \A h \in Buffers : h % EVENTS = h
                     /\ \A a \in Int : a % NUM \in Descs /\ a % IDX \in Nat
<1>1. NUM \in Nat \ {0} /\ IDX \in Nat \ {0} /\ EVENTS \in Nat \ {0} /\ EVENTS <= NUM
  BY VirtqueueAssumption, InputAssumption
<1>2. Buffers \subseteq Descs
  BY <1>1 DEF Buffers, Descs
<1>3. \A h \in Buffers : h % EVENTS = h
  BY <1>1, Remainder DEF Buffers
<1>4. \A a \in Int : a % NUM \in Descs
  BY <1>1, Remainder, Zenon DEF Descs
<1>5. \A a \in Int : a % IDX \in Nat
  BY <1>1, Remainder
<1> QED BY <1>1, <1>2, <1>3, <1>4, <1>5, Zenon

\* A buffer that virtqueue_get_buf finds is a chain of one descriptor.
LEMMA SingleChain == ASSUME chained = [d \in Descs |-> FALSE], NEW h \in Descs
                     PROVE  ChainLen(h) = 1 /\ Follow(h, 0) = h
<1>1. Follow(h, 0) = h
  BY Zenon DEF Follow
<1>2. 1 \in 1 .. NUM /\ \A n \in 1 .. NUM : 1 \in 1 .. n - 1 <=> n # 1
  BY BufferFacts
<1>3. \A n \in 1 .. NUM :
         (/\ ~chained[Follow(h, n - 1)]
          /\ \A i \in 1 .. n - 1 : chained[Follow(h, i - 1)]) <=> n = 1
  <2> TAKE n \in 1 .. NUM
  <2>1. CASE n = 1
    BY <1>1, <2>1
  <2>2. CASE n # 1
    <3>1. 1 \in 1 .. n - 1 /\ 1 - 1 = 0
      BY <1>2, <2>2
    <3>2. ~chained[Follow(h, 1 - 1)]
      BY <1>1, <3>1, Zenon
    <3> QED BY <2>2, <3>1, <3>2, Zenon
  <2> QED BY <2>1, <2>2, Zenon
<1> QED BY <1>1, <1>2, <1>3, Zenon DEF ChainLen
-----------------------------------------------------------------------------
\* virtio_input_init pairs them.
LEMMA PairedInit == Init => PairedInv
<1> SUFFICES ASSUME Init PROVE PairedInv
  BY Zenon
<1>1. /\ chained = [d \in Descs |-> FALSE] /\ DOMAIN taken \subseteq Buffers
      /\ {last_used_idx, avail_idx, used_idx, dev_seen} \subseteq Nat /\ pc = "read"
  BY BufferFacts DEF Init, virtio_input_init
<1>2. /\ avail = [i \in Descs |-> IF i < EVENTS THEN i ELSE 0]
      /\ addr = [i \in Descs |-> IF i < EVENTS THEN i ELSE 0]
      /\ used = [i \in Descs |-> 0]
  BY Zenon DEF Init, virtio_input_init
<1>3. \A i \in Descs : (IF i < EVENTS THEN i ELSE 0) \in Buffers
  BY BufferFacts DEF Descs, Buffers
<1>4. 0 \in Buffers /\ \A h \in Buffers : h < EVENTS
  BY BufferFacts DEF Buffers
<1> QED BY <1>1, <1>2, <1>3, <1>4, BufferFacts, Zenon DEF PairedInv

\* Steps that leave the queue and the buffers alone.
LEMMA PairedKept ==
  ASSUME PairedInv, UNCHANGED <<vqVars, addr>>,
         \/ pc' \notin {"push", "store", "publish", "repost"}
         \/ pc \in {"push", "store", "publish", "repost"} /\ evt' = evt
  PROVE  PairedInv'
  BY Zenon DEF PairedInv, vqVars, driver, device, Descs, Buffers

\* virtio_input_poll takes a completion: its descriptor becomes the head of the free list.
LEMMA PollPaired == PairedInv /\ poll_event => PairedInv'
<1> SUFFICES ASSUME PairedInv, poll_event PROVE PairedInv'
  BY Zenon
<1> DEFINE h == used[last_used_idx % NUM]
<1>1. h \in Buffers /\ h \in Descs
  BY BufferFacts DEF PairedInv
<1>2. free_head' = h
  BY <1>1, SingleChain DEF PairedInv, poll_event, virtqueue_get_buf
<1>3. evt' = h
  BY <1>1, BufferFacts, Zenon DEF poll_event, EventOf
<1>4. last_used_idx' \in Nat
  BY BufferFacts DEF PairedInv, poll_event, virtqueue_get_buf
<1>5. UNCHANGED <<chained, avail, avail_idx, used, used_idx, dev_seen, taken, addr>>
  BY Zenon DEF poll_event, virtqueue_get_buf, device
<1> HIDE DEF h
<1> QED BY <1>1, <1>2, <1>3, <1>4, <1>5 DEF PairedInv, Descs, Buffers

\* ... and the buffer is posted with that descriptor again.
LEMMA RepostPaired == PairedInv /\ poll_repost => PairedInv'
<1> SUFFICES ASSUME PairedInv, poll_repost PROVE PairedInv'
  BY Zenon
<1>1. evt \in Buffers /\ free_head = evt /\ pc' = "poll"
  BY Zenon DEF PairedInv, poll_repost, At
<1>2. chained' = [d \in Descs |-> FALSE]
  <2>1. 0 .. 1 - 2 = {}
    OBVIOUS
  <2> QED BY <2>1, Zenon DEF PairedInv, poll_repost, virtqueue_add_chain
<1>3. avail' = [avail EXCEPT ![Slot(avail_idx)] = free_head] /\ avail_idx' \in Nat
  <2>1. /\ avail' = [avail EXCEPT ![Slot(avail_idx)] = free_head]
        /\ avail_idx' = (avail_idx + 1) % IDX
    BY Zenon DEF poll_repost, virtqueue_add_chain
  <2>2. avail_idx + 1 \in Int
    BY DEF PairedInv
  <2> QED BY <2>1, <2>2, BufferFacts, Zenon
<1>4. UNCHANGED <<last_used_idx, used, used_idx, dev_seen, taken>>
  BY Zenon DEF poll_repost, virtqueue_add_chain, device
<1>5. addr' = [addr EXCEPT ![free_head] = evt]
  BY Zenon DEF poll_repost
<1>6. avail' \in [Descs -> Buffers]
  BY <1>1, <1>3, Zenon DEF PairedInv
<1>7. addr' \in [Descs -> Buffers] /\ \A g \in Buffers : addr'[g] = g
  BY <1>1, <1>5, BufferFacts, Zenon DEF PairedInv
<1> QED BY <1>1, <1>2, <1>3, <1>4, <1>6, <1>7 DEF PairedInv, Descs, Buffers

\* The device works only on what was posted.
LEMMA DevicePaired ==
  ASSUME PairedInv, dev_start \/ \E h \in Descs, code \in CODES : dev_event(h, code)
  PROVE  PairedInv'
<1>1. CASE dev_start
  <2>1. /\ DOMAIN taken' \subseteq DOMAIN taken \cup {avail[dev_seen % NUM]}
        /\ dev_seen' \in Nat
    <3>1. /\ taken' = [t \in DOMAIN taken \cup {avail[dev_seen % NUM]} |->
                          IF t = avail[dev_seen % NUM] THEN 0 ELSE taken[t]]
          /\ dev_seen' = (dev_seen + 1) % IDX
      BY <1>1, Zenon DEF dev_start, dev_take
    <3>2. dev_seen + 1 \in Int
      BY DEF PairedInv
    <3> QED BY <3>1, <3>2, BufferFacts, Zenon
  <2>2. avail[dev_seen % NUM] \in Buffers
    BY BufferFacts DEF PairedInv
  <2>3. UNCHANGED <<chained, free_head, last_used_idx, avail, avail_idx, used, used_idx, addr, pc, evt>>
    BY <1>1, Zenon DEF dev_start, dev_take, driver, line
  <2> QED BY <2>1, <2>2, <2>3 DEF PairedInv, Descs, Buffers
<1>2. ASSUME NEW h \in Descs, NEW code \in CODES, dev_event(h, code) PROVE PairedInv'
  <2>1. /\ h \in DOMAIN taken /\ DOMAIN taken' \subseteq DOMAIN taken
        /\ used' = [used EXCEPT ![used_idx % NUM] = h] /\ used_idx' \in Nat
    BY <1>2, BufferFacts DEF PairedInv, dev_event, dev_complete
  <2>2. UNCHANGED <<chained, free_head, last_used_idx, avail, avail_idx, dev_seen, addr, pc, evt>>
    BY <1>2, Zenon DEF dev_event, dev_complete, driver, line
  <2>3. used' \in [Descs -> Buffers]
    BY <2>1, Zenon DEF PairedInv
  <2> QED BY <2>1, <2>2, <2>3 DEF PairedInv, Descs, Buffers
<1> QED BY <1>1, <1>2, Zenon

\* Every step keeps the pairing.
LEMMA PairedNext == PairedInv /\ [Next]_vars => PairedInv'
<1> SUFFICES ASSUME PairedInv, [Next]_vars PROVE PairedInv'
  BY Zenon
<1>1. CASE UNCHANGED vars
  BY <1>1, PairedKept, Zenon DEF vars, line
<1>2. CASE irq_ctrl
  BY <1>2, PairedKept, Zenon DEF irq_ctrl, Awake
<1>3. CASE irq_timer
  BY <1>3, PairedKept, Zenon DEF irq_timer
<1>4. ASSUME NEW sc \in SCANCODES, irq_key(sc) PROVE PairedInv'
  BY <1>4, PairedKept, Zenon DEF irq_key, Awake
<1>5. CASE read_empty \/ read_char \/ take_char \/ shell_command
  BY <1>5, PairedKept, Zenon DEF read_empty, read_char, take_char, shell_command, At
<1>6. CASE push_check \/ push_store \/ push_publish
  BY <1>6, PairedKept, Zenon DEF push_check, push_store, push_publish, At
<1>7. CASE poll_done \/ hlt
  BY <1>7, PairedKept, Zenon DEF poll_done, hlt, At
<1> QED BY <1>1, <1>2, <1>3, <1>4, <1>5, <1>6, <1>7, PollPaired, RepostPaired, DevicePaired,
           Zenon
        DEF Next, shell

\* The pairing of buffers and descriptors holds at every point of the input path.
THEOREM InputPaired == Spec => []PairedInv
BY PairedInit, PairedNext, PTL DEF Spec

\* virtio_input_poll always finds a completed event in the buffer of the descriptor's
\* number, and no two posted descriptors share a buffer.
THEOREM InputEventsMatch == Spec => []EventsMatch
<1>1. PairedInv => EventsMatch
  <2> SUFFICES ASSUME PairedInv PROVE EventsMatch
    BY Zenon
  <2>1. WaitingHeads \subseteq Buffers
    <3> SUFFICES ASSUME NEW i \in 0 .. Waiting - 1
                 PROVE  avail[(dev_seen + i) % NUM] \in Buffers
      BY Zenon DEF WaitingHeads
    <3>1. dev_seen + i \in Int
      BY DEF PairedInv
    <3> QED BY <3>1, BufferFacts, Zenon DEF PairedInv
  <2>2. DoneHeads \subseteq Buffers
    <3> SUFFICES ASSUME NEW i \in 0 .. Done - 1
                 PROVE  used[(last_used_idx + i) % NUM] \in Buffers
      BY Zenon DEF DoneHeads
    <3>1. last_used_idx + i \in Int
      BY DEF PairedInv
    <3> QED BY <3>1, BufferFacts, Zenon DEF PairedInv
  <2>3. Posted \subseteq Buffers
    BY <2>1, <2>2, Zenon DEF Posted, PairedInv
  <2> QED BY <2>3, BufferFacts, Zenon DEF EventsMatch, PairedInv
<1> QED BY <1>1, InputPaired, PTL

-----------------------------------------------------------------------------
\* The sizes of the rings.
LEMMA SizeFacts == /\ BUFFER_SIZE \in Nat \ {0} /\ BUFFER_SIZE > 1
                   /\ Divides(BUFFER_SIZE, BUFFER_SIZE)
                   /\ NUM \in Nat \ {0} /\ IDX \in Nat \ {0} /\ IDX > NUM
                   /\ Divides(NUM, IDX) /\ EVENTS \in 1 .. NUM
<1>1. BUFFER_SIZE \in Nat \ {0} /\ BUFFER_SIZE > 1 /\ EVENTS \in 1 .. NUM
  BY InputAssumption
<1>2. /\ NUM \in Nat \ {0} /\ IDX \in Nat \ {0} /\ IDX > NUM /\ Divides(NUM, IDX)
  BY VirtqueueAssumption, Zenon DEF Divides
<1>3. Divides(BUFFER_SIZE, BUFFER_SIZE)
  <2>1. BUFFER_SIZE = BUFFER_SIZE * 1 + 0 /\ 1 \in Int /\ 0 \in 0 .. BUFFER_SIZE - 1
    BY <1>1
  <2>2. BUFFER_SIZE % BUFFER_SIZE = 0
    BY <1>1, <2>1, RestIs
  <2> QED BY <2>2, Zenon DEF Divides
<1> QED BY <1>1, <1>2, <1>3, Zenon

\* The character ring as a ring.
LEMMA CharsAre ==
  /\ RingLen = RingGap(head, tail, BUFFER_SIZE)
  /\ \A i \in 0 .. RingLen - 1 : Chars[i] = RingItem(buffer, BUFFER_SIZE, tail, i)
BY Zenon DEF RingLen, Chars, RingGap, RingItem

LEMMA CharsBecome ==
  /\ RingLen' = RingGap(head', tail', BUFFER_SIZE)
  /\ \A i \in 0 .. RingLen' - 1 : Chars'[i] = RingItem(buffer', BUFFER_SIZE, tail', i)
BY Zenon DEF RingLen, Chars, RingGap, RingItem

\* It is never quite full.
LEMMA CharFacts ==
  ASSUME RingInv
  PROVE  /\ RingLen \in 0 .. BUFFER_SIZE - 1 /\ head \in 0 .. BUFFER_SIZE - 1
         /\ tail \in 0 .. BUFFER_SIZE - 1 /\ head % BUFFER_SIZE = head
         /\ tail % BUFFER_SIZE = tail
         /\ Full(head) <=> RingLen = BUFFER_SIZE - 1
         /\ head # tail <=> RingLen > 0
<1>1. head \in 0 .. BUFFER_SIZE - 1 /\ tail \in 0 .. BUFFER_SIZE - 1
  BY Zenon DEF RingInv
<1>2. head % BUFFER_SIZE = head /\ tail % BUFFER_SIZE = tail
  <2>1. head \in Int /\ tail \in Int /\ BUFFER_SIZE \in Nat \ {0}
    BY <1>1, SizeFacts
  <2> QED BY <1>1, <2>1, Remainder, Zenon
<1>3. RingLen = RingGap(head, tail, BUFFER_SIZE)
  BY CharsAre, Zenon
<1>4. /\ RingGap(head, tail, BUFFER_SIZE) \in 0 .. BUFFER_SIZE - 1
      /\ RingGap(head, tail, BUFFER_SIZE) + 1 < BUFFER_SIZE <=> RingNext(head, BUFFER_SIZE) # tail
      /\ head # tail <=> RingGap(head, tail, BUFFER_SIZE) > 0
  BY <1>1, SizeFacts, RingLength, Zenon
<1>5. Full(head) <=> RingNext(head, BUFFER_SIZE) = tail
  BY Zenon DEF Full, RingNext
<1>6. RingLen \in 0 .. BUFFER_SIZE - 1 /\ (Full(head) <=> ~(RingLen + 1 < BUFFER_SIZE))
  BY <1>3, <1>4, <1>5, Zenon
<1>7. Full(head) <=> RingLen = BUFFER_SIZE - 1
  BY <1>6, SizeFacts
<1> QED BY <1>1, <1>2, <1>3, <1>4, <1>6, <1>7, Zenon

\* A key stored at head is not among the characters ...
LEMMA CharsStore ==
  ASSUME RingInv, NEW k, buffer' = [buffer EXCEPT ![head] = k], UNCHANGED tail
  PROVE  /\ DOMAIN buffer' = 0 .. BUFFER_SIZE - 1
         /\ RingItem(buffer', BUFFER_SIZE, tail', RingLen) = k
         /\ \A i \in 0 .. RingLen - 1 : RingItem(buffer', BUFFER_SIZE, tail', i) = Chars[i]
<1>1. /\ RingLen \in 0 .. BUFFER_SIZE - 1 /\ head \in 0 .. BUFFER_SIZE - 1
      /\ tail \in 0 .. BUFFER_SIZE - 1 /\ head % BUFFER_SIZE = head
  BY CharFacts, Zenon
<1>2. buffer' = RingPut(buffer, BUFFER_SIZE, head, k) /\ DOMAIN buffer = 0 .. BUFFER_SIZE - 1
  BY <1>1, Zenon DEF RingPut, RingInv
<1>3. RingLen = RingGap(head, tail, BUFFER_SIZE) /\ RingGap(head, tail, BUFFER_SIZE) < BUFFER_SIZE
  BY <1>1, CharsAre, SizeFacts
<1>4. /\ DOMAIN RingPut(buffer, BUFFER_SIZE, head, k) = 0 .. BUFFER_SIZE - 1
      /\ RingItem(RingPut(buffer, BUFFER_SIZE, head, k), BUFFER_SIZE, tail,
                  RingGap(head, tail, BUFFER_SIZE)) = k
      /\ \A i \in 0 .. RingGap(head, tail, BUFFER_SIZE) - 1 :
           RingItem(RingPut(buffer, BUFFER_SIZE, head, k), BUFFER_SIZE, tail, i)
             = RingItem(buffer, BUFFER_SIZE, tail, i)
  BY <1>1, <1>2, <1>3, SizeFacts, RingPush
<1> QED BY <1>2, <1>3, <1>4, CharsAre, Zenon

\* ... until head has passed it.
LEMMA CharsPush ==
  ASSUME RingInv, NEW k, buffer' = [buffer EXCEPT ![head] = k], UNCHANGED tail,
         head' = (head + 1) % BUFFER_SIZE, ~Full(head)
  PROVE  /\ RingLen' = RingLen + 1 /\ head' \in 0 .. BUFFER_SIZE - 1
         /\ Chars'[RingLen] = k
         /\ \A i \in 0 .. RingLen - 1 : Chars'[i] = Chars[i]
<1>1. /\ RingLen \in 0 .. BUFFER_SIZE - 1 /\ head \in 0 .. BUFFER_SIZE - 1
      /\ tail \in 0 .. BUFFER_SIZE - 1 /\ RingLen # BUFFER_SIZE - 1
      /\ RingLen = RingGap(head, tail, BUFFER_SIZE)
      /\ head' = RingNext(head, BUFFER_SIZE)
  BY CharFacts, CharsAre, Zenon DEF RingNext
<1>2. RingGap(head, tail, BUFFER_SIZE) + 1 < BUFFER_SIZE
  BY <1>1, SizeFacts
<1>3. /\ RingNext(head, BUFFER_SIZE) \in 0 .. BUFFER_SIZE - 1
      /\ RingGap(RingNext(head, BUFFER_SIZE), tail, BUFFER_SIZE)
           = RingGap(head, tail, BUFFER_SIZE) + 1
  BY <1>1, <1>2, SizeFacts, RingLength, Zenon
<1>4. RingLen' = RingLen + 1
  BY <1>1, <1>3, CharsBecome, Zenon
<1>5. \A i \in 0 .. RingLen : i \in 0 .. RingLen' - 1
  BY <1>1, <1>4
<1>6. RingLen \in 0 .. RingLen /\ \A i \in 0 .. RingLen - 1 : i \in 0 .. RingLen
  BY <1>1
<1>7. \A i \in 0 .. RingLen : Chars'[i] = RingItem(buffer', BUFFER_SIZE, tail', i)
  BY <1>5, CharsBecome, Zenon
<1>8. Chars'[RingLen] = k /\ \A i \in 0 .. RingLen - 1 : Chars'[i] = Chars[i]
  BY <1>6, <1>7, CharsStore, Zenon
<1> QED BY <1>1, <1>3, <1>4, <1>8, Zenon

\* buffer_get moves the characters up.
LEMMA CharsPop ==
  ASSUME RingInv, UNCHANGED <<buffer, head>>, tail' = (tail + 1) % BUFFER_SIZE, RingLen > 0
  PROVE  /\ RingLen' = RingLen - 1 /\ tail' \in 0 .. BUFFER_SIZE - 1
         /\ \A i \in 0 .. RingLen' - 1 : i + 1 \in 0 .. RingLen - 1 /\ Chars'[i] = Chars[i + 1]
<1>1. /\ RingLen \in 0 .. BUFFER_SIZE - 1 /\ head \in 0 .. BUFFER_SIZE - 1
      /\ tail \in 0 .. BUFFER_SIZE - 1 /\ head # tail
      /\ RingLen = RingGap(head, tail, BUFFER_SIZE)
      /\ tail' = RingNext(tail, BUFFER_SIZE)
  BY CharFacts, CharsAre, Zenon DEF RingNext
<1>2. /\ RingNext(tail, BUFFER_SIZE) \in 0 .. BUFFER_SIZE - 1
      /\ RingGap(head, RingNext(tail, BUFFER_SIZE), BUFFER_SIZE)
           = RingGap(head, tail, BUFFER_SIZE) - 1
  BY <1>1, SizeFacts, RingLength, Zenon
<1>3. RingLen' = RingLen - 1
  BY <1>1, <1>2, CharsBecome, Zenon
<1>4. \A i \in Nat : RingItem(buffer, BUFFER_SIZE, RingNext(tail, BUFFER_SIZE), i)
                       = RingItem(buffer, BUFFER_SIZE, tail, i + 1)
  <2> TAKE i \in Nat
  <2> QED BY <1>1, SizeFacts, RingPop
<1>5. \A i \in 0 .. RingLen' - 1 : i \in Nat /\ i + 1 \in 0 .. RingLen - 1
  BY <1>1, <1>3
<1>6. \A i \in 0 .. RingLen' - 1 : Chars'[i] = RingItem(buffer, BUFFER_SIZE, tail', i)
  BY CharsBecome, Zenon
<1>7. \A i \in 0 .. RingLen' - 1 : Chars'[i] = Chars[i + 1]
  BY <1>1, <1>4, <1>5, <1>6, CharsAre, Zenon
<1> QED BY <1>1, <1>2, <1>3, <1>5, <1>7, Zenon

\* The end of a push sets head to what it was to be when the push began.
LEMMA CharsCut ==
  ASSUME RingInv, UNCHANGED <<buffer, tail>>, head' = nxt, pc = "publish"
  PROVE  /\ RingLen' = Safe + 1 /\ head' \in 0 .. BUFFER_SIZE - 1
         /\ Safe \in 0 .. RingLen /\ RingLen \in Nat /\ (hit => Safe < RingLen)
         /\ ~hit => Safe = RingLen /\ Chars'[RingLen] = key
         /\ \A i \in 0 .. RingLen - 1 : i <= Safe => Chars'[i] = Chars[i]
<1>1. /\ nxt \in 0 .. BUFFER_SIZE - 1 /\ tail \in 0 .. BUFFER_SIZE - 1 /\ Safe >= 0
      /\ IF hit THEN Safe < RingLen ELSE Safe = RingLen
      /\ ~hit => buffer[head] = key
      /\ hit \in BOOLEAN
  BY Zenon DEF RingInv, Pushing
<1>2. /\ RingLen \in 0 .. BUFFER_SIZE - 1 /\ head \in 0 .. BUFFER_SIZE - 1
      /\ head % BUFFER_SIZE = head
  BY CharFacts, Zenon
<1>3. Safe = RingGap(nxt, tail, BUFFER_SIZE) - 1
  BY Zenon DEF Safe, Pushing, RingGap
<1>4. RingGap(nxt, tail, BUFFER_SIZE) \in 0 .. BUFFER_SIZE - 1
  BY <1>1, SizeFacts, RingLength, Zenon
<1>5. RingLen' = Safe + 1 /\ Safe \in Int
  BY <1>3, <1>4, CharsBecome
<1>6. Safe \in 0 .. RingLen
  BY <1>1, <1>2, <1>5
<1>7. \A i \in 0 .. RingLen : i <= Safe => i \in 0 .. RingLen' - 1
  BY <1>2, <1>5
<1>8. \A i \in 0 .. RingLen :
         i <= Safe => Chars'[i] = RingItem(buffer, BUFFER_SIZE, tail, i)
  BY <1>7, CharsBecome, Zenon
<1>9. \A i \in 0 .. RingLen - 1 : i <= Safe => Chars'[i] = Chars[i]
  BY <1>2, <1>8, CharsAre
<1>10. ASSUME ~hit PROVE Chars'[RingLen] = key
  <2>1. Chars'[RingLen] = RingItem(buffer, BUFFER_SIZE, tail, RingLen)
    BY <1>1, <1>2, <1>8, <1>10
  <2>2. RingItem(buffer, BUFFER_SIZE, tail, RingGap(head, tail, BUFFER_SIZE))
          = buffer[head % BUFFER_SIZE]
    BY <1>1, <1>2, SizeFacts, RingEnds
  <2> QED BY <1>1, <1>2, <1>10, <2>1, <2>2, CharsAre, Zenon
<1> QED BY <1>1, <1>2, <1>5, <1>6, <1>9, <1>10
-----------------------------------------------------------------------------
\* The rings of the virtqueue as rings.
LEMMA QueueAre ==
  /\ Waiting = RingGap(avail_idx, dev_seen, IDX)
  /\ \A i \in 0 .. Waiting - 1 : AvailSeq[i] = RingItem(avail, NUM, dev_seen, i)
  /\ Done = RingGap(used_idx, last_used_idx, IDX)
  /\ \A i \in 0 .. Done - 1 : UsedSeq[i] = RingItem(used, NUM, last_used_idx, i)
BY Zenon DEF Waiting, Done, AvailSeq, UsedSeq, RingGap, RingItem

LEMMA QueueBecome ==
  /\ Waiting' = RingGap(avail_idx', dev_seen', IDX)
  /\ \A i \in 0 .. Waiting' - 1 : AvailSeq'[i] = RingItem(avail', NUM, dev_seen', i)
  /\ Done' = RingGap(used_idx', last_used_idx', IDX)
  /\ \A i \in 0 .. Done' - 1 : UsedSeq'[i] = RingItem(used', NUM, last_used_idx', i)
BY Zenon DEF Waiting, Done, AvailSeq, UsedSeq, RingGap, RingItem

LEMMA AvailKept ==
  ASSUME UNCHANGED <<avail, avail_idx, dev_seen>>
  PROVE  Waiting' = Waiting /\ AvailSeq' = AvailSeq
BY Zenon DEF Waiting, AvailSeq

LEMMA UsedKept ==
  ASSUME UNCHANGED <<used, used_idx, last_used_idx>>
  PROVE  Done' = Done /\ UsedSeq' = UsedSeq
BY Zenon DEF Done, UsedSeq

\* There are at most EVENTS entries in them.
LEMMA PlaceFacts ==
  ASSUME PairedInv, PlacesInv
  PROVE  /\ Waiting \in 0 .. NUM /\ Done \in 0 .. NUM
         /\ (DOMAIN taken # {} \/ Holding => Waiting < NUM /\ Done < NUM)
         /\ avail_idx \in 0 .. IDX - 1 /\ dev_seen \in 0 .. IDX - 1
         /\ used_idx \in 0 .. IDX - 1 /\ last_used_idx \in 0 .. IDX - 1
         /\ DOMAIN avail = 0 .. NUM - 1 /\ DOMAIN used = 0 .. NUM - 1
         /\ Waiting = RingGap(avail_idx, dev_seen, IDX)
         /\ Done = RingGap(used_idx, last_used_idx, IDX)
<1>1. /\ avail_idx \in 0 .. IDX - 1 /\ dev_seen \in 0 .. IDX - 1
      /\ used_idx \in 0 .. IDX - 1 /\ last_used_idx \in 0 .. IDX - 1
  BY Zenon DEF PlacesInv
<1>2. DOMAIN avail = 0 .. NUM - 1 /\ DOMAIN used = 0 .. NUM - 1
  BY Zenon DEF PairedInv, Descs
<1>3. /\ Waiting = RingGap(avail_idx, dev_seen, IDX)
      /\ Done = RingGap(used_idx, last_used_idx, IDX)
  BY QueueAre, Zenon
<1>4. Waiting \in Nat /\ Done \in Nat
  <2>1. /\ RingGap(avail_idx, dev_seen, IDX) \in 0 .. IDX - 1
        /\ RingGap(used_idx, last_used_idx, IDX) \in 0 .. IDX - 1
    BY <1>1, SizeFacts, RingLength, Zenon
  <2> QED BY <1>3, <2>1, SizeFacts
<1> DEFINE t == IF DOMAIN taken = {} THEN 0 ELSE 1
           o == IF Holding THEN 1 ELSE 0
<1>5. Waiting + t + Done + o = EVENTS
  BY Zenon DEF PlacesInv
<1>6. t \in 0 .. 1 /\ o \in 0 .. 1 /\ (DOMAIN taken # {} => t = 1) /\ (Holding => o = 1)
  OBVIOUS
<1> HIDE DEF t, o
<1>7. Waiting \in 0 .. NUM /\ Done \in 0 .. NUM
  BY <1>4, <1>5, <1>6, SizeFacts
<1>8. t = 1 \/ o = 1 => Waiting < NUM /\ Done < NUM
  BY <1>4, <1>5, <1>6, SizeFacts
<1> QED BY <1>1, <1>2, <1>3, <1>6, <1>7, <1>8, Zenon

\* A step that leaves the queue alone.
LEMMA PlacesKept ==
  ASSUME PlacesInv, UNCHANGED vqVars, Holding' <=> Holding, Holding => evt' = evt
  PROVE  PlacesInv'
<1>1. UNCHANGED <<avail, avail_idx, dev_seen, used, used_idx, last_used_idx, taken>>
  BY Zenon DEF vqVars, driver, device
<1>2. Waiting' = Waiting /\ AvailSeq' = AvailSeq /\ Done' = Done /\ UsedSeq' = UsedSeq
  BY <1>1, AvailKept, UsedKept, Zenon
<1> QED BY <1>1, <1>2 DEF PlacesInv

\* The device takes the first entry of the available ring.
LEMMA AvailPop ==
  ASSUME PairedInv, PlacesInv, dev_seen # avail_idx, dev_seen' = RingNext(dev_seen, IDX),
         UNCHANGED <<avail, avail_idx>>
  PROVE  /\ Waiting \in Nat \ {0} /\ Waiting' = Waiting - 1 /\ dev_seen' \in 0 .. IDX - 1
         /\ avail[dev_seen % NUM] = AvailSeq[0]
         /\ \A i \in 0 .. Waiting' - 1 : i + 1 \in 1 .. Waiting - 1
                                         /\ AvailSeq'[i] = AvailSeq[i + 1]
<1>1. /\ dev_seen \in 0 .. IDX - 1 /\ avail_idx \in 0 .. IDX - 1 /\ Waiting \in Nat
      /\ Waiting = RingGap(avail_idx, dev_seen, IDX)
  BY PlaceFacts
<1>2. /\ RingNext(dev_seen, IDX) \in 0 .. IDX - 1 /\ RingGap(avail_idx, dev_seen, IDX) > 0
      /\ RingGap(avail_idx, RingNext(dev_seen, IDX), IDX)
           = RingGap(avail_idx, dev_seen, IDX) - 1
  BY <1>1, SizeFacts, RingLength, Zenon
<1>3. Waiting' = Waiting - 1 /\ Waiting \in Nat \ {0} /\ dev_seen' \in 0 .. IDX - 1
  BY <1>1, <1>2, QueueBecome
<1>4. \A i \in 0 .. Waiting' - 1 :
         i \in Nat /\ i + 1 \in 1 .. Waiting - 1 /\ i + 1 \in 0 .. Waiting - 1
  BY <1>3
<1>5. ASSUME NEW i \in 0 .. Waiting' - 1 PROVE AvailSeq'[i] = AvailSeq[i + 1]
  <2>1. RingItem(avail, NUM, RingNext(dev_seen, IDX), i) = RingItem(avail, NUM, dev_seen, i + 1)
    BY <1>1, <1>4, SizeFacts, RingPop
  <2>2. AvailSeq'[i] = RingItem(avail, NUM, RingNext(dev_seen, IDX), i)
    BY QueueBecome, Zenon
  <2> QED BY <1>4, <2>1, <2>2, QueueAre, Zenon
<1>6. avail[dev_seen % NUM] = AvailSeq[0]
  <2>1. 0 \in 0 .. Waiting - 1
    BY <1>3
  <2>2. RingItem(avail, NUM, dev_seen, 0) = avail[dev_seen % NUM]
    BY <1>1, SizeFacts, RingEnds
  <2> QED BY <2>1, <2>2, QueueAre, Zenon
<1> QED BY <1>3, <1>4, <1>5, <1>6, Zenon

\* virtqueue_get_buf takes the first entry of the used ring.
LEMMA UsedPop ==
  ASSUME PairedInv, PlacesInv, last_used_idx # used_idx,
         last_used_idx' = RingNext(last_used_idx, IDX), UNCHANGED <<used, used_idx>>
  PROVE  /\ Done \in Nat \ {0} /\ Done' = Done - 1 /\ last_used_idx' \in 0 .. IDX - 1
         /\ used[last_used_idx % NUM] = UsedSeq[0]
         /\ \A i \in 0 .. Done' - 1 : i + 1 \in 1 .. Done - 1 /\ UsedSeq'[i] = UsedSeq[i + 1]
<1>1. /\ last_used_idx \in 0 .. IDX - 1 /\ used_idx \in 0 .. IDX - 1 /\ Done \in Nat
      /\ Done = RingGap(used_idx, last_used_idx, IDX)
  BY PlaceFacts
<1>2. /\ RingNext(last_used_idx, IDX) \in 0 .. IDX - 1
      /\ RingGap(used_idx, last_used_idx, IDX) > 0
      /\ RingGap(used_idx, RingNext(last_used_idx, IDX), IDX)
           = RingGap(used_idx, last_used_idx, IDX) - 1
  BY <1>1, SizeFacts, RingLength, Zenon
<1>3. Done' = Done - 1 /\ Done \in Nat \ {0} /\ last_used_idx' \in 0 .. IDX - 1
  BY <1>1, <1>2, QueueBecome
<1>4. \A i \in 0 .. Done' - 1 :
         i \in Nat /\ i + 1 \in 1 .. Done - 1 /\ i + 1 \in 0 .. Done - 1
  BY <1>3
<1>5. ASSUME NEW i \in 0 .. Done' - 1 PROVE UsedSeq'[i] = UsedSeq[i + 1]
  <2>1. RingItem(used, NUM, RingNext(last_used_idx, IDX), i)
          = RingItem(used, NUM, last_used_idx, i + 1)
    BY <1>1, <1>4, SizeFacts, RingPop
  <2>2. UsedSeq'[i] = RingItem(used, NUM, RingNext(last_used_idx, IDX), i)
    BY QueueBecome, Zenon
  <2> QED BY <1>4, <2>1, <2>2, QueueAre, Zenon
<1>6. used[last_used_idx % NUM] = UsedSeq[0]
  <2>1. 0 \in 0 .. Done - 1
    BY <1>3
  <2>2. RingItem(used, NUM, last_used_idx, 0) = used[last_used_idx % NUM]
    BY <1>1, SizeFacts, RingEnds
  <2> QED BY <2>1, <2>2, QueueAre, Zenon
<1> QED BY <1>3, <1>4, <1>5, <1>6, Zenon

\* virtqueue_add_buf appends to the available ring.
LEMMA AvailPush ==
  ASSUME PairedInv, PlacesInv, Waiting < NUM, NEW d,
         avail' = [avail EXCEPT ![avail_idx % NUM] = d],
         avail_idx' = RingNext(avail_idx, IDX), UNCHANGED dev_seen
  PROVE  /\ Waiting \in Nat /\ Waiting' = Waiting + 1 /\ avail_idx' \in 0 .. IDX - 1
         /\ AvailSeq'[Waiting] = d
         /\ \A i \in 0 .. Waiting - 1 : AvailSeq'[i] = AvailSeq[i]
<1>1. /\ dev_seen \in 0 .. IDX - 1 /\ avail_idx \in 0 .. IDX - 1 /\ Waiting \in Nat
      /\ Waiting = RingGap(avail_idx, dev_seen, IDX) /\ DOMAIN avail = 0 .. NUM - 1
      /\ RingGap(avail_idx, dev_seen, IDX) < NUM
  BY PlaceFacts
<1>2. avail' = RingPut(avail, NUM, avail_idx, d)
  BY Zenon DEF RingPut
<1>3. RingGap(avail_idx, dev_seen, IDX) + 1 < IDX
  BY <1>1, SizeFacts
<1>4. /\ RingNext(avail_idx, IDX) \in 0 .. IDX - 1
      /\ RingGap(RingNext(avail_idx, IDX), dev_seen, IDX)
           = RingGap(avail_idx, dev_seen, IDX) + 1
  BY <1>1, <1>3, SizeFacts, RingLength, Zenon
<1>5. Waiting' = Waiting + 1
  BY <1>1, <1>4, QueueBecome, Zenon
<1>6. /\ RingItem(RingPut(avail, NUM, avail_idx, d), NUM, dev_seen,
                  RingGap(avail_idx, dev_seen, IDX)) = d
      /\ \A i \in 0 .. RingGap(avail_idx, dev_seen, IDX) - 1 :
           RingItem(RingPut(avail, NUM, avail_idx, d), NUM, dev_seen, i)
             = RingItem(avail, NUM, dev_seen, i)
  BY <1>1, SizeFacts, RingPush
<1>7. /\ Waiting \in 0 .. Waiting' - 1
      /\ \A i \in 0 .. Waiting - 1 : i \in 0 .. Waiting' - 1
  BY <1>1, <1>5
<1>8. \A i \in 0 .. Waiting' - 1 :
         AvailSeq'[i] = RingItem(RingPut(avail, NUM, avail_idx, d), NUM, dev_seen, i)
  BY <1>2, QueueBecome, Zenon
<1> QED BY <1>1, <1>4, <1>5, <1>6, <1>7, <1>8, QueueAre, Zenon

\* The device appends to the used ring.
LEMMA UsedPush ==
  ASSUME PairedInv, PlacesInv, Done < NUM, NEW d,
         used' = [used EXCEPT ![used_idx % NUM] = d],
         used_idx' = RingNext(used_idx, IDX), UNCHANGED last_used_idx
  PROVE  /\ Done \in Nat /\ Done' = Done + 1 /\ used_idx' \in 0 .. IDX - 1
         /\ UsedSeq'[Done] = d
         /\ \A i \in 0 .. Done - 1 : UsedSeq'[i] = UsedSeq[i]
<1>1. /\ last_used_idx \in 0 .. IDX - 1 /\ used_idx \in 0 .. IDX - 1 /\ Done \in Nat
      /\ Done = RingGap(used_idx, last_used_idx, IDX) /\ DOMAIN used = 0 .. NUM - 1
      /\ RingGap(used_idx, last_used_idx, IDX) < NUM
  BY PlaceFacts
<1>2. used' = RingPut(used, NUM, used_idx, d)
  BY Zenon DEF RingPut
<1>3. RingGap(used_idx, last_used_idx, IDX) + 1 < IDX
  BY <1>1, SizeFacts
<1>4. /\ RingNext(used_idx, IDX) \in 0 .. IDX - 1
      /\ RingGap(RingNext(used_idx, IDX), last_used_idx, IDX)
           = RingGap(used_idx, last_used_idx, IDX) + 1
  BY <1>1, <1>3, SizeFacts, RingLength, Zenon
<1>5. Done' = Done + 1
  BY <1>1, <1>4, QueueBecome, Zenon
<1>6. /\ RingItem(RingPut(used, NUM, used_idx, d), NUM, last_used_idx,
                  RingGap(used_idx, last_used_idx, IDX)) = d
      /\ \A i \in 0 .. RingGap(used_idx, last_used_idx, IDX) - 1 :
           RingItem(RingPut(used, NUM, used_idx, d), NUM, last_used_idx, i)
             = RingItem(used, NUM, last_used_idx, i)
  BY <1>1, SizeFacts, RingPush
<1>7. /\ Done \in 0 .. Done' - 1
      /\ \A i \in 0 .. Done - 1 : i \in 0 .. Done' - 1
  BY <1>1, <1>5
<1>8. \A i \in 0 .. Done' - 1 :
         UsedSeq'[i] = RingItem(RingPut(used, NUM, used_idx, d), NUM, last_used_idx, i)
  BY <1>2, QueueBecome, Zenon
<1> QED BY <1>1, <1>4, <1>5, <1>6, <1>7, <1>8, QueueAre, Zenon

\* PlacesInv, conjunct by conjunct.
LEMMA PlacesAre ==
  ASSUME PlacesInv
  PROVE  /\ \A i, j \in 0 .. Waiting - 1 : AvailSeq[i] = AvailSeq[j] => i = j
         /\ \A i, j \in 0 .. Done - 1 : UsedSeq[i] = UsedSeq[j] => i = j
         /\ \A i \in 0 .. Waiting - 1 : \A j \in 0 .. Done - 1 : AvailSeq[i] # UsedSeq[j]
         /\ \A h \in DOMAIN taken : /\ \A i \in 0 .. Waiting - 1 : AvailSeq[i] # h
                                    /\ \A i \in 0 .. Done - 1 : UsedSeq[i] # h
                                    /\ \A g \in DOMAIN taken : g = h
         /\ Holding => /\ \A i \in 0 .. Waiting - 1 : AvailSeq[i] # evt
                       /\ \A i \in 0 .. Done - 1 : UsedSeq[i] # evt
                       /\ evt \notin DOMAIN taken
BY Zenon DEF PlacesInv

\* The number of buffers with the device, and in hand.
InDevice == IF DOMAIN taken = {} THEN 0 ELSE 1
InHand == IF Holding THEN 1 ELSE 0

LEMMA PlacesCount ==
  ASSUME PairedInv, PlacesInv
  PROVE  /\ Waiting + InDevice + Done + InHand = EVENTS /\ Waiting \in Nat /\ Done \in Nat
         /\ InDevice \in 0 .. 1 /\ InHand \in 0 .. 1
<1>1. Waiting + InDevice + Done + InHand = EVENTS
  BY Zenon DEF PlacesInv, InDevice, InHand
<1>2. InDevice \in 0 .. 1 /\ InHand \in 0 .. 1
  BY DEF InDevice, InHand
<1>3. Waiting \in Nat /\ Done \in Nat
  BY PlaceFacts
<1> QED BY <1>1, <1>2, <1>3, Zenon

LEMMA PlacesNext ==
  ASSUME last_used_idx' \in 0 .. IDX - 1, avail_idx' \in 0 .. IDX - 1,
         used_idx' \in 0 .. IDX - 1, dev_seen' \in 0 .. IDX - 1,
         \A i, j \in 0 .. Waiting' - 1 : AvailSeq'[i] = AvailSeq'[j] => i = j,
         \A i, j \in 0 .. Done' - 1 : UsedSeq'[i] = UsedSeq'[j] => i = j,
         \A i \in 0 .. Waiting' - 1 : \A j \in 0 .. Done' - 1 : AvailSeq'[i] # UsedSeq'[j],
         \A h \in DOMAIN taken' : /\ \A i \in 0 .. Waiting' - 1 : AvailSeq'[i] # h
                                  /\ \A i \in 0 .. Done' - 1 : UsedSeq'[i] # h
                                  /\ \A g \in DOMAIN taken' : g = h,
         Holding' => /\ \A i \in 0 .. Waiting' - 1 : AvailSeq'[i] # evt'
                     /\ \A i \in 0 .. Done' - 1 : UsedSeq'[i] # evt'
                     /\ evt' \notin DOMAIN taken',
         Waiting' + InDevice' + Done' + InHand' = EVENTS
  PROVE  PlacesInv'
<1>1. {last_used_idx, avail_idx, used_idx, dev_seen}' \subseteq 0 .. IDX - 1
  BY Zenon
<1>2. (Waiting + (IF DOMAIN taken = {} THEN 0 ELSE 1) + Done
         + (IF Holding THEN 1 ELSE 0) = EVENTS)'
  BY Zenon DEF InDevice, InHand
<1> QED BY <1>1, <1>2, Zenon DEF PlacesInv

\* The device takes the first buffer that waits.
LEMMA StartPlaces ==
  ASSUME PairedInv, PlacesInv, dev_start
  PROVE  PlacesInv' /\ Done' = Done /\ UsedSeq' = UsedSeq
<1>1. /\ UNCHANGED <<avail, avail_idx, used, used_idx, last_used_idx, pc, evt>>
      /\ dev_seen # avail_idx /\ dev_seen' = RingNext(dev_seen, IDX)
      /\ DOMAIN taken = {} /\ DOMAIN taken' = {avail[dev_seen % NUM]}
  BY DEF dev_start, dev_take, driver, line, RingNext
<1>2. Done' = Done /\ UsedSeq' = UsedSeq
  BY <1>1, UsedKept, Zenon
<1>3. /\ Waiting \in Nat \ {0} /\ Waiting' = Waiting - 1 /\ dev_seen' \in 0 .. IDX - 1
      /\ avail[dev_seen % NUM] = AvailSeq[0]
      /\ \A i \in 0 .. Waiting' - 1 : i + 1 \in 1 .. Waiting - 1
                                      /\ AvailSeq'[i] = AvailSeq[i + 1]
  BY <1>1, AvailPop, Zenon
<1>4. /\ 0 \in 0 .. Waiting - 1
      /\ \A i \in 0 .. Waiting' - 1 : i + 1 \in 0 .. Waiting - 1 /\ i + 1 # 0
      /\ \A i, j \in 0 .. Waiting' - 1 : i + 1 = j + 1 => i = j
  BY <1>3
<1>5. Holding' <=> Holding
  BY <1>1, Zenon DEF Holding
<1>6. DOMAIN taken' = {AvailSeq[0]}
  BY <1>1, <1>3, Zenon
<1>7. /\ avail_idx' \in 0 .. IDX - 1 /\ used_idx' \in 0 .. IDX - 1
      /\ last_used_idx' \in 0 .. IDX - 1
  BY <1>1, PlaceFacts, Zenon
<1>8. \A i, j \in 0 .. Waiting' - 1 : AvailSeq'[i] = AvailSeq'[j] => i = j
  <2> TAKE i \in 0 .. Waiting' - 1, j \in 0 .. Waiting' - 1
  <2>1. AvailSeq'[i] = AvailSeq[i + 1] /\ AvailSeq'[j] = AvailSeq[j + 1]
    BY <1>3, Zenon
  <2>2. AvailSeq[i + 1] = AvailSeq[j + 1] => i + 1 = j + 1
    BY <1>4, PlacesAre, Zenon
  <2> QED BY <1>4, <2>1, <2>2, Zenon
<1>13. ASSUME NEW i \in 0 .. Waiting' - 1
       PROVE  /\ \A j \in 0 .. Done - 1 : AvailSeq'[i] # UsedSeq[j]
              /\ Holding => AvailSeq'[i] # evt
              /\ AvailSeq'[i] # AvailSeq[0]
  <2>1. PICK k \in 0 .. Waiting - 1 : k # 0 /\ AvailSeq'[i] = AvailSeq[k]
    BY <1>3, <1>4, Zenon
  <2> QED BY <1>4, <2>1, PlacesAre, Zenon
<1>9. /\ \A i \in 0 .. Done - 1 : UsedSeq[i] # AvailSeq[0]
      /\ Holding => evt \notin {AvailSeq[0]}
  BY <1>4, PlacesAre, Zenon
<1>10. Waiting' + 1 + Done' + InHand' = EVENTS
  <2>1. InDevice = 0 /\ InHand' = InHand
    BY <1>1, <1>5, Zenon DEF InDevice, InHand
  <2> QED BY <1>2, <1>3, <2>1, PlacesCount
<1>11. InDevice' = 1
  BY <1>6, Zenon DEF InDevice
<1>12. \A h \in DOMAIN taken' : /\ \A i \in 0 .. Waiting' - 1 : AvailSeq'[i] # h
                                /\ \A i \in 0 .. Done' - 1 : UsedSeq'[i] # h
                                /\ \A g \in DOMAIN taken' : g = h
  BY <1>2, <1>6, <1>9, <1>13, Zenon
<1>15. Holding' => /\ \A i \in 0 .. Waiting' - 1 : AvailSeq'[i] # evt'
                   /\ \A i \in 0 .. Done' - 1 : UsedSeq'[i] # evt'
                   /\ evt' \notin DOMAIN taken'
  BY <1>1, <1>2, <1>5, <1>6, <1>9, <1>13, PlacesAre, Zenon
<1>16. \A i, j \in 0 .. Done' - 1 : UsedSeq'[i] = UsedSeq'[j] => i = j
  BY <1>2, PlacesAre, Zenon
<1>17. PlacesInv'
  BY <1>2, <1>3, <1>7, <1>8, <1>10, <1>11, <1>12, <1>13, <1>15, <1>16, PlacesNext, Zenon
<1> QED BY <1>2, <1>17, Zenon

\* The device is done with the buffer it has.
LEMMA EventPlaces ==
  ASSUME PairedInv, PlacesInv, NEW h \in Descs, NEW code \in CODES, dev_event(h, code)
  PROVE  /\ PlacesInv' /\ Done \in Nat /\ Done' = Done + 1 /\ UsedSeq'[Done] = h
         /\ \A i \in 0 .. Done - 1 : UsedSeq'[i] = UsedSeq[i] /\ UsedSeq[i] # h
<1>1. /\ UNCHANGED <<avail, avail_idx, dev_seen, last_used_idx, pc, evt>>
      /\ h \in DOMAIN taken /\ DOMAIN taken' = DOMAIN taken \ {h}
      /\ used' = [used EXCEPT ![used_idx % NUM] = h] /\ used_idx' = RingNext(used_idx, IDX)
  BY Zenon DEF dev_event, dev_complete, driver, line, RingNext
<1>2. Waiting' = Waiting /\ AvailSeq' = AvailSeq
  BY <1>1, AvailKept, Zenon
<1>3. Done < NUM
  BY <1>1, PlaceFacts, Zenon
<1>4. /\ Done \in Nat /\ Done' = Done + 1 /\ used_idx' \in 0 .. IDX - 1
      /\ UsedSeq'[Done] = h
      /\ \A i \in 0 .. Done - 1 : UsedSeq'[i] = UsedSeq[i]
  BY <1>1, <1>3, UsedPush, Zenon
<1>5. \A i \in 0 .. Done' - 1 : i \in 0 .. Done - 1 \/ i = Done
  BY <1>4
<1>6. Holding' <=> Holding
  BY <1>1, Zenon DEF Holding
<1>7. /\ DOMAIN taken' = {}
      /\ \A i \in 0 .. Waiting - 1 : AvailSeq[i] # h
      /\ \A i \in 0 .. Done - 1 : UsedSeq[i] # h
      /\ Holding => evt # h
  BY <1>1, PlacesAre, Zenon
<1>8. \A i \in 0 .. Done' - 1 :
         (i \in 0 .. Done - 1 /\ UsedSeq'[i] = UsedSeq[i]) \/ (i = Done /\ UsedSeq'[i] = h)
  BY <1>4, <1>5, Zenon
<1>9. \A i, j \in 0 .. Done' - 1 : UsedSeq'[i] = UsedSeq'[j] => i = j
  <2> TAKE i \in 0 .. Done' - 1, j \in 0 .. Done' - 1
  <2>1. CASE i = Done
    BY <1>4, <1>7, <1>8, <2>1, Zenon
  <2>2. CASE j = Done
    BY <1>4, <1>7, <1>8, <2>2, Zenon
  <2>3. CASE i # Done /\ j # Done
    BY <1>8, <2>3, PlacesAre, Zenon
  <2> QED BY <2>1, <2>2, <2>3, Zenon
<1>10. ASSUME NEW j \in 0 .. Done' - 1
       PROVE  /\ \A i \in 0 .. Waiting - 1 : AvailSeq[i] # UsedSeq'[j]
              /\ Holding => UsedSeq'[j] # evt
  BY <1>7, <1>8, PlacesAre, Zenon
<1>11. Waiting' + InDevice' + Done' + InHand' = EVENTS
  <2>1. InDevice = 1 /\ InHand' = InHand /\ InDevice' = 0
    BY <1>1, <1>6, <1>7, Zenon DEF InDevice, InHand
  <2> QED BY <1>2, <1>4, <2>1, PlacesCount
<1>12. /\ avail_idx' \in 0 .. IDX - 1 /\ dev_seen' \in 0 .. IDX - 1
       /\ last_used_idx' \in 0 .. IDX - 1
  BY <1>1, PlaceFacts, Zenon
<1>13. Holding' => /\ \A i \in 0 .. Waiting' - 1 : AvailSeq'[i] # evt'
                   /\ \A i \in 0 .. Done' - 1 : UsedSeq'[i] # evt'
                   /\ evt' \notin DOMAIN taken'
  BY <1>1, <1>2, <1>6, <1>7, <1>10, PlacesAre, Zenon
<1>14. \A g \in DOMAIN taken' : FALSE
  BY <1>7, Zenon
<1>15. \A i, j \in 0 .. Waiting' - 1 : AvailSeq'[i] = AvailSeq'[j] => i = j
  BY <1>2, PlacesAre, Zenon
<1>16. PlacesInv'
  BY <1>2, <1>4, <1>9, <1>10, <1>11, <1>12, <1>13, <1>14, <1>15, PlacesNext, Zenon
<1> QED BY <1>4, <1>7, <1>16, Zenon

\* The driver takes the first buffer that is done.
LEMMA PollPlaces ==
  ASSUME PairedInv, PlacesInv, poll_event
  PROVE  /\ PlacesInv' /\ Done \in Nat \ {0} /\ Done' = Done - 1 /\ evt' = UsedSeq[0]
         /\ \A i \in 0 .. Done' - 1 : i + 1 \in 1 .. Done - 1 /\ UsedSeq'[i] = UsedSeq[i + 1]
<1>1. /\ UNCHANGED <<avail, avail_idx, dev_seen, used, used_idx, taken>>
      /\ last_used_idx # used_idx /\ last_used_idx' = RingNext(last_used_idx, IDX)
      /\ pc = "poll" /\ pc' \in {"repost", "push"}
      /\ evt' = EventOf(used[last_used_idx % NUM])
  BY Zenon DEF poll_event, virtqueue_get_buf, device, RingNext, Completion
<1>2. Waiting' = Waiting /\ AvailSeq' = AvailSeq
  BY <1>1, AvailKept, Zenon
<1>3. /\ Done \in Nat \ {0} /\ Done' = Done - 1 /\ last_used_idx' \in 0 .. IDX - 1
      /\ used[last_used_idx % NUM] = UsedSeq[0]
      /\ \A i \in 0 .. Done' - 1 : i + 1 \in 1 .. Done - 1 /\ UsedSeq'[i] = UsedSeq[i + 1]
  BY <1>1, UsedPop, Zenon
<1>4. /\ 0 \in 0 .. Done - 1
      /\ \A i \in 0 .. Done' - 1 : i + 1 \in 0 .. Done - 1 /\ i + 1 # 0
      /\ \A i, j \in 0 .. Done' - 1 : i + 1 = j + 1 => i = j
  BY <1>3
<1>5. evt' = UsedSeq[0]
  <2>1. last_used_idx % NUM \in Descs /\ used \in [Descs -> Buffers]
    BY BufferFacts DEF PairedInv
  <2>2. used[last_used_idx % NUM] \in Buffers
    BY <2>1, Zenon
  <2> QED BY <1>1, <1>3, <2>2, BufferFacts, Zenon DEF EventOf
<1>6. ~Holding /\ Holding'
  BY <1>1, Zenon DEF Holding
<1>7. \A i, j \in 0 .. Done' - 1 : UsedSeq'[i] = UsedSeq'[j] => i = j
  <2> TAKE i \in 0 .. Done' - 1, j \in 0 .. Done' - 1
  <2>1. UsedSeq'[i] = UsedSeq[i + 1] /\ UsedSeq'[j] = UsedSeq[j + 1]
    BY <1>3, Zenon
  <2>2. UsedSeq[i + 1] = UsedSeq[j + 1] => i + 1 = j + 1
    BY <1>4, PlacesAre, Zenon
  <2> QED BY <1>4, <2>1, <2>2, Zenon
<1>8. ASSUME NEW j \in 0 .. Done' - 1
      PROVE  /\ \A i \in 0 .. Waiting - 1 : AvailSeq[i] # UsedSeq'[j]
             /\ \A g \in DOMAIN taken : UsedSeq'[j] # g
             /\ UsedSeq'[j] # UsedSeq[0]
  <2>1. PICK k \in 0 .. Done - 1 : k # 0 /\ UsedSeq'[j] = UsedSeq[k]
    BY <1>3, <1>4, Zenon
  <2> QED BY <1>4, <2>1, PlacesAre, Zenon
<1>9. /\ \A i \in 0 .. Waiting - 1 : AvailSeq[i] # UsedSeq[0]
      /\ UsedSeq[0] \notin DOMAIN taken
  BY <1>4, PlacesAre, Zenon
<1>10. Waiting' + InDevice' + Done' + InHand' = EVENTS
  <2>1. InDevice' = InDevice /\ InHand' = 1 /\ InHand = 0
    BY <1>1, <1>6, Zenon DEF InDevice, InHand
  <2> QED BY <1>2, <1>3, <2>1, PlacesCount
<1>11. /\ avail_idx' \in 0 .. IDX - 1 /\ dev_seen' \in 0 .. IDX - 1
       /\ used_idx' \in 0 .. IDX - 1
  BY <1>1, PlaceFacts, Zenon
<1>12. Holding' => /\ \A i \in 0 .. Waiting' - 1 : AvailSeq'[i] # evt'
                   /\ \A i \in 0 .. Done' - 1 : UsedSeq'[i] # evt'
                   /\ evt' \notin DOMAIN taken'
  BY <1>1, <1>2, <1>5, <1>8, <1>9, Zenon
<1>13. \A g \in DOMAIN taken' : /\ \A i \in 0 .. Waiting' - 1 : AvailSeq'[i] # g
                                /\ \A i \in 0 .. Done' - 1 : UsedSeq'[i] # g
                                /\ \A f \in DOMAIN taken' : f = g
  BY <1>1, <1>2, <1>8, PlacesAre, Zenon
<1>14. \A i, j \in 0 .. Waiting' - 1 : AvailSeq'[i] = AvailSeq'[j] => i = j
  BY <1>2, PlacesAre, Zenon
<1>15. PlacesInv'
  BY <1>2, <1>3, <1>7, <1>8, <1>10, <1>11, <1>12, <1>13, <1>14, PlacesNext, Zenon
<1> QED BY <1>3, <1>5, <1>15, Zenon

\* ... and posts it again.
LEMMA RepostPlaces ==
  ASSUME PairedInv, PlacesInv, poll_repost
  PROVE  PlacesInv' /\ Done' = Done /\ UsedSeq' = UsedSeq
<1>1. /\ UNCHANGED <<dev_seen, used, used_idx, last_used_idx, taken>>
      /\ avail' = [avail EXCEPT ![avail_idx % NUM] = free_head]
      /\ avail_idx' = RingNext(avail_idx, IDX)
      /\ pc = "repost" /\ pc' = "poll"
  BY Zenon DEF poll_repost, virtqueue_add_chain, device, RingNext, At, Slot
<1>2. Done' = Done /\ UsedSeq' = UsedSeq
  BY <1>1, UsedKept, Zenon
<1>3. Holding /\ ~Holding' /\ free_head = evt
  BY <1>1, Zenon DEF Holding, PairedInv
<1>4. Waiting < NUM
  BY <1>3, PlaceFacts, Zenon
<1>5. /\ Waiting \in Nat /\ Waiting' = Waiting + 1 /\ avail_idx' \in 0 .. IDX - 1
      /\ AvailSeq'[Waiting] = evt
      /\ \A i \in 0 .. Waiting - 1 : AvailSeq'[i] = AvailSeq[i]
  <2>1. avail' = [avail EXCEPT ![avail_idx % NUM] = evt]
    BY <1>1, <1>3, Zenon
  <2> QED BY <1>1, <1>4, <2>1, AvailPush, Zenon
<1>6. \A i \in 0 .. Waiting' - 1 : i \in 0 .. Waiting - 1 \/ i = Waiting
  BY <1>5
<1>7. /\ \A i \in 0 .. Waiting - 1 : AvailSeq[i] # evt
      /\ \A i \in 0 .. Done - 1 : UsedSeq[i] # evt
      /\ evt \notin DOMAIN taken
  BY <1>3, PlacesAre, Zenon
<1>8. \A i \in 0 .. Waiting' - 1 :
         \/ i \in 0 .. Waiting - 1 /\ AvailSeq'[i] = AvailSeq[i]
         \/ i = Waiting /\ AvailSeq'[i] = evt
  BY <1>5, <1>6, Zenon
<1>9. \A i, j \in 0 .. Waiting' - 1 : AvailSeq'[i] = AvailSeq'[j] => i = j
  <2> TAKE i \in 0 .. Waiting' - 1, j \in 0 .. Waiting' - 1
  <2>1. CASE i = Waiting
    BY <1>5, <1>7, <1>8, <2>1, Zenon
  <2>2. CASE j = Waiting
    BY <1>5, <1>7, <1>8, <2>2, Zenon
  <2>3. CASE i # Waiting /\ j # Waiting
    BY <1>8, <2>3, PlacesAre, Zenon
  <2> QED BY <2>1, <2>2, <2>3, Zenon
<1>10. ASSUME NEW i \in 0 .. Waiting' - 1
       PROVE  /\ \A j \in 0 .. Done - 1 : AvailSeq'[i] # UsedSeq[j]
              /\ \A g \in DOMAIN taken : AvailSeq'[i] # g
  BY <1>7, <1>8, PlacesAre, Zenon
<1>11. Waiting' + InDevice' + Done' + InHand' = EVENTS
  <2>1. InDevice' = InDevice /\ InHand' = 0 /\ InHand = 1
    BY <1>1, <1>3, Zenon DEF InDevice, InHand
  <2> QED BY <1>2, <1>5, <2>1, PlacesCount
<1>12. /\ used_idx' \in 0 .. IDX - 1 /\ dev_seen' \in 0 .. IDX - 1
       /\ last_used_idx' \in 0 .. IDX - 1
  BY <1>1, PlaceFacts, Zenon
<1>13. \A g \in DOMAIN taken' : /\ \A i \in 0 .. Waiting' - 1 : AvailSeq'[i] # g
                                /\ \A i \in 0 .. Done' - 1 : UsedSeq'[i] # g
                                /\ \A f \in DOMAIN taken' : f = g
  BY <1>1, <1>2, <1>10, PlacesAre, Zenon
<1>14. \A i, j \in 0 .. Done' - 1 : UsedSeq'[i] = UsedSeq'[j] => i = j
  BY <1>2, PlacesAre, Zenon
<1>15. PlacesInv'
  BY <1>2, <1>3, <1>5, <1>9, <1>10, <1>11, <1>12, <1>13, <1>14, PlacesNext, Zenon
<1> QED BY <1>2, <1>15, Zenon

\* virtio_input_init posts every event buffer.
LEMMA PlacesInit == Init => PlacesInv
<1> SUFFICES ASSUME Init PROVE PlacesInv
  BY Zenon
<1>1. /\ avail_idx = EVENTS /\ dev_seen = 0 /\ used_idx = 0 /\ last_used_idx = 0
      /\ avail = [i \in Descs |-> IF i < EVENTS THEN i ELSE 0]
      /\ DOMAIN taken = {} /\ pc = "read"
  BY DEF Init, virtio_input_init
<1>2. /\ EVENTS \in 1 .. NUM /\ NUM \in Nat \ {0} /\ IDX \in Nat \ {0} /\ NUM < IDX
  BY SizeFacts, Zenon
<1>3. Waiting = EVENTS /\ Done = 0
  <2>1. Waiting = EVENTS % IDX /\ Done = 0 % IDX
    BY <1>1, <1>2 DEF Waiting, Done
  <2>2. EVENTS \in 0 .. IDX - 1 /\ 0 \in 0 .. IDX - 1 /\ EVENTS \in Int /\ 0 \in Int
    BY <1>2
  <2> QED BY <1>2, <2>1, <2>2, Remainder, Zenon
<1>4. ASSUME NEW i \in 0 .. Waiting - 1 PROVE AvailSeq[i] = i
  <2>1. i \in 0 .. NUM - 1 /\ i \in Int /\ i < EVENTS /\ dev_seen + i = i
    BY <1>1, <1>2, <1>3
  <2>2. i % NUM = i
    BY <1>2, <2>1, Remainder, Zenon
  <2>3. AvailSeq[i] = avail[(dev_seen + i) % NUM]
    BY Zenon DEF AvailSeq
  <2> QED BY <1>1, <2>1, <2>2, <2>3, Zenon DEF Descs
<1>5. 0 .. Done - 1 = {} /\ ~Holding
  BY <1>1, <1>3 DEF Holding
<1>6. {last_used_idx, avail_idx, used_idx, dev_seen} \subseteq 0 .. IDX - 1
  BY <1>1, <1>2
<1>7. Waiting + (IF DOMAIN taken = {} THEN 0 ELSE 1) + Done + (IF Holding THEN 1 ELSE 0)
        = EVENTS
  BY <1>1, <1>2, <1>3, <1>5
<1> QED BY <1>1, <1>4, <1>5, <1>6, <1>7, Zenon DEF PlacesInv
-----------------------------------------------------------------------------
\* Steps that do not touch the characters, or the events.
LEMMA CharsKept ==
  ASSUME UNCHANGED <<buffer, head, tail>>
  PROVE  RingLen' = RingLen /\ Chars' = Chars
BY Zenon DEF RingLen, Chars

LEMMA EventsKept ==
  ASSUME UNCHANGED events, Done' = Done, UsedSeq' = UsedSeq
  PROVE  Events' = Events
BY Zenon DEF Events

\* What was pressed, and is placed, stays placed.
LEMMA AccountStep ==
  ASSUME AccountInv, \A x : Placed(x) => Placed(x)',
         \A s \in Sources : \A n \in 1 .. pressed'[s] :
            n \in 1 .. pressed[s] \/ Placed(<<s, n>>)'
  PROVE  AccountInv'
BY Zenon DEF AccountInv

\* Nothing changes but where the shell is, and it is in none of the places that matter.
LEMMA QuietKeeps ==
  ASSUME RingInv, CharsInv, EventsInv, AccountInv,
         UNCHANGED <<buffer, head, tail, events, pressed, last, settled, hit>>,
         Done' = Done, UsedSeq' = UsedSeq,
         \/ pc' = pc /\ key' = key /\ nxt' = nxt
         \/ /\ pc \notin {"take", "push", "store", "publish"}
            /\ pc' \notin {"take", "push", "store", "publish"}
  PROVE  RingInv' /\ CharsInv' /\ EventsInv' /\ AccountInv'
<1>1. RingLen' = RingLen /\ Chars' = Chars /\ Events' = Events
  BY CharsKept, EventsKept, Zenon
<1>2. /\ (Pushing' <=> Pushing) /\ (Carrying' <=> Carrying)
      /\ Pushing => nxt' = nxt
      /\ Carrying => key' = key
      /\ pc' = "take" => pc = "take" /\ key' = key
      /\ pc' = "publish" => pc = "publish" /\ key' = key
  BY Zenon DEF Pushing, Carrying
<1>3. Safe' = Safe
  BY <1>1, <1>2, Zenon DEF Safe
<1>4. RingInv'
  BY <1>1, <1>2, <1>3, Zenon DEF RingInv
<1>5. CharsInv'
  BY <1>1, Zenon DEF CharsInv
<1>6. \A k : Arriving(k) => Arriving(k)'
  BY <1>1, Zenon DEF Arriving
<1>7. EventsInv'
  BY <1>1, <1>2, <1>6, Zenon DEF EventsInv
<1>8. \A x : Placed(x) => Placed(x)'
  BY <1>1, <1>2, <1>3, Zenon DEF Placed
<1>9. AccountInv'
  BY <1>8, AccountStep, Zenon
<1> QED BY <1>4, <1>5, <1>7, <1>9, Zenon

\* buffer_get finds the oldest character.
LEMMA ReadKeeps ==
  ASSUME RingInv, CharsInv, EventsInv, AccountInv, read_char
  PROVE  RingInv' /\ CharsInv' /\ EventsInv' /\ AccountInv'
<1>1. /\ UNCHANGED <<buffer, head, tail, events, pressed, last, settled, hit>>
      /\ UNCHANGED <<used, used_idx, last_used_idx>>
      /\ pc = "read" /\ pc' = "take" /\ tail # head /\ key' = buffer[tail]
  BY Zenon DEF read_char, At, ring, history, vqVars, driver, device
<1>2. RingLen' = RingLen /\ Chars' = Chars /\ Events' = Events /\ Done' = Done
  BY <1>1, CharsKept, UsedKept, EventsKept, Zenon
<1>3. ~Pushing /\ ~Pushing' /\ ~Carrying /\ ~Carrying' /\ pc' # "publish"
  BY <1>1, Zenon DEF Pushing, Carrying
<1>4. RingLen > 0 /\ key' = Chars[0]
  <2>1. /\ RingLen \in 0 .. BUFFER_SIZE - 1 /\ head \in 0 .. BUFFER_SIZE - 1
        /\ tail \in 0 .. BUFFER_SIZE - 1 /\ tail % BUFFER_SIZE = tail /\ RingLen > 0
    BY <1>1, CharFacts, Zenon
  <2>2. 0 \in 0 .. RingLen - 1
    BY <2>1
  <2>3. RingItem(buffer, BUFFER_SIZE, tail, 0) = buffer[tail % BUFFER_SIZE]
    BY <2>1, SizeFacts, RingEnds
  <2> QED BY <1>1, <2>1, <2>2, <2>3, CharsAre, Zenon
<1>5. Safe' = Safe
  BY <1>2, <1>3, Zenon DEF Safe
<1>6. RingInv'
  BY <1>1, <1>2, <1>3, <1>4, Zenon DEF RingInv
<1>7. CharsInv'
  BY <1>1, <1>2, Zenon DEF CharsInv
<1>8. \A k : Arriving(k) => Arriving(k)'
  BY <1>1, <1>2, Zenon DEF Arriving
<1>9. EventsInv'
  BY <1>1, <1>2, <1>3, <1>8, Zenon DEF EventsInv
<1>10. \A x : Placed(x) => Placed(x)'
  BY <1>1, <1>2, <1>3, <1>5, Zenon DEF Placed
<1>11. AccountInv'
  BY <1>1, <1>10, AccountStep, Zenon
<1> QED BY <1>6, <1>7, <1>9, <1>11, Zenon
-----------------------------------------------------------------------------
\* How far the characters that stay in the ring reach.
LEMMA SafeFacts ==
  ASSUME RingInv
  PROVE  /\ RingLen \in Nat /\ Safe \in Nat /\ Safe <= RingLen
         /\ \A i \in 0 .. Safe - 1 : i \in 0 .. RingLen - 1
         /\ ~Pushing => Safe = RingLen
<1>1. RingLen \in Nat
  BY CharFacts
<1>2. ~Pushing => Safe = RingLen
  BY Zenon DEF Safe
<1>3. Safe \in Nat /\ Safe <= RingLen
  <2>1. CASE Pushing
    <3>1. Safe >= 0 /\ (IF hit THEN Safe < RingLen ELSE Safe = RingLen) /\ nxt \in Int /\ tail \in Int
      BY <2>1 DEF RingInv
    <3>2. Safe = ((nxt - tail) % BUFFER_SIZE) - 1
      BY <2>1, Zenon DEF Safe
    <3>3. (nxt - tail) % BUFFER_SIZE \in Int
      BY <3>1, SizeFacts
    <3> QED BY <1>1, <3>1, <3>2, <3>3
  <2>2. CASE ~Pushing
    BY <1>1, <1>2, <2>2
  <2> QED BY <2>1, <2>2, Zenon
<1>4. \A i \in 0 .. Safe - 1 : i \in 0 .. RingLen - 1
  BY <1>1, <1>3
<1> QED BY <1>1, <1>2, <1>3, <1>4, Zenon

\* A key is pressed.
LEMMA PressFacts ==
  ASSUME CharsInv, NEW s \in Sources, pressed' = [pressed EXCEPT ![s] = pressed[s] + 1]
  PROVE  /\ pressed' \in [Sources -> Nat] /\ pressed[s] \in Nat
         /\ pressed'[s] = pressed[s] + 1
         /\ \A t \in Sources : t # s => pressed'[t] = pressed[t]
         /\ \A t \in Sources : \A n \in Nat : n <= pressed[t] => n <= pressed'[t]
         /\ \A t \in Sources : \A n \in 1 .. pressed'[t] :
               n \in 1 .. pressed[t] \/ (t = s /\ n = pressed[s] + 1)
<1>1. pressed \in [Sources -> Nat] /\ pressed[s] \in Nat
  BY Zenon DEF CharsInv
<1>2. pressed' \in [Sources -> Nat] /\ pressed'[s] = pressed[s] + 1
  BY <1>1
<1>3. \A t \in Sources : t # s => pressed'[t] = pressed[t]
  BY <1>1, Zenon
<1>4. ASSUME NEW t \in Sources
      PROVE  /\ \A n \in Nat : n <= pressed[t] => n <= pressed'[t]
             /\ \A n \in 1 .. pressed'[t] : n \in 1 .. pressed[t] \/ (t = s /\ n = pressed[s] + 1)
  <2>1. pressed[t] \in Nat
    BY <1>1, Zenon
  <2>2. CASE t = s
    BY <1>1, <1>2, <2>2
  <2>3. CASE t # s
    <3>1. pressed'[t] = pressed[t]
      BY <1>3, <2>3, Zenon
    <3> QED BY <3>1, Zenon
  <2> QED BY <2>2, <2>3, Zenon
<1> QED BY <1>1, <1>2, <1>3, <1>4, Zenon

\* What keyboard_callback leaves alone.
LEMMA KeyFrame ==
  ASSUME NEW sc \in SCANCODES, irq_key(sc)
  PROVE  /\ UNCHANGED <<events, used, used_idx, last_used_idx, key, nxt>>
         /\ \/ pc' = pc
            \/ /\ pc \notin {"take", "push", "store", "publish"}
               /\ pc' \notin {"take", "push", "store", "publish"}
         /\ (Pushing' <=> Pushing) /\ (Carrying' <=> Carrying)
         /\ pc' = "take" => pc = "take"
         /\ pc' = "publish" => pc = "publish"
<1>1. UNCHANGED <<events, used, used_idx, last_used_idx, key, nxt>> /\ pc' = Awake
  BY Zenon DEF irq_key, vqVars, driver, device
<1> QED BY <1>1, Zenon DEF Awake, Pushing, Carrying

\* The ring is full: the key is lost.
LEMMA KeyLost ==
  ASSUME RingInv, CharsInv, EventsInv, AccountInv, NEW sc \in SCANCODES, irq_key(sc),
         translate_scancode(sc) # "none", Full(head)
  PROVE  RingInv' /\ CharsInv' /\ EventsInv' /\ AccountInv'
<1>1. /\ UNCHANGED <<buffer, head, tail, last>>
      /\ pressed' = [pressed EXCEPT !["ps2"] = pressed["ps2"] + 1]
      /\ settled' = settled \cup {<<"ps2", pressed["ps2"] + 1>>}
      /\ hit' = (hit \/ FALSE)
  BY Zenon DEF irq_key, ring, Press, Id
<1>2. hit' = hit
  BY <1>1, Zenon DEF RingInv
<1>3. RingLen' = RingLen /\ Chars' = Chars /\ Events' = Events /\ Done' = Done
  BY <1>1, KeyFrame, CharsKept, UsedKept, EventsKept, Zenon
<1>4. /\ (Pushing' <=> Pushing) /\ (Carrying' <=> Carrying) /\ key' = key /\ nxt' = nxt
      /\ (pc' = "take" => pc = "take") /\ (pc' = "publish" => pc = "publish")
  BY KeyFrame, Zenon
<1>5. Safe' = Safe
  BY <1>1, <1>3, <1>4, Zenon DEF Safe
<1>6. RingInv'
  BY <1>1, <1>2, <1>3, <1>4, <1>5, Zenon DEF RingInv
<1>7. "ps2" \in Sources /\ "virtio" \in Sources /\ "ps2" # "virtio"
  BY Zenon DEF Sources
<1>8. /\ pressed' \in [Sources -> Nat] /\ pressed'["virtio"] = pressed["virtio"]
      /\ \A t \in Sources : \A n \in Nat : n <= pressed[t] => n <= pressed'[t]
      /\ \A t \in Sources : \A n \in 1 .. pressed'[t] :
            n \in 1 .. pressed[t] \/ (t = "ps2" /\ n = pressed["ps2"] + 1)
  BY <1>1, <1>7, PressFacts, Zenon
<1>9. CharsInv'
  <2>1. \A t \in Sources : last[t] \in Nat
    BY Zenon DEF CharsInv
  <2> QED BY <1>1, <1>3, <1>8, <2>1, Zenon DEF CharsInv
<1>10. \A k : Arriving(k) => Arriving(k)'
  BY <1>1, <1>3, <1>8, Zenon DEF Arriving
<1>11. EventsInv'
  <2>1. events' = events
    BY KeyFrame, Zenon
  <2> QED BY <1>3, <1>4, <1>10, <2>1, Zenon DEF EventsInv
<1>12. \A x : Placed(x) => Placed(x)'
  BY <1>1, <1>3, <1>4, <1>5, Zenon DEF Placed
<1>13. \A n : n = pressed["ps2"] + 1 => Placed(<<"ps2", n>>)'
  BY <1>1, Zenon DEF Placed
<1>14. AccountInv'
  BY <1>8, <1>12, <1>13, AccountStep, Zenon
<1> QED BY <1>6, <1>9, <1>11, <1>14, Zenon

\* A key at the end of the ring that is newer than the others of its keyboard.
LEMMA CharsAppend ==
  ASSUME RingInv, CharsInv, RingLen' = RingLen + 1, UNCHANGED last,
         pressed' \in [Sources -> Nat],
         \A t \in Sources : \A n \in Nat : n <= pressed[t] => n <= pressed'[t],
         \A i \in 0 .. RingLen - 1 : Chars'[i] = Chars[i],
         Chars'[RingLen].src \in Sources, Chars'[RingLen].n \in Nat,
         last[Chars'[RingLen].src] < Chars'[RingLen].n,
         Chars'[RingLen].n <= pressed'[Chars'[RingLen].src],
         \A i \in 0 .. RingLen - 1 :
            Chars[i].src = Chars'[RingLen].src => Chars[i].n < Chars'[RingLen].n
  PROVE  /\ CharsInv'
         /\ \A i \in 0 .. RingLen' - 1 :
               (i \in 0 .. RingLen - 1 /\ Chars'[i] = Chars[i]) \/ i = RingLen
<1>1. RingLen \in Nat
  BY CharFacts
<1>2. \A i \in 0 .. RingLen' - 1 : i \in 0 .. RingLen - 1 \/ i = RingLen
  BY <1>1
<1>3. /\ \A i, j \in 0 .. RingLen' - 1 : i < j => i \in 0 .. RingLen - 1
      /\ \A i, j \in 0 .. RingLen' - 1 : i < j /\ j # RingLen => j \in 0 .. RingLen - 1
  BY <1>1
<1>4. ASSUME NEW i \in 0 .. RingLen' - 1
      PROVE  /\ Chars'[i].src \in Sources /\ Chars'[i].n \in Nat
             /\ last'[Chars'[i].src] < Chars'[i].n
             /\ Chars'[i].n <= pressed'[Chars'[i].src]
  <2>1. CASE i = RingLen
    BY <2>1, Zenon
  <2>2. CASE i \in 0 .. RingLen - 1
    <3>1. /\ Chars[i].src \in Sources /\ Chars[i].n \in Nat
          /\ last[Chars[i].src] < Chars[i].n
          /\ Chars[i].n <= pressed[Chars[i].src]
      BY <2>2, Zenon DEF CharsInv
    <3> QED BY <2>2, <3>1, Zenon
  <2> QED BY <1>2, <2>1, <2>2, Zenon
<1>5. ASSUME NEW i \in 0 .. RingLen' - 1, NEW j \in 0 .. RingLen' - 1, i < j,
             Chars'[i].src = Chars'[j].src
      PROVE  Chars'[i].n < Chars'[j].n
  <2>1. i \in 0 .. RingLen - 1 /\ Chars'[i] = Chars[i]
    BY <1>3, <1>5, Zenon
  <2>2. CASE j = RingLen
    BY <1>5, <2>1, <2>2, Zenon
  <2>3. CASE j # RingLen
    <3>1. j \in 0 .. RingLen - 1 /\ Chars'[j] = Chars[j]
      BY <1>3, <1>5, <2>3, Zenon
    <3> QED BY <1>5, <2>1, <3>1, Zenon DEF CharsInv
  <2> QED BY <2>2, <2>3, Zenon
<1>6. /\ last' \in [Sources -> Nat]
      /\ \A s \in Sources : last'[s] <= pressed'[s]
  BY Zenon DEF CharsInv
<1> QED BY <1>2, <1>4, <1>5, <1>6, Zenon DEF CharsInv

LEMMA ArrivingAppend ==
  ASSUME UNCHANGED last, \A n \in Nat : n <= pressed["virtio"] => n <= pressed'["virtio"],
         \A i \in 0 .. RingLen' - 1 :
            (i \in 0 .. RingLen - 1 /\ Chars'[i] = Chars[i]) \/ i = RingLen,
         NEW k, Arriving(k), Chars'[RingLen].src = "virtio" => Chars'[RingLen].n < k.n
  PROVE  Arriving(k)'
<1>1. /\ k.src = "virtio" /\ k.n \in Nat /\ last["virtio"] < k.n /\ k.n <= pressed["virtio"]
      /\ \A i \in 0 .. RingLen - 1 : Chars[i].src = "virtio" => Chars[i].n < k.n
  BY Zenon DEF Arriving
<1>2. ASSUME NEW i \in 0 .. RingLen' - 1, Chars'[i].src = "virtio" PROVE Chars'[i].n < k.n
  <2>1. CASE i = RingLen
    BY <1>2, <2>1, Zenon
  <2>2. CASE i \in 0 .. RingLen - 1 /\ Chars'[i] = Chars[i]
    BY <1>1, <1>2, <2>2, Zenon
  <2> QED BY <2>1, <2>2, Zenon
<1> QED BY <1>1, <1>2, Zenon DEF Arriving

\* The key goes into the ring, in the middle of a push of the shell's or not.
LEMMA KeyPushed ==
  ASSUME RingInv, CharsInv, EventsInv, AccountInv, NEW sc \in SCANCODES, irq_key(sc),
         translate_scancode(sc) # "none", ~Full(head)
  PROVE  RingInv' /\ CharsInv' /\ EventsInv' /\ AccountInv'
<1>1. PICK k : k = [src |-> "ps2", n |-> pressed["ps2"] + 1, ch |-> translate_scancode(sc)]
  BY Zenon
<1>2. k.src = "ps2" /\ k.n = pressed["ps2"] + 1
  BY <1>1, Zenon
<1>3. /\ UNCHANGED <<tail, last>> /\ head' = (head + 1) % BUFFER_SIZE
      /\ buffer' = [buffer EXCEPT ![head] = k]
      /\ pressed' = [pressed EXCEPT !["ps2"] = pressed["ps2"] + 1]
      /\ settled' = settled \cup (IF Pushing THEN {<<"ps2", pressed["ps2"] + 1>>} ELSE {})
      /\ hit' = (hit \/ Pushing)
  BY <1>1, <1>2, Zenon DEF irq_key, ring, Press, Id
<1>4. /\ RingLen' = RingLen + 1 /\ head' \in 0 .. BUFFER_SIZE - 1
      /\ Chars'[RingLen] = k
      /\ \A i \in 0 .. RingLen - 1 : Chars'[i] = Chars[i]
  BY <1>3, CharsPush, Zenon
<1>5. /\ (Pushing' <=> Pushing) /\ (Carrying' <=> Carrying) /\ key' = key /\ nxt' = nxt
      /\ (pc' = "take" => pc = "take") /\ (pc' = "publish" => pc = "publish")
      /\ Pushing => pc' = pc
  BY KeyFrame, Zenon DEF Pushing
<1>6. events' = events /\ Events' = Events /\ Done' = Done
  BY KeyFrame, UsedKept, EventsKept, Zenon
<1>7. "ps2" \in Sources /\ "virtio" \in Sources /\ "ps2" # "virtio"
  BY Zenon DEF Sources
<1>8. /\ pressed' \in [Sources -> Nat] /\ pressed'["virtio"] = pressed["virtio"]
      /\ pressed["ps2"] \in Nat /\ pressed'["ps2"] = pressed["ps2"] + 1
      /\ \A t \in Sources : \A n \in Nat : n <= pressed[t] => n <= pressed'[t]
      /\ \A t \in Sources : \A n \in 1 .. pressed'[t] :
            n \in 1 .. pressed[t] \/ (t = "ps2" /\ n = pressed["ps2"] + 1)
  BY <1>3, <1>7, PressFacts, Zenon
<1>9. /\ k.src \in Sources /\ k.n \in Nat /\ last[k.src] < k.n /\ k.n <= pressed'[k.src]
      /\ \A i \in 0 .. RingLen - 1 : Chars[i].src = k.src => Chars[i].n < k.n
  <2>1. last["ps2"] \in Nat /\ last["ps2"] <= pressed["ps2"]
    BY <1>7, Zenon DEF CharsInv
  <2>2. k.n \in Nat /\ last[k.src] < k.n /\ k.n <= pressed'[k.src]
    BY <1>2, <1>8, <2>1
  <2>3. ASSUME NEW i \in 0 .. RingLen - 1, Chars[i].src = k.src PROVE Chars[i].n < k.n
    <3>1. Chars[i].n \in Nat /\ Chars[i].n <= pressed["ps2"]
      BY <1>2, <2>3, Zenon DEF CharsInv
    <3> QED BY <1>2, <1>8, <3>1
  <2> QED BY <1>2, <1>7, <2>2, <2>3, Zenon
<1>10. CharsInv' /\ \A i \in 0 .. RingLen' - 1 :
                       (i \in 0 .. RingLen - 1 /\ Chars'[i] = Chars[i]) \/ i = RingLen
  BY <1>3, <1>4, <1>8, <1>9, CharsAppend, Zenon
<1>11. ASSUME NEW a, Arriving(a) PROVE Arriving(a)'
  BY <1>2, <1>3, <1>4, <1>7, <1>8, <1>10, <1>11, ArrivingAppend, Zenon
<1>12. EventsInv'
  BY <1>5, <1>6, <1>11, Zenon DEF EventsInv
<1>13. /\ Pushing => Safe' = Safe
       /\ ~Pushing => Safe' = RingLen + 1
  BY <1>3, <1>4, <1>5, Zenon DEF Safe
<1>14. /\ \A i \in 0 .. Safe - 1 : i \in 0 .. Safe' - 1 /\ Chars'[i] = Chars[i]
       /\ ~Pushing => RingLen \in 0 .. Safe' - 1
       /\ Safe < RingLen' /\ Safe >= 0
  <2>1. /\ RingLen \in Nat /\ Safe \in Nat /\ Safe <= RingLen
        /\ \A i \in 0 .. Safe - 1 : i \in 0 .. RingLen - 1
        /\ ~Pushing => Safe = RingLen
    BY SafeFacts, Zenon
  <2>2. /\ \A i \in 0 .. Safe - 1 : i \in 0 .. Safe' - 1
        /\ ~Pushing => RingLen \in 0 .. Safe' - 1
        /\ Safe < RingLen' /\ Safe >= 0
    BY <1>4, <1>13, <2>1
  <2> QED BY <1>4, <2>1, <2>2, Zenon
<1>15. RingInv'
  <2>1. DOMAIN buffer' = 0 .. BUFFER_SIZE - 1 /\ {head', tail'} \subseteq 0 .. BUFFER_SIZE - 1
    BY <1>3, <1>4, Zenon DEF RingInv
  <2>2. pc' = "take" => RingLen' > 0 /\ key' = Chars'[0]
    <3>1. CASE pc' = "take"
      <4>1. RingLen > 0 /\ key = Chars[0] /\ RingLen \in Nat
        BY <1>5, <3>1, CharFacts DEF RingInv
      <4>2. RingLen' > 0 /\ 0 \in 0 .. RingLen - 1
        BY <1>4, <4>1
      <4> QED BY <1>4, <1>5, <4>1, <4>2, Zenon
    <3> QED BY <3>1, Zenon
  <2>3. Pushing' => /\ nxt' \in 0 .. BUFFER_SIZE - 1 /\ Safe' >= 0 /\ hit'
                    /\ Safe' < RingLen'
    BY <1>3, <1>5, <1>13, <1>14, Zenon DEF RingInv
  <2>4. hit' \in BOOLEAN /\ (hit' => Pushing')
    <3>1. hit \in BOOLEAN /\ Pushing \in BOOLEAN /\ (hit => Pushing)
      BY DEF RingInv, Pushing
    <3> QED BY <1>3, <1>5, <3>1, Zenon
  <2> QED BY <2>1, <2>2, <2>3, <2>4, Zenon DEF RingInv
<1>16. \A x : Placed(x) => Placed(x)'
  BY <1>3, <1>5, <1>6, <1>14, Zenon DEF Placed
<1>17. \A n : n = pressed["ps2"] + 1 => Placed(<<"ps2", n>>)'
  <2>1. CASE Pushing
    BY <1>3, <2>1, Zenon DEF Placed
  <2>2. CASE ~Pushing
    <3>1. Id(Chars'[RingLen]) = <<"ps2", pressed["ps2"] + 1>>
      BY <1>2, <1>4, Zenon DEF Id
    <3> QED BY <1>14, <2>2, <3>1, Zenon DEF Placed, Id
  <2> QED BY <2>1, <2>2, Zenon
<1>18. AccountInv'
  BY <1>8, <1>16, <1>17, AccountStep, Zenon
<1> QED BY <1>10, <1>12, <1>15, <1>18, Zenon
-----------------------------------------------------------------------------
\* The line editor takes the character that buffer_get found.
LEMMA TakeKeeps ==
  ASSUME RingInv, CharsInv, EventsInv, AccountInv, take_char
  PROVE  RingInv' /\ CharsInv' /\ EventsInv' /\ AccountInv'
<1>1. /\ UNCHANGED <<buffer, head, events, pressed, hit, used, used_idx, last_used_idx>>
      /\ tail' = (tail + 1) % BUFFER_SIZE
      /\ pc = "take" /\ pc' \in {"command", "read"}
      /\ last' = [last EXCEPT ![key.src] = key.n]
      /\ settled' = settled \cup {Id(key)}
  BY Zenon DEF take_char, Popped, vqVars, driver, device
<1>2. /\ ~Pushing /\ ~Pushing' /\ ~Carrying /\ ~Carrying' /\ pc' # "take" /\ pc' # "publish"
      /\ RingLen > 0 /\ key = Chars[0]
  BY <1>1, Zenon DEF Pushing, Carrying, RingInv
<1>3. /\ RingLen' = RingLen - 1 /\ tail' \in 0 .. BUFFER_SIZE - 1
      /\ \A i \in 0 .. RingLen' - 1 : i + 1 \in 0 .. RingLen - 1 /\ Chars'[i] = Chars[i + 1]
  BY <1>1, <1>2, CharsPop, Zenon
<1>4. Events' = Events /\ Done' = Done
  BY <1>1, UsedKept, EventsKept, Zenon
<1>5. RingLen \in Nat /\ Safe = RingLen /\ Safe' = RingLen'
  BY <1>2, SafeFacts, Zenon DEF Safe
<1>6. /\ 0 \in 0 .. RingLen - 1
      /\ \A i \in 0 .. RingLen' - 1 : i + 1 \in 0 .. RingLen - 1 /\ 0 < i + 1
      /\ \A i, j \in 0 .. RingLen' - 1 : i < j => i + 1 < j + 1
      /\ \A i \in 0 .. RingLen - 1 : i = 0 \/ (i - 1 \in 0 .. RingLen' - 1 /\ (i - 1) + 1 = i)
  BY <1>2, <1>3, <1>5
<1>7. /\ key.src \in Sources /\ key.n \in Nat /\ last[key.src] < key.n
      /\ key.n <= pressed[key.src]
  BY <1>2, <1>6, Zenon DEF CharsInv
<1>8. /\ last' \in [Sources -> Nat] /\ last'[key.src] = key.n
      /\ \A t \in Sources : t # key.src => last'[t] = last[t]
  <2>1. last \in [Sources -> Nat]
    BY Zenon DEF CharsInv
  <2> QED BY <1>1, <1>7, <2>1, Zenon
<1>9. RingInv'
  <2>1. ~hit /\ ~hit' /\ hit' \in BOOLEAN
    BY <1>1, <1>2, Zenon DEF RingInv
  <2>2. DOMAIN buffer' = 0 .. BUFFER_SIZE - 1 /\ {head', tail'} \subseteq 0 .. BUFFER_SIZE - 1
    BY <1>1, <1>3, Zenon DEF RingInv
  <2> QED BY <1>2, <2>1, <2>2, Zenon DEF RingInv
<1>10. CharsInv'
  <2>1. \A t \in Sources : last'[t] <= pressed'[t]
    BY <1>1, <1>7, <1>8, Zenon DEF CharsInv
  <2>2. ASSUME NEW i \in 0 .. RingLen' - 1
        PROVE  /\ Chars'[i].src \in Sources /\ Chars'[i].n \in Nat
               /\ last'[Chars'[i].src] < Chars'[i].n
               /\ Chars'[i].n <= pressed'[Chars'[i].src]
    <3>1. PICK j \in 0 .. RingLen - 1 : 0 < j /\ Chars'[i] = Chars[j]
      BY <1>3, <1>6, Zenon
    <3>2. /\ Chars[j].src \in Sources /\ Chars[j].n \in Nat
          /\ last[Chars[j].src] < Chars[j].n /\ Chars[j].n <= pressed[Chars[j].src]
          /\ Chars[j].src = key.src => key.n < Chars[j].n
      BY <1>2, <1>6, <3>1, Zenon DEF CharsInv
    <3>3. last'[Chars[j].src] < Chars[j].n
      BY <1>8, <3>2, Zenon
    <3> QED BY <1>1, <3>1, <3>2, <3>3, Zenon
  <2>3. ASSUME NEW i \in 0 .. RingLen' - 1, NEW j \in 0 .. RingLen' - 1, i < j,
               Chars'[i].src = Chars'[j].src
        PROVE  Chars'[i].n < Chars'[j].n
    <3>1. /\ Chars'[i] = Chars[i + 1] /\ i + 1 \in 0 .. RingLen - 1
          /\ Chars'[j] = Chars[j + 1] /\ j + 1 \in 0 .. RingLen - 1 /\ i + 1 < j + 1
      BY <1>3, <1>6, <2>3, Zenon
    <3> QED BY <2>3, <3>1, Zenon DEF CharsInv
  <2> QED BY <1>1, <1>8, <2>1, <2>2, <2>3, Zenon DEF CharsInv
<1>11. ASSUME NEW k, Arriving(k) PROVE Arriving(k)'
  <2>1. /\ k.src = "virtio" /\ k.n \in Nat /\ last["virtio"] < k.n /\ k.n <= pressed["virtio"]
        /\ \A i \in 0 .. RingLen - 1 : Chars[i].src = "virtio" => Chars[i].n < k.n
    BY <1>11, Zenon DEF Arriving
  <2>2. "virtio" \in Sources
    BY Zenon DEF Sources
  <2>3. last'["virtio"] < k.n
    BY <1>2, <1>6, <1>8, <2>1, <2>2, Zenon
  <2>4. \A i \in 0 .. RingLen' - 1 : Chars'[i].src = "virtio" => Chars'[i].n < k.n
    <3> TAKE i \in 0 .. RingLen' - 1
    <3>1. i + 1 \in 0 .. RingLen - 1 /\ Chars'[i] = Chars[i + 1]
      BY <1>3, Zenon
    <3> QED BY <2>1, <3>1, Zenon
  <2> QED BY <1>1, <2>1, <2>3, <2>4, Zenon DEF Arriving
<1>12. EventsInv'
  BY <1>1, <1>2, <1>4, <1>11, Zenon DEF EventsInv
<1>13. ASSUME NEW x, Placed(x) PROVE Placed(x)'
  <2>1. ASSUME NEW i \in 0 .. Safe - 1, Id(Chars[i]) = x PROVE Placed(x)'
    <3>1. CASE i = 0
      BY <1>1, <1>2, <2>1, <3>1, Zenon DEF Placed
    <3>2. CASE i # 0
      <4>1. i - 1 \in 0 .. Safe' - 1 /\ Chars'[i - 1] = Chars[i]
        BY <1>3, <1>5, <1>6, <3>2, Zenon
      <4> QED BY <2>1, <4>1, Zenon DEF Placed, Id
    <3> QED BY <3>1, <3>2, Zenon
  <2>2. (x \in settled \/ \E i \in 0 .. Done - 1 : Id(Events[i]) = x) => Placed(x)'
    BY <1>1, <1>4, Zenon DEF Placed
  <2> QED BY <1>2, <1>13, <2>1, <2>2, Zenon DEF Placed
<1>14. AccountInv'
  BY <1>1, <1>13, AccountStep, Zenon
<1> QED BY <1>9, <1>10, <1>12, <1>14, Zenon
-----------------------------------------------------------------------------
\* keyboard_push_char in the shell looks whether the ring is full.
LEMMA CheckKeeps ==
  ASSUME RingInv, CharsInv, EventsInv, AccountInv, push_check
  PROVE  RingInv' /\ CharsInv' /\ EventsInv' /\ AccountInv'
<1>1. /\ UNCHANGED <<buffer, head, tail, events, pressed, last, hit, key>>
      /\ UNCHANGED <<used, used_idx, last_used_idx>>
      /\ pc = "push" /\ pc' = IF Full(head) THEN "repost" ELSE "store"
      /\ nxt' = RingNext(head, BUFFER_SIZE)
      /\ settled' = IF Full(head) THEN settled \cup {Id(key)} ELSE settled
  BY Zenon DEF push_check, ring, vqVars, driver, device, RingNext
<1>2. RingLen' = RingLen /\ Chars' = Chars /\ Events' = Events /\ Done' = Done
  BY <1>1, CharsKept, UsedKept, EventsKept, Zenon
<1>3. /\ Carrying /\ ~Pushing /\ (Carrying' <=> ~Full(head)) /\ (Pushing' <=> ~Full(head))
      /\ pc' # "take" /\ pc' # "publish"
  BY <1>1, Zenon DEF Carrying, Pushing
<1>4. ~hit /\ ~hit' /\ hit' \in BOOLEAN
  BY <1>1, <1>3, Zenon DEF RingInv
<1>5. Safe = RingLen /\ Safe' = RingLen /\ RingLen \in Nat
      /\ (~Full(head) => nxt' \in 0 .. BUFFER_SIZE - 1)
  <2>1. Safe = RingLen /\ RingLen \in Nat
    BY <1>3, SafeFacts, Zenon
  <2>2. CASE Full(head)
    BY <1>2, <1>3, <2>1, <2>2, Zenon DEF Safe
  <2>3. CASE ~Full(head)
    <3>1. /\ head \in 0 .. BUFFER_SIZE - 1 /\ tail \in 0 .. BUFFER_SIZE - 1
          /\ RingLen = RingGap(head, tail, BUFFER_SIZE) /\ RingLen # BUFFER_SIZE - 1
          /\ RingLen \in 0 .. BUFFER_SIZE - 1
      BY <2>3, CharFacts, CharsAre, Zenon
    <3>2. RingGap(head, tail, BUFFER_SIZE) + 1 < BUFFER_SIZE
      BY <3>1, SizeFacts
    <3>3. /\ RingNext(head, BUFFER_SIZE) \in 0 .. BUFFER_SIZE - 1
          /\ RingGap(RingNext(head, BUFFER_SIZE), tail, BUFFER_SIZE)
               = RingGap(head, tail, BUFFER_SIZE) + 1
      BY <3>1, <3>2, SizeFacts, RingLength, Zenon
    <3>4. Safe' = RingGap(RingNext(head, BUFFER_SIZE), tail, BUFFER_SIZE) - 1
      BY <1>1, <1>3, <2>3, Zenon DEF Safe, RingGap
    <3> QED BY <1>1, <2>1, <3>1, <3>3, <3>4
  <2> QED BY <2>1, <2>2, <2>3, Zenon
<1>6. RingInv'
  <2>1. Pushing' => nxt' \in 0 .. BUFFER_SIZE - 1 /\ Safe' >= 0 /\ Safe' = RingLen'
    BY <1>2, <1>3, <1>5
  <2> QED BY <1>1, <1>2, <1>3, <1>4, <2>1, Zenon DEF RingInv
<1>7. CharsInv'
  BY <1>1, <1>2, Zenon DEF CharsInv
<1>8. \A k : Arriving(k) => Arriving(k)'
  BY <1>1, <1>2, Zenon DEF Arriving
<1>9. EventsInv'
  BY <1>1, <1>2, <1>3, <1>8, Zenon DEF EventsInv
<1>10. \A x : Placed(x) => Placed(x)'
  <2>1. CASE Full(head)
    BY <1>1, <1>2, <1>5, <2>1, Zenon DEF Placed
  <2>2. CASE ~Full(head)
    BY <1>1, <1>2, <1>3, <1>5, <2>2, Zenon DEF Placed
  <2> QED BY <2>1, <2>2, Zenon
<1>11. AccountInv'
  BY <1>1, <1>10, AccountStep, Zenon
<1> QED BY <1>6, <1>7, <1>9, <1>11, Zenon

\* The character is stored at head, which an interrupt may have moved.
LEMMA StoreKeeps ==
  ASSUME RingInv, CharsInv, EventsInv, AccountInv, push_store
  PROVE  RingInv' /\ CharsInv' /\ EventsInv' /\ AccountInv'
<1>1. /\ UNCHANGED <<head, tail, events, pressed, last, settled, hit, key, nxt>>
      /\ UNCHANGED <<used, used_idx, last_used_idx>>
      /\ pc = "store" /\ pc' = "publish" /\ buffer' = [buffer EXCEPT ![head] = key]
  BY Zenon DEF push_store, At, history, vqVars, driver, device
<1>2. RingLen' = RingLen
  BY <1>1, Zenon DEF RingLen
<1>3. Chars' = Chars
  <2>1. PICK k : k = key
    BY Zenon
  <2>2. buffer' = [buffer EXCEPT ![head] = k]
    BY <1>1, <2>1, Zenon
  <2>3. \A i \in 0 .. RingLen - 1 : RingItem(buffer', BUFFER_SIZE, tail', i) = Chars[i]
    BY <1>1, <2>2, CharsStore, Zenon
  <2>4. \A i \in 0 .. RingLen - 1 : buffer'[(tail' + i) % BUFFER_SIZE] = Chars[i]
    BY <2>3, Zenon DEF RingItem
  <2>5. Chars' = [i \in 0 .. RingLen - 1 |-> buffer'[(tail' + i) % BUFFER_SIZE]]
    BY <1>2, Zenon DEF Chars
  <2>6. Chars = [i \in 0 .. RingLen - 1 |-> Chars[i]]
    BY Zenon DEF Chars
  <2> QED BY <2>4, <2>5, <2>6, Zenon
<1>4. Events' = Events /\ Done' = Done
  BY <1>1, UsedKept, EventsKept, Zenon
<1>5. /\ Carrying /\ Pushing /\ Carrying' /\ Pushing' /\ pc' # "take"
  BY <1>1, Zenon DEF Carrying, Pushing
<1>6. Safe' = Safe
  BY <1>1, <1>5, Zenon DEF Safe
<1>7. /\ DOMAIN buffer' = 0 .. BUFFER_SIZE - 1 /\ buffer'[head] = key
  BY <1>1, Zenon DEF RingInv
<1>8. RingInv'
  BY <1>1, <1>2, <1>3, <1>5, <1>6, <1>7, Zenon DEF RingInv
<1>9. CharsInv'
  BY <1>1, <1>2, <1>3, Zenon DEF CharsInv
<1>10. \A k : Arriving(k) => Arriving(k)'
  BY <1>1, <1>2, <1>3, Zenon DEF Arriving
<1>11. EventsInv'
  BY <1>1, <1>4, <1>5, <1>10, Zenon DEF EventsInv
<1>12. \A x : Placed(x) => Placed(x)'
  BY <1>1, <1>3, <1>4, <1>5, <1>6, Zenon DEF Placed
<1>13. AccountInv'
  BY <1>1, <1>12, AccountStep, Zenon
<1> QED BY <1>8, <1>9, <1>11, <1>13, Zenon

\* head is set: the character is in the ring, unless another came in between.
LEMMA PublishKeeps ==
  ASSUME RingInv, CharsInv, EventsInv, AccountInv, push_publish
  PROVE  RingInv' /\ CharsInv' /\ EventsInv' /\ AccountInv'
<1>1. /\ UNCHANGED <<buffer, tail, events, pressed, last, key>>
      /\ UNCHANGED <<used, used_idx, last_used_idx>>
      /\ pc = "publish" /\ pc' = "repost" /\ head' = nxt /\ hit' = FALSE
      /\ settled' = IF hit THEN settled \cup {Id(key)} ELSE settled
  BY Zenon DEF push_publish, At, vqVars, driver, device
<1>2. /\ RingLen' = Safe + 1 /\ head' \in 0 .. BUFFER_SIZE - 1
      /\ Safe \in 0 .. RingLen /\ RingLen \in Nat /\ (hit => Safe < RingLen)
      /\ ~hit => Safe = RingLen /\ Chars'[RingLen] = key
      /\ \A i \in 0 .. RingLen - 1 : i <= Safe => Chars'[i] = Chars[i]
  BY <1>1, CharsCut, Zenon
<1>3. Events' = Events /\ Done' = Done
  BY <1>1, UsedKept, EventsKept, Zenon
<1>4. Carrying /\ ~Carrying' /\ ~Pushing' /\ pc' # "take"
  BY <1>1, Zenon DEF Carrying, Pushing
<1>5. Safe' = RingLen'
  BY <1>4, Zenon DEF Safe
<1>6. RingInv'
  <2>1. DOMAIN buffer' = 0 .. BUFFER_SIZE - 1 /\ {head', tail'} \subseteq 0 .. BUFFER_SIZE - 1
    BY <1>1, <1>2, Zenon DEF RingInv
  <2> QED BY <1>1, <1>4, <2>1, Zenon DEF RingInv
<1>7. \A i \in 0 .. Safe - 1 : i \in 0 .. Safe' - 1 /\ Chars'[i] = Chars[i]
  <2>1. \A i \in 0 .. Safe - 1 : i \in 0 .. Safe' - 1 /\ i \in 0 .. RingLen - 1 /\ i <= Safe
    BY <1>2, <1>5
  <2> QED BY <1>2, <2>1, Zenon
<1>8. Arriving(key)
  BY <1>4, Zenon DEF EventsInv
<1>9. CASE hit
  <2>1. \A i \in 0 .. RingLen' - 1 : i \in 0 .. RingLen - 1 /\ Chars'[i] = Chars[i]
    <3>1. \A i \in 0 .. RingLen' - 1 : i \in 0 .. RingLen - 1 /\ i <= Safe
      BY <1>2, <1>9
    <3> QED BY <1>2, <3>1, Zenon
  <2>2. CharsInv'
    BY <1>1, <2>1, Zenon DEF CharsInv
  <2>3. \A k : Arriving(k) => Arriving(k)'
    BY <1>1, <2>1, Zenon DEF Arriving
  <2>4. EventsInv'
    BY <1>1, <1>3, <1>4, <2>3, Zenon DEF EventsInv
  <2>5. \A x : Placed(x) => Placed(x)'
    BY <1>1, <1>3, <1>7, <1>9, Zenon DEF Placed
  <2>6. AccountInv'
    BY <1>1, <2>5, AccountStep, Zenon
  <2> QED BY <1>6, <2>2, <2>4, <2>6, Zenon
<1>10. CASE ~hit
  <2>1. /\ RingLen' = RingLen + 1 /\ Chars'[RingLen] = key /\ Safe = RingLen
        /\ \A i \in 0 .. RingLen - 1 : Chars'[i] = Chars[i]
    BY <1>2, <1>7, <1>10, Zenon
  <2>2. /\ key.src = "virtio" /\ key.n \in Nat
        /\ last["virtio"] < key.n /\ key.n <= pressed["virtio"]
        /\ \A i \in 0 .. RingLen - 1 : Chars[i].src = "virtio" => Chars[i].n < key.n
        /\ "virtio" \in Sources
    BY <1>8, Zenon DEF Arriving, Sources
  <2>3. CharsInv' /\ \A i \in 0 .. RingLen' - 1 :
                        (i \in 0 .. RingLen - 1 /\ Chars'[i] = Chars[i]) \/ i = RingLen
    <3>1. /\ pressed' \in [Sources -> Nat]
          /\ \A t \in Sources : \A n \in Nat : n <= pressed[t] => n <= pressed'[t]
      BY <1>1, Zenon DEF CharsInv
    <3> QED BY <1>1, <2>1, <2>2, <3>1, CharsAppend, Zenon
  <2>4. ASSUME NEW k, Arriving(k), key.n < k.n PROVE Arriving(k)'
    BY <1>1, <2>1, <2>3, <2>4, ArrivingAppend, Zenon
  <2>5. EventsInv'
    BY <1>1, <1>3, <1>4, <2>4, Zenon DEF EventsInv
  <2>6. \A x : Placed(x) => Placed(x)'
    <3>1. RingLen \in 0 .. Safe' - 1
      BY <1>2, <1>5, <2>1
    <3> QED BY <1>1, <1>3, <1>7, <1>10, <2>1, <3>1, Zenon DEF Placed, Id
  <2>7. AccountInv'
    BY <1>1, <2>6, AccountStep, Zenon
  <2> QED BY <1>6, <2>3, <2>5, <2>7, Zenon
<1> QED BY <1>9, <1>10, Zenon
-----------------------------------------------------------------------------
\* The entries of the used ring are event buffers.
LEMMA UsedBuffers ==
  ASSUME PairedInv
  PROVE  \A i \in 0 .. Done - 1 : UsedSeq[i] \in Buffers /\ Events[i] = events[UsedSeq[i]]
<1> TAKE i \in 0 .. Done - 1
<1>1. UsedSeq[i] = used[(last_used_idx + i) % NUM] /\ Events[i] = events[UsedSeq[i]]
  BY Zenon DEF UsedSeq, Events
<1>2. last_used_idx + i \in Int
  BY DEF PairedInv
<1>3. (last_used_idx + i) % NUM \in Descs
  BY <1>2, BufferFacts, Zenon
<1> QED BY <1>1, <1>3, Zenon DEF PairedInv

\* The device reports a key, or another event.
LEMMA EventKeeps ==
  ASSUME PairedInv, PlacesInv, RingInv, CharsInv, EventsInv, AccountInv,
         NEW h \in Descs, NEW code \in CODES, dev_event(h, code)
  PROVE  RingInv' /\ CharsInv' /\ EventsInv' /\ AccountInv'
<1>1. PICK k : k = IF key_map[code] = "none" THEN Other
                   ELSE Press("virtio", key_map[code])
  BY Zenon
<1>2. /\ UNCHANGED <<buffer, head, tail, last, settled, hit, pc, key, nxt>>
      /\ events' = [events EXCEPT ![addr[h]] = k] /\ h \in DOMAIN taken
      /\ pressed' = IF k = Other THEN pressed ELSE [pressed EXCEPT !["virtio"] = k.n]
  BY <1>1, Zenon DEF dev_event, dev_complete, ring, line
<1>3. \/ k.ch = "none" /\ k.n = 0 /\ pressed' = pressed
      \/ /\ k.ch # "none" /\ k.src = "virtio" /\ k.n = pressed["virtio"] + 1
         /\ pressed' = [pressed EXCEPT !["virtio"] = pressed["virtio"] + 1]
  <2>1. Other.ch = "none" /\ Other.n = 0
    BY Zenon DEF Other, NoKey
  <2>2. CASE key_map[code] = "none"
    BY <1>1, <1>2, <2>1, <2>2, Zenon
  <2>3. CASE key_map[code] # "none"
    <3>1. k.ch = key_map[code] /\ k.src = "virtio" /\ k.n = pressed["virtio"] + 1
      BY <1>1, <2>3, Zenon DEF Press
    <3> QED BY <1>2, <2>1, <2>3, <3>1, Zenon
  <2> QED BY <2>2, <2>3, Zenon
<1>4. RingLen' = RingLen /\ Chars' = Chars
  BY <1>2, CharsKept, Zenon
<1>5. /\ (Pushing' <=> Pushing) /\ (Carrying' <=> Carrying)
  BY <1>2, Zenon DEF Pushing, Carrying
<1>6. Safe' = Safe
  BY <1>2, <1>4, <1>5, Zenon DEF Safe
<1>7. RingInv'
  BY <1>2, <1>4, <1>5, <1>6, Zenon DEF RingInv
<1>8. /\ Done \in Nat /\ Done' = Done + 1 /\ UsedSeq'[Done] = h
      /\ \A i \in 0 .. Done - 1 : UsedSeq'[i] = UsedSeq[i] /\ UsedSeq[i] # h
  BY EventPlaces, Zenon
<1>9. /\ \A i \in 0 .. Done' - 1 : i \in 0 .. Done - 1 \/ i = Done
      /\ Done \in 0 .. Done' - 1 /\ \A i \in 0 .. Done - 1 : i \in 0 .. Done' - 1
      /\ \A i, j \in 0 .. Done' - 1 : i < j => i \in 0 .. Done - 1
  BY <1>8
<1>10. h \in Buffers /\ addr[h] = h /\ DOMAIN events = Buffers
  BY <1>2, Zenon DEF PairedInv, EventsInv
<1>11. events' = [events EXCEPT ![h] = k] /\ DOMAIN events' = Buffers
  BY <1>2, <1>10, Zenon
<1>12. Events'[Done] = k /\ \A i \in 0 .. Done - 1 : Events'[i] = Events[i]
  <2>1. \A i \in 0 .. Done' - 1 : Events'[i] = events'[UsedSeq'[i]]
    BY Zenon DEF Events
  <2>2. events'[h] = k /\ \A b \in Buffers : b # h => events'[b] = events[b]
    BY <1>10, <1>11, Zenon
  <2>3. Events'[Done] = k
    BY <1>8, <1>9, <2>1, <2>2, Zenon
  <2>4. ASSUME NEW i \in 0 .. Done - 1 PROVE Events'[i] = Events[i]
    <3>1. UsedSeq[i] \in Buffers /\ Events[i] = events[UsedSeq[i]]
      BY UsedBuffers, Zenon
    <3>2. Events'[i] = events'[UsedSeq[i]] /\ UsedSeq[i] # h
      BY <1>8, <1>9, <2>1, Zenon
    <3> QED BY <2>2, <3>1, <3>2, Zenon
  <2> QED BY <2>3, <2>4, Zenon
<1>13. \A i \in 0 .. Done' - 1 :
          (i \in 0 .. Done - 1 /\ Events'[i] = Events[i]) \/ (i = Done /\ Events'[i] = k)
  BY <1>9, <1>12, Zenon
<1>14. /\ pressed' \in [Sources -> Nat] /\ pressed["virtio"] \in Nat
       /\ \A t \in Sources : \A n \in Nat : n <= pressed[t] => n <= pressed'[t]
       /\ \A t \in Sources : \A n \in 1 .. pressed'[t] :
             \/ n \in 1 .. pressed[t]
             \/ t = "virtio" /\ n = pressed["virtio"] + 1 /\ k.ch # "none"
       /\ k.ch # "none" => pressed'["virtio"] = pressed["virtio"] + 1
       /\ "virtio" \in Sources
  <2>1. "virtio" \in Sources
    BY Zenon DEF Sources
  <2>2. CASE k.ch = "none"
    <3>1. pressed' = pressed
      BY <1>3, <2>2, Zenon
    <3> QED BY <2>1, <2>2, <3>1, Zenon DEF CharsInv
  <2>3. CASE k.ch # "none"
    <3>1. pressed' = [pressed EXCEPT !["virtio"] = pressed["virtio"] + 1]
      BY <1>3, <2>3, Zenon
    <3> QED BY <2>1, <2>3, <3>1, PressFacts, Zenon
  <2> QED BY <2>2, <2>3, Zenon
<1>15. CharsInv'
  <2>1. \A t \in Sources : last[t] \in Nat
    BY Zenon DEF CharsInv
  <2> QED BY <1>2, <1>4, <1>14, <2>1, Zenon DEF CharsInv
<1>16. ASSUME NEW a, Arriving(a) PROVE Arriving(a)'
  BY <1>2, <1>4, <1>14, <1>16, Zenon DEF Arriving
<1>17. ASSUME NEW n \in Nat, n <= pressed["virtio"], k.ch # "none" PROVE n < k.n
  BY <1>3, <1>14, <1>17
<1>18. k.ch # "none" => Arriving(k)'
  <2> SUFFICES ASSUME k.ch # "none" PROVE Arriving(k)'
    BY Zenon
  <2>1. /\ k.src = "virtio" /\ k.n = pressed["virtio"] + 1
        /\ pressed'["virtio"] = pressed["virtio"] + 1 /\ pressed["virtio"] \in Nat
    BY <1>3, <1>14, Zenon
  <2>2. k.n \in Nat /\ k.n <= pressed'["virtio"]
    BY <2>1
  <2>3. last'["virtio"] < k.n
    <3>1. last["virtio"] \in Nat /\ last["virtio"] <= pressed["virtio"]
      BY <1>14, Zenon DEF CharsInv
    <3> QED BY <1>2, <1>17, <3>1, Zenon
  <2>4. ASSUME NEW i \in 0 .. RingLen - 1, Chars[i].src = "virtio" PROVE Chars[i].n < k.n
    <3>1. Chars[i].n \in Nat /\ Chars[i].n <= pressed["virtio"]
      BY <2>4, Zenon DEF CharsInv
    <3> QED BY <1>17, <3>1, Zenon
  <2> QED BY <1>4, <2>1, <2>2, <2>3, <2>4, Zenon DEF Arriving
<1>19. EventsInv'
  <2>1. ASSUME NEW i \in 0 .. Done' - 1
        PROVE  IF Events'[i].ch = "none" THEN Events'[i].n = 0 ELSE Arriving(Events[i])'
    <3>1. CASE i \in 0 .. Done - 1 /\ Events'[i] = Events[i]
      <4>1. IF Events[i].ch = "none" THEN Events[i].n = 0 ELSE Arriving(Events[i])
        BY <3>1, Zenon DEF EventsInv
      <4>2. PICK e : e = Events[i]
        BY Zenon
      <4>3. e.ch # "none" => Arriving(e)'
        BY <1>16, <4>1, <4>2, Zenon
      <4>4. Events'[i] = e
        BY <3>1, <4>2, Zenon
      <4>5. e.ch # "none" => Arriving(Events[i])'
        BY <4>3, <4>4, Zenon DEF Arriving
      <4> QED BY <4>1, <4>2, <4>4, <4>5, Zenon
    <3>2. CASE i = Done /\ Events'[i] = k
      <4>1. k.ch # "none" => Arriving(Events[i])'
        BY <1>18, <3>2, Zenon DEF Arriving
      <4> QED BY <1>3, <3>2, <4>1, Zenon
    <3> QED BY <1>13, <3>1, <3>2, Zenon
  <2>2. \A i \in 0 .. Done - 1 :
           Events[i].ch # "none" => Events[i].n \in Nat /\ Events[i].n <= pressed["virtio"]
    BY Zenon DEF EventsInv, Arriving
  <2>3. ASSUME NEW i \in 0 .. Done' - 1, NEW j \in 0 .. Done' - 1, i < j,
               Events'[i].ch # "none", Events'[j].ch # "none"
        PROVE  Events'[i].n < Events'[j].n
    <3>1. i \in 0 .. Done - 1 /\ Events'[i] = Events[i]
      BY <1>9, <1>12, <2>3, Zenon
    <3>2. CASE j \in 0 .. Done - 1 /\ Events'[j] = Events[j]
      BY <2>3, <3>1, <3>2, Zenon DEF EventsInv
    <3>3. CASE j = Done /\ Events'[j] = k
      BY <1>17, <2>2, <2>3, <3>1, <3>3, Zenon
    <3> QED BY <1>13, <3>2, <3>3, Zenon
  <2>4. Carrying' => /\ Arriving(key)'
                     /\ \A i \in 0 .. Done' - 1 : Events'[i].ch # "none" => key'.n < Events'[i].n
    <3> SUFFICES ASSUME Carrying
                 PROVE  /\ Arriving(key)'
                        /\ \A i \in 0 .. Done' - 1 : Events'[i].ch # "none" => key.n < Events'[i].n
      BY <1>2, <1>5, Zenon
    <3>1. /\ Arriving(key)
          /\ \A i \in 0 .. Done - 1 : Events[i].ch # "none" => key.n < Events[i].n
      BY Zenon DEF EventsInv
    <3>2. Arriving(key)'
      BY <1>2, <1>4, <1>14, <3>1, Zenon DEF Arriving
    <3>3. key.n \in Nat /\ key.n <= pressed["virtio"]
      BY <3>1, Zenon DEF Arriving
    <3>4. k.ch # "none" => key.n < k.n
      BY <1>17, <3>3, Zenon
    <3> QED BY <1>13, <3>1, <3>2, <3>4, Zenon
  <2> QED BY <1>11, <2>1, <2>3, <2>4, Zenon DEF EventsInv
<1>20. \A x : Placed(x) => Placed(x)'
  BY <1>2, <1>4, <1>5, <1>6, <1>9, <1>12, Zenon DEF Placed
<1>21. \A n : n = pressed["virtio"] + 1 /\ k.ch # "none" => Placed(<<"virtio", n>>)'
  BY <1>3, <1>9, <1>12, Zenon DEF Placed, Id
<1>22. AccountInv'
  BY <1>14, <1>20, <1>21, AccountStep, Zenon
<1> QED BY <1>7, <1>15, <1>19, <1>22, Zenon

\* virtio_input_poll takes the oldest event.
LEMMA PollKeeps ==
  ASSUME PairedInv, PlacesInv, RingInv, CharsInv, EventsInv, AccountInv, poll_event
  PROVE  RingInv' /\ CharsInv' /\ EventsInv' /\ AccountInv'
<1>1. /\ UNCHANGED <<buffer, head, tail, events, pressed, last, settled, hit>>
      /\ pc = "poll" /\ key' = events[evt']
      /\ pc' = IF key'.ch = "none" THEN "repost" ELSE "push"
  BY Zenon DEF poll_event, ring, history
<1>2. /\ Done \in Nat \ {0} /\ Done' = Done - 1 /\ evt' = UsedSeq[0]
      /\ \A i \in 0 .. Done' - 1 : i + 1 \in 1 .. Done - 1 /\ UsedSeq'[i] = UsedSeq[i + 1]
  BY PollPlaces, Zenon
<1>3. RingLen' = RingLen /\ Chars' = Chars
  BY <1>1, CharsKept, Zenon
<1>4. /\ ~Pushing /\ ~Pushing' /\ ~Carrying /\ (Carrying' <=> key'.ch # "none")
      /\ pc' # "take" /\ pc' # "publish"
  BY <1>1, Zenon DEF Pushing, Carrying
<1>5. Safe' = Safe
  BY <1>3, <1>4, Zenon DEF Safe
<1>6. RingInv'
  BY <1>1, <1>3, <1>4, Zenon DEF RingInv
<1>7. CharsInv'
  BY <1>1, <1>3, Zenon DEF CharsInv
<1>8. /\ 0 \in 0 .. Done - 1
      /\ \A i \in 0 .. Done' - 1 : i + 1 \in 0 .. Done - 1 /\ 0 < i + 1
      /\ \A i, j \in 0 .. Done' - 1 : i < j => i + 1 < j + 1
      /\ \A i \in 0 .. Done - 1 : i = 0 \/ (i - 1 \in 0 .. Done' - 1 /\ (i - 1) + 1 = i)
  BY <1>2
<1>9. key' = Events[0]
  BY <1>1, <1>2, <1>8, UsedBuffers, Zenon
<1>10. ASSUME NEW i \in 0 .. Done' - 1 PROVE Events'[i] = Events[i + 1]
  <2>1. Events'[i] = events'[UsedSeq'[i]]
    BY Zenon DEF Events
  <2>2. Events[i + 1] = events[UsedSeq[i + 1]]
    BY <1>8, UsedBuffers, Zenon
  <2> QED BY <1>1, <1>2, <2>1, <2>2, Zenon
<1>11. ASSUME NEW a, Arriving(a) PROVE Arriving(a)'
  BY <1>1, <1>3, <1>11, Zenon DEF Arriving
<1>12. EventsInv'
  <2>1. ASSUME NEW i \in 0 .. Done' - 1
        PROVE  IF Events'[i].ch = "none" THEN Events'[i].n = 0 ELSE Arriving(Events[i])'
    <3>1. PICK e : e = Events[i + 1]
      BY Zenon
    <3>2. IF e.ch = "none" THEN e.n = 0 ELSE Arriving(e)
      BY <1>8, <3>1, Zenon DEF EventsInv
    <3>3. Events'[i] = e
      BY <1>10, <3>1, Zenon
    <3>4. e.ch # "none" => Arriving(e)'
      BY <1>11, <3>2, Zenon
    <3>5. e.ch # "none" => Arriving(Events[i])'
      BY <3>3, <3>4, Zenon DEF Arriving
    <3> QED BY <3>2, <3>3, <3>5, Zenon
  <2>2. ASSUME NEW i \in 0 .. Done' - 1, NEW j \in 0 .. Done' - 1, i < j,
               Events'[i].ch # "none", Events'[j].ch # "none"
        PROVE  Events'[i].n < Events'[j].n
    <3>1. /\ Events'[i] = Events[i + 1] /\ i + 1 \in 0 .. Done - 1
          /\ Events'[j] = Events[j + 1] /\ j + 1 \in 0 .. Done - 1 /\ i + 1 < j + 1
      BY <1>8, <1>10, <2>2, Zenon
    <3> QED BY <2>2, <3>1, Zenon DEF EventsInv
  <2>3. ASSUME Carrying'
        PROVE  /\ Arriving(key)'
               /\ \A i \in 0 .. Done' - 1 : Events'[i].ch # "none" => key'.n < Events'[i].n
    <3>1. PICK e : e = Events[0]
      BY Zenon
    <3>2. key' = e /\ e.ch # "none"
      BY <1>4, <1>9, <2>3, <3>1, Zenon
    <3>3. Arriving(e)
      BY <1>8, <3>1, <3>2, Zenon DEF EventsInv
    <3>4. Arriving(e)'
      BY <1>11, <3>3, Zenon
    <3>5. Arriving(key)'
      BY <3>2, <3>4, Zenon DEF Arriving
    <3>6. ASSUME NEW i \in 0 .. Done' - 1, Events'[i].ch # "none" PROVE key'.n < Events'[i].n
      <4>1. Events'[i] = Events[i + 1] /\ i + 1 \in 0 .. Done - 1 /\ 0 < i + 1
        BY <1>8, <1>10, Zenon
      <4> QED BY <1>8, <3>1, <3>2, <3>6, <4>1, Zenon DEF EventsInv
    <3> QED BY <3>5, <3>6, Zenon
  <2>4. DOMAIN events' = Buffers
    BY <1>1, Zenon DEF EventsInv
  <2> QED BY <2>1, <2>2, <2>3, <2>4, Zenon DEF EventsInv
<1>13. ASSUME NEW s \in Sources, NEW n \in 1 .. pressed[s] PROVE Placed(<<s, n>>)'
  <2>1. Placed(<<s, n>>)
    BY Zenon DEF AccountInv
  <2>2. ASSUME NEW i \in 0 .. Done - 1, Id(Events[i]) = <<s, n>> PROVE Placed(<<s, n>>)'
    <3>1. CASE i = 0
      <4>1. Events[0].n # 0
        BY <2>2, <3>1 DEF Id
      <4>2. Carrying'
        BY <1>4, <1>8, <1>9, <4>1, Zenon DEF EventsInv
      <4> QED BY <1>9, <2>2, <3>1, <4>2, Zenon DEF Placed
    <3>2. CASE i # 0
      <4>1. i - 1 \in 0 .. Done' - 1 /\ Events'[i - 1] = Events[i]
        BY <1>8, <1>10, <3>2, Zenon
      <4> QED BY <2>2, <4>1, Zenon DEF Placed, Id
    <3> QED BY <3>1, <3>2, Zenon
  <2>3. (<<s, n>> \in settled \/ \E i \in 0 .. Safe - 1 : Id(Chars[i]) = <<s, n>>)
           => Placed(<<s, n>>)'
    BY <1>1, <1>3, <1>5, Zenon DEF Placed
  <2> QED BY <1>4, <2>1, <2>2, <2>3, Zenon DEF Placed
<1>14. AccountInv'
  BY <1>1, <1>13, Zenon DEF AccountInv
<1> QED BY <1>6, <1>7, <1>12, <1>14, Zenon
-----------------------------------------------------------------------------
\* The invariant holds when input starts ...
LEMMA InputStart == Init => InputInv
<1> SUFFICES ASSUME Init PROVE InputInv
  BY Zenon
<1>1. /\ buffer = [i \in 0 .. BUFFER_SIZE - 1 |-> NoKey] /\ head = 0 /\ tail = 0
      /\ pc = "read" /\ pressed = [s \in Sources |-> 0] /\ last = [s \in Sources |-> 0]
      /\ settled = {} /\ hit = FALSE
      /\ used_idx = 0 /\ last_used_idx = 0 /\ events = [j \in Buffers |-> Other]
  BY Zenon DEF Init, virtio_input_init, Buffers
<1>2. RingLen = 0 /\ Done = 0
  <2>1. RingLen = 0 % BUFFER_SIZE /\ Done = 0 % IDX
    BY <1>1, SizeFacts DEF RingLen, Done
  <2>2. /\ 0 \in 0 .. BUFFER_SIZE - 1 /\ 0 \in 0 .. IDX - 1 /\ 0 \in Int
        /\ BUFFER_SIZE \in Nat \ {0} /\ IDX \in Nat \ {0}
    BY SizeFacts
  <2> QED BY <2>1, <2>2, Remainder, Zenon
<1>3. 0 .. RingLen - 1 = {} /\ 0 .. Done - 1 = {}
  BY <1>2
<1>4. ~Pushing /\ ~Carrying
  BY <1>1, Zenon DEF Pushing, Carrying
<1>5. RingInv
  <2>1. DOMAIN buffer = 0 .. BUFFER_SIZE - 1 /\ {head, tail} \subseteq 0 .. BUFFER_SIZE - 1
    BY <1>1, SizeFacts
  <2>2. pc # "take" /\ hit \in BOOLEAN /\ ~hit
    BY <1>1, Zenon
  <2> QED BY <1>4, <2>1, <2>2, Zenon DEF RingInv
<1>6. CharsInv
  <2>1. /\ pressed \in [Sources -> Nat] /\ last \in [Sources -> Nat]
        /\ \A s \in Sources : last[s] <= pressed[s]
    BY <1>1
  <2> QED BY <1>3, <2>1, Zenon DEF CharsInv
<1>7. EventsInv
  BY <1>1, <1>3, <1>4, Zenon DEF EventsInv
<1>8. AccountInv
  <2>1. \A s \in Sources : 1 .. pressed[s] = {}
    BY <1>1
  <2> QED BY <2>1, Zenon DEF AccountInv
<1> QED BY <1>5, <1>6, <1>7, <1>8, PairedInit, PlacesInit, Zenon DEF InputInv

\* ... and every step keeps it.
LEMMA QuietStep ==
  ASSUME InputInv,
         \/ UNCHANGED vars \/ irq_ctrl \/ irq_timer \/ read_empty \/ shell_command
         \/ poll_done \/ hlt
  PROVE  PlacesInv' /\ RingInv' /\ CharsInv' /\ EventsInv' /\ AccountInv'
<1>1. /\ UNCHANGED <<buffer, head, tail, events, pressed, last, settled, hit>>
      /\ UNCHANGED vqVars
  BY Zenon DEF vars, ring, history, irq_ctrl, irq_timer, read_empty, shell_command,
     poll_done, hlt
<1>2. /\ UNCHANGED <<key, nxt, evt>>
      /\ \/ pc' = pc
         \/ /\ pc \in {"halted", "read", "command", "poll", "idle"}
            /\ pc' \in {"read", "poll", "off", "idle", "halted"}
  BY Zenon DEF vars, line, irq_ctrl, irq_timer, read_empty, shell_command, poll_done, hlt,
     At, Awake
<1>3. /\ \/ pc' = pc /\ key' = key /\ nxt' = nxt
         \/ /\ pc \notin {"take", "push", "store", "publish"}
            /\ pc' \notin {"take", "push", "store", "publish"}
      /\ (Holding' <=> Holding) /\ (Holding => evt' = evt)
  BY <1>2, Zenon DEF Holding
<1>4. UNCHANGED <<used, used_idx, last_used_idx>>
  BY <1>1, Zenon DEF vqVars, driver, device
<1>5. Done' = Done /\ UsedSeq' = UsedSeq
  BY <1>4, UsedKept, Zenon
<1>6. PlacesInv'
  BY <1>1, <1>3, PlacesKept, Zenon DEF InputInv
<1>7. RingInv' /\ CharsInv' /\ EventsInv' /\ AccountInv'
  BY <1>1, <1>3, <1>5, QuietKeeps, Zenon DEF InputInv
<1> QED BY <1>6, <1>7, Zenon

LEMMA KeyStep ==
  ASSUME InputInv, NEW sc \in SCANCODES, irq_key(sc)
  PROVE  PlacesInv' /\ RingInv' /\ CharsInv' /\ EventsInv' /\ AccountInv'
<1>1. UNCHANGED <<used, used_idx, last_used_idx, events, key, nxt>>
  BY KeyFrame, Zenon
<1>2. Done' = Done /\ UsedSeq' = UsedSeq
  BY <1>1, UsedKept, Zenon
<1>3. PlacesInv'
  <2>1. UNCHANGED vqVars /\ UNCHANGED evt /\ pc' = Awake
    BY Zenon DEF irq_key
  <2>2. Holding' <=> Holding
    BY <2>1, Zenon DEF Awake, Holding
  <2> QED BY <2>1, <2>2, PlacesKept, Zenon DEF InputInv
<1>4. CASE translate_scancode(sc) = "none"
  <2>1. UNCHANGED <<buffer, head, tail, events, pressed, last, settled, hit>>
    BY <1>1, <1>4, Zenon DEF irq_key, ring, history
  <2>2. \/ pc' = pc /\ key' = key /\ nxt' = nxt
        \/ /\ pc \notin {"take", "push", "store", "publish"}
           /\ pc' \notin {"take", "push", "store", "publish"}
    BY KeyFrame, Zenon
  <2>3. RingInv' /\ CharsInv' /\ EventsInv' /\ AccountInv'
    BY <1>2, <2>1, <2>2, QuietKeeps, Zenon DEF InputInv
  <2> QED BY <1>3, <2>3, Zenon
<1>5. CASE translate_scancode(sc) # "none"
  BY <1>3, <1>5, KeyLost, KeyPushed, Zenon DEF InputInv
<1> QED BY <1>4, <1>5, Zenon

LEMMA ShellStep ==
  ASSUME InputInv,
         read_char \/ take_char \/ push_check \/ push_store \/ push_publish
  PROVE  PlacesInv' /\ RingInv' /\ CharsInv' /\ EventsInv' /\ AccountInv'
<1>1. UNCHANGED <<vqVars, evt>>
  BY Zenon DEF read_char, take_char, push_check, push_store, push_publish
<1>2. Holding' <=> Holding
  BY Zenon DEF read_char, take_char, push_check, push_store, push_publish, At, Holding
<1>3. PlacesInv'
  BY <1>1, <1>2, PlacesKept, Zenon DEF InputInv
<1> QED BY <1>3, ReadKeeps, TakeKeeps, CheckKeeps, StoreKeeps, PublishKeeps, Zenon
        DEF InputInv

LEMMA QueueStep ==
  ASSUME InputInv, dev_start \/ poll_repost
  PROVE  PlacesInv' /\ RingInv' /\ CharsInv' /\ EventsInv' /\ AccountInv'
<1>1. PlacesInv' /\ Done' = Done /\ UsedSeq' = UsedSeq
  BY StartPlaces, RepostPlaces, Zenon DEF InputInv
<1>2. UNCHANGED <<buffer, head, tail, events, pressed, last, settled, hit>>
  BY Zenon DEF dev_start, poll_repost, ring, history
<1>3. \/ pc' = pc /\ key' = key /\ nxt' = nxt
      \/ /\ pc \notin {"take", "push", "store", "publish"}
         /\ pc' \notin {"take", "push", "store", "publish"}
  BY Zenon DEF dev_start, poll_repost, line, At
<1> QED BY <1>1, <1>2, <1>3, QuietKeeps, Zenon DEF InputInv

LEMMA InputStep == InputInv /\ [Next]_vars => InputInv'
<1> SUFFICES ASSUME InputInv, [Next]_vars PROVE InputInv'
  BY Zenon
<1>1. PairedInv'
  BY PairedNext, Zenon DEF InputInv
<1>2. ASSUME NEW h \in Descs, NEW code \in CODES, dev_event(h, code)
      PROVE  PlacesInv' /\ RingInv' /\ CharsInv' /\ EventsInv' /\ AccountInv'
  BY <1>2, EventPlaces, EventKeeps, Zenon DEF InputInv
<1>3. ASSUME poll_event
      PROVE  PlacesInv' /\ RingInv' /\ CharsInv' /\ EventsInv' /\ AccountInv'
  BY <1>3, PollPlaces, PollKeeps, Zenon DEF InputInv
<1>4. PlacesInv' /\ RingInv' /\ CharsInv' /\ EventsInv' /\ AccountInv'
  BY <1>2, <1>3, QuietStep, KeyStep, ShellStep, QueueStep, Zenon DEF Next, shell
<1> QED BY <1>1, <1>4, Zenon DEF InputInv

\* Every event buffer is in one place; the ring, the queue and the push the shell is in
\* account for every key, in order.
THEOREM InputInvariant == Spec => []InputInv
BY InputStart, InputStep, PTL DEF Spec

\* No key is lost but one that found the ring full or another producer in the middle of
\* its push: every other is on its way to the shell, or was read.
THEOREM InputKeysAccounted == Spec => []KeysAccounted
<1>1. InputInv => KeysAccounted
  <2> SUFFICES ASSUME InputInv, NEW s \in Sources, NEW n \in 1 .. PRESSES, n <= pressed[s]
               PROVE  \/ <<s, n>> \in settled
                      \/ \E k \in InRing : Id(k) = <<s, n>>
                      \/ \E h \in DoneHeads : Id(events[addr[h]]) = <<s, n>>
                      \/ Carrying /\ Id(key) = <<s, n>>
    BY Zenon DEF KeysAccounted, Carrying
  <2>1. Placed(<<s, n>>)
    <3>1. n \in 1 .. pressed[s]
      BY DEF InputInv, CharsInv
    <3> QED BY <3>1, Zenon DEF InputInv, AccountInv
  <2>2. ASSUME NEW i \in 0 .. Safe - 1 PROVE Chars[i] \in InRing
    <3>1. i \in 0 .. RingLen - 1 /\ RingLen \in 0 .. BUFFER_SIZE - 1 /\ tail \in 0 .. BUFFER_SIZE - 1
      BY <2>2, SafeFacts, CharFacts, Zenon DEF InputInv
    <3>2. i \in 0 .. BUFFER_SIZE - 1 /\ i \in Int /\ tail \in Int /\ i < RingLen
      BY <3>1, SizeFacts
    <3> DEFINE j == (tail + i) % BUFFER_SIZE
    <3>3. j \in 0 .. BUFFER_SIZE - 1
      BY <3>2, SizeFacts
    <3>4. (j - tail) % BUFFER_SIZE = i
      <4>1. j = IF tail + i < BUFFER_SIZE THEN tail + i ELSE tail + i - BUFFER_SIZE
        <5>1. CASE tail + i < BUFFER_SIZE
          <6>1. tail + i \in 0 .. BUFFER_SIZE - 1
            BY <3>1, <3>2, <5>1, SizeFacts
          <6> QED BY <5>1, <6>1, SizeFacts
        <5>2. CASE ~(tail + i < BUFFER_SIZE)
          <6>1. /\ tail + i - BUFFER_SIZE \in 0 .. BUFFER_SIZE - 1
                /\ tail + i = BUFFER_SIZE * 1 + (tail + i - BUFFER_SIZE)
                /\ 1 \in Int /\ tail + i \in Int
            BY <3>1, <3>2, <5>2, SizeFacts
          <6> QED BY <5>2, <6>1, SizeFacts, RestIs, Zenon
        <5> QED BY <5>1, <5>2, Zenon
      <4>2. (j - tail) % BUFFER_SIZE
              = IF j >= tail THEN j - tail ELSE j - tail + BUFFER_SIZE
        <5> HIDE DEF j
        <5> QED BY <3>1, <3>3, SizeFacts, WrapDistance, Zenon
      <4> HIDE DEF j
      <4> QED BY <3>1, <3>2, <4>1, <4>2, SizeFacts
    <3>5. Chars[i] = buffer[j]
      BY <3>1, Zenon DEF Chars
    <3> QED BY <3>2, <3>3, <3>4, <3>5, Zenon DEF InRing, RingLen
  <2>3. ASSUME NEW i \in 0 .. Done - 1
        PROVE  UsedSeq[i] \in DoneHeads /\ Events[i] = events[addr[UsedSeq[i]]]
    <3>1. UsedSeq[i] \in Buffers /\ Events[i] = events[UsedSeq[i]]
      BY UsedBuffers, Zenon DEF InputInv
    <3>2. addr[UsedSeq[i]] = UsedSeq[i]
      BY <3>1, Zenon DEF InputInv, PairedInv
    <3>3. UsedSeq[i] \in DoneHeads
      BY Zenon DEF UsedSeq, DoneHeads
    <3> QED BY <3>1, <3>2, <3>3, Zenon
  <2> QED BY <2>1, <2>2, <2>3, Zenon DEF Placed
<1> QED BY <1>1, InputInvariant, PTL

\* The keys of one keyboard are read in the order they were pressed, and none twice.
THEOREM InputInOrder == Spec => []InOrder
<1>1. InputInv => InOrder
  <2> SUFFICES ASSUME InputInv, pc = "take" PROVE key.n > last[key.src]
    BY Zenon DEF InOrder
  <2>1. RingLen > 0 /\ key = Chars[0] /\ RingLen \in Nat
    BY CharFacts DEF InputInv, RingInv
  <2>2. 0 \in 0 .. RingLen - 1
    BY <2>1
  <2>3. key.src \in Sources /\ key.n \in Nat /\ last[key.src] < key.n
    BY <2>1, <2>2, Zenon DEF InputInv, CharsInv
  <2>4. last[key.src] \in Nat
    BY <2>3, Zenon DEF InputInv, CharsInv
  <2> QED BY <2>3, <2>4, Zenon
<1> QED BY <1>1, InputInvariant, PTL
=============================================================================
