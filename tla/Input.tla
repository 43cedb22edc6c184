-------------------------------- MODULE Input -------------------------------
(***************************************************************************)
(* From a key press to the shell's line: the character ring of             *)
(* src/drivers/keyboard.c, its two producers (the PS/2 interrupt, and      *)
(* virtio_input_poll, which the shell calls while it waits), and           *)
(* getline_block of src/shell/shell.c, the only consumer.                  *)
(*                                                                         *)
(* The shell runs with interrupts on, so keyboard_callback may run between *)
(* any two of its accesses to the ring; the handler itself is not          *)
(* interrupted.  A key press carries its source and its number, so that    *)
(* the properties can follow it.  A character is what the line editor      *)
(* makes of it; shift, which only chooses among printable characters, the  *)
(* cumulative mouse position and what is echoed are left out.              *)
(***************************************************************************)
EXTENDS Virtqueue, Sequences

CONSTANTS BUFFER_SIZE,  \* of the character ring (64)
          EVENTS,       \* number of event buffers of a virtio input device (32)
          MAX,          \* size of the shell's line (128)
          SCANCODES,    \* the PS/2 keys that are pressed
          CODES,        \* the codes of the virtio events that come
          PRESSES       \* bound: presses of each keyboard, to keep instances finite

ASSUME InputAssumption ==
  /\ BUFFER_SIZE \in Nat \ {0, 1} /\ EVENTS \in 1 .. NUM /\ MAX \in Nat \ {0, 1}
  /\ PRESSES \in Nat

VARIABLES buffer, head, tail, ctrl_down,  \* keyboard.c
          addr,     \* desc[].addr: the event buffer a descriptor points to
          events,   \* the event buffers
          len,      \* getline_block: length of the line
          pc,       \* where the shell is
          evt,      \* virtio_input_poll: the index of the event it works on
          key,      \* the key it pushes or has just read
          nxt,      \* keyboard_push_char in the shell: its local next
          pressed,  \* history: presses so far, per source
          last,     \* history: number of the last press read, per source
          settled,  \* history: presses read, or excused from being read
          hit       \* history: the push the shell is in was interrupted by another

ring == <<buffer, head, tail>>
line == <<len, pc, evt, key, nxt>>
history == <<pressed, last, settled, hit>>
vars == <<vqVars, ring, ctrl_down, addr, events, line, history>>

Sources == {"ps2", "virtio"}
NoKey == [src |-> "ps2", n |-> 0, ch |-> "print"]
Other == [NoKey EXCEPT !.ch = "none"]   \* an event that produces no character
Id(k) == <<k.src, k.n>>
Press(src, ch) == [src |-> src, n |-> pressed[src] + 1, ch |-> ch]
Pushing == pc \in {"store", "publish"}

\* scancode_set1; "dead" stands for the keys whose entry is 0.
scancode_set1 == [c |-> "print", h |-> "print", enter |-> "newline", tab |-> "tab",
                  backspace |-> "erase", esc |-> "break", dead |-> "none"]

\* translate_scancode: with ctrl down a letter becomes a control character.
translate_scancode(sc) ==
  IF ctrl_down /\ sc \in {"c", "h"} THEN IF sc = "c" THEN "break" ELSE "erase"
                                    ELSE scancode_set1[sc]

\* key_map, for key presses; every other event produces no character.
key_map == [c |-> "print", enter |-> "newline", tab |-> "tab", backspace |-> "erase",
            esc |-> "break", other |-> "none"]

\* virtio_input_init: event buffer j is posted with descriptor j.
virtio_input_init ==
  /\ next = [i \in Descs |-> IF i < EVENTS THEN 0 ELSE (i + 1) % NUM]
  /\ chained = [i \in Descs |-> FALSE]
  /\ free_head = EVENTS % NUM /\ num_free = NUM - EVENTS /\ last_used_idx = 0
  /\ avail = [i \in Descs |-> IF i < EVENTS THEN i ELSE 0] /\ avail_idx = EVENTS
  /\ used = [i \in Descs |-> 0] /\ used_idx = 0 /\ dev_seen = 0 /\ taken = << >>
  /\ addr = [i \in Descs |-> IF i < EVENTS THEN i ELSE 0]
  /\ events = [j \in 0 .. EVENTS - 1 |-> Other]

Init == /\ virtio_input_init
        /\ buffer = [i \in 0 .. BUFFER_SIZE - 1 |-> NoKey] /\ head = 0 /\ tail = 0
        /\ ctrl_down = FALSE
        /\ len = 0 /\ pc = "read" /\ evt = 0 /\ key = NoKey /\ nxt = 0
        /\ pressed = [s \in Sources |-> 0] /\ last = [s \in Sources |-> 0]
        /\ settled = {} /\ hit = FALSE
-----------------------------------------------------------------------------
\* Mutation: a full ring is not noticed.
Mut_NeverFull(i) == FALSE

\* keyboard_push_char: storing at i would fill the ring.
Full(i) == (i + 1) % BUFFER_SIZE = tail

\* An interrupt ends the shell's hlt.
Awake == IF pc = "halted" THEN "read" ELSE pc

\* keyboard_callback for a ctrl key, and for a key: keyboard_push_char in the handler.
irq_ctrl ==
  /\ ctrl_down' = ~ctrl_down
  /\ pc' = Awake
  /\ UNCHANGED <<vqVars, ring, addr, events, len, evt, key, nxt, history>>

irq_key(sc) ==
  LET ch == translate_scancode(sc)
      k  == Press("ps2", ch)
  IN  /\ pressed["ps2"] < PRESSES
      /\ pc' = Awake
      /\ IF ch = "none" THEN UNCHANGED <<ring, history>>
         ELSE /\ pressed' = [pressed EXCEPT !["ps2"] = k.n]
              /\ IF Full(head) THEN UNCHANGED ring
                 ELSE /\ buffer' = [buffer EXCEPT ![head] = k]
                      /\ head' = (head + 1) % BUFFER_SIZE
                      /\ UNCHANGED tail
              /\ hit' = (hit \/ (Pushing /\ ~Full(head)))
              /\ settled' = settled \cup (IF Full(head) \/ Pushing THEN {Id(k)} ELSE {})
              /\ UNCHANGED last
      /\ UNCHANGED <<vqVars, ctrl_down, addr, events, len, evt, key, nxt>>

\* Mutation: the timer interrupt does not come.
Mut_NoTimer == /\ pc = "halted" /\ UNCHANGED vars

\* timer_callback: for the shell, the interrupt that ends hlt within 10 ms.
irq_timer == /\ pc = "halted"
             /\ pc' = "read"
             /\ UNCHANGED <<vqVars, ring, ctrl_down, addr, events, len, evt, key, nxt,
                            history>>

\* The virtio device takes a buffer, and reports an event in it, one at a time.
dev_start == /\ taken = << >>
             /\ dev_take(0)
             /\ UNCHANGED <<ring, ctrl_down, addr, events, line, history>>

dev_event(h, code) ==
  LET k == IF key_map[code] = "none" THEN Other ELSE Press("virtio", key_map[code])
  IN  /\ pressed["virtio"] < PRESSES
      /\ dev_complete(h)
      /\ events' = [events EXCEPT ![addr[h]] = k]
      /\ pressed' = IF k = Other THEN pressed ELSE [pressed EXCEPT !["virtio"] = k.n]
      /\ UNCHANGED <<ring, ctrl_down, addr, line, last, settled, hit>>
-----------------------------------------------------------------------------
At(p, q) == pc = p /\ pc' = q

\* getline_block: keyboard_read_char finds the ring empty and virtio_input_poll is
\* next, or buffer_get loads a character ...
read_empty == /\ At("read", "poll") /\ tail = head
              /\ UNCHANGED <<vqVars, ring, ctrl_down, addr, events, len, evt, key, nxt,
                             history>>

read_char == /\ At("read", "take") /\ tail # head
             /\ key' = buffer[tail]
             /\ UNCHANGED <<vqVars, ring, ctrl_down, addr, events, len, evt, nxt, history>>

\* complete_command, complete_path: the only match replaces what was typed of it, and is
\* at least as long; none, or several, leave the line.  complete_path does not check that
\* the path fits, the model takes it to; the messages it sends are in module P9.
complete_command == len .. MAX - 1

\* ... what the line editor makes of it: the length of the line ...
Edited == CASE key.ch = "print"   -> {len + 1}
            [] key.ch = "erase"   -> {IF len > 0 THEN len - 1 ELSE 0}
            [] key.ch = "tab"     -> IF len > 0 THEN complete_command ELSE {0}
            [] key.ch = "newline" -> {len}
            [] key.ch = "break"   -> {0}

\* The line takes no more characters, the last byte is for the NUL.
LineFull(n) == n >= MAX - 1

\* Mutation: the character stays in the ring.
Mut_Stays == tail

Popped == (tail + 1) % BUFFER_SIZE

\* ... and buffer_get advances tail; a finished or full line is run as a command, a
\* cancelled one starts again.
take_char ==
  /\ pc = "take"
  /\ tail' = Popped
  /\ len' \in Edited
  /\ pc' = IF key.ch = "newline" \/ LineFull(len') THEN "command" ELSE "read"
  /\ last' = [last EXCEPT ![key.src] = key.n]
  /\ settled' = settled \cup {Id(key)}
  /\ key' = NoKey
  /\ UNCHANGED <<vqVars, buffer, head, ctrl_down, addr, events, evt, nxt, pressed, hit>>

\* shell_run: the command returns, and the next line starts; after halt or shutdown there
\* is none.
shell_command == /\ At("command", "read") \/ At("command", "off")
                 /\ len' = 0
                 /\ UNCHANGED <<vqVars, ring, ctrl_down, addr, events, evt, key, nxt, history>>

\* Mutation: the descriptor's number is taken to start at one.
Mut_OneBased(idx) == (idx + EVENTS - 1) % EVENTS

\* The event buffer of a completed descriptor.
EventOf(idx) == idx % EVENTS

\* virtio_input_poll: an event is taken from the queue; one with a character goes to
\* keyboard_push_char, the others only change the mouse's state ...
poll_event ==
  /\ pc = "poll"
  /\ virtqueue_get_buf
  /\ evt' = EventOf(used[last_used_idx % NUM])
  /\ key' = events[evt']
  /\ pc' = IF key'.ch = "none" THEN "repost" ELSE "push"
  /\ UNCHANGED <<ring, ctrl_down, addr, events, len, nxt, history>>

\* ... keyboard_push_char in the shell: next is computed and the ring checked, the
\* character stored at head as it is by then, and head set ...
push_check ==
  /\ pc = "push"
  /\ nxt' = (head + 1) % BUFFER_SIZE
  /\ pc' = IF Full(head) THEN "repost" ELSE "store"
  /\ settled' = IF Full(head) THEN settled \cup {Id(key)} ELSE settled
  /\ UNCHANGED <<vqVars, ring, ctrl_down, addr, events, len, evt, key, pressed, last, hit>>

push_store == /\ At("store", "publish")
              /\ buffer' = [buffer EXCEPT ![head] = key]
              /\ UNCHANGED <<vqVars, head, tail, ctrl_down, addr, events, len, evt, key, nxt,
                             history>>

push_publish == /\ At("publish", "repost")
                /\ head' = nxt
                /\ hit' = FALSE
                /\ settled' = IF hit THEN settled \cup {Id(key)} ELSE settled
                /\ UNCHANGED <<vqVars, buffer, tail, ctrl_down, addr, events, len, evt, key,
                               nxt, pressed, last>>

\* ... and the event's buffer is posted again with the free descriptor.
poll_repost ==
  /\ At("repost", "poll")
  /\ virtqueue_add_chain(1)
  /\ addr' = [addr EXCEPT ![free_head] = evt]
  /\ evt' = 0 /\ key' = NoKey /\ nxt' = 0   \* the locals of the loop are dead
  /\ UNCHANGED <<ring, ctrl_down, events, len, history>>

\* No more events: the shell executes hlt, and goes on after the next interrupt.
poll_done == /\ At("poll", "idle") /\ ~Completion
             /\ UNCHANGED <<vqVars, ring, ctrl_down, addr, events, len, evt, key, nxt,
                            history>>
hlt == /\ At("idle", "halted")
       /\ UNCHANGED <<vqVars, ring, ctrl_down, addr, events, len, evt, key, nxt, history>>

shell == \/ read_empty \/ read_char \/ take_char \/ shell_command
         \/ poll_event \/ push_check \/ push_store \/ push_publish \/ poll_repost
         \/ poll_done \/ hlt

Next == \/ shell
        \/ irq_ctrl \/ irq_timer \/ \E sc \in SCANCODES : irq_key(sc)
        \/ dev_start \/ \E h \in Descs, code \in CODES : dev_event(h, code)

Spec == Init /\ [][Next]_vars

\* The shell keeps running and the timer keeps ticking; no key need be pressed.
FairSpec == Spec /\ WF_vars(shell) /\ WF_vars(irq_timer)
-----------------------------------------------------------------------------
InRing == {buffer[i] : i \in {j \in 0 .. BUFFER_SIZE - 1 :
                         (j - tail) % BUFFER_SIZE < (head - tail) % BUFFER_SIZE}}

\* Every key that was pressed is somewhere on its way to the shell, or was read,
\* unless it came when the ring was full or in the middle of the other producer's
\* push: nothing else loses a key (keyboard_push_char, virtio_input_poll).
KeysAccounted ==
  \A s \in Sources, n \in 1 .. PRESSES :
     n <= pressed[s] =>
        \/ <<s, n>> \in settled
        \/ \E k \in InRing : Id(k) = <<s, n>>
        \/ \E h \in DoneHeads : Id(events[addr[h]]) = <<s, n>>
        \/ pc \in {"push", "store", "publish"} /\ Id(key) = <<s, n>>

\* The keys of one keyboard are read in the order they were pressed and never twice,
\* even when pushes of the two overlap: a key the shell is about to read is newer
\* than the last one it read (keyboard_push_char, buffer_get).
InOrder == pc = "take" => key.n > last[key.src]

\* The driver finds a completed event in events[idx % 32]: every posted descriptor
\* points to the buffer of its own number, and no two to the same one
\* (virtio_input_poll).
EventsMatch == \A h \in Posted : /\ addr[h] = h % EVENTS
                                 /\ \A g \in Posted \ {h} : addr[g] # addr[h]

\* The shell does not sleep on a waiting character: a key that comes after it looked
\* at the ring and before its hlt is taken all the same, as the timer ends the hlt
\* (getline_block).
WakesUp == (pc \in {"idle", "halted"} /\ head # tail) ~> (pc = "take")
-----------------------------------------------------------------------------
\* The inductive invariant behind EventsMatch.  Only the descriptors that were posted at
\* the start are ever used again: the one a poll takes becomes the head of the free list,
\* and so the one the event's buffer is posted with.
Buffers == 0 .. EVENTS - 1

PairedInv ==
  /\ chained = [d \in Descs |-> FALSE]
  /\ avail \in [Descs -> Buffers] /\ used \in [Descs -> Buffers]
  /\ DOMAIN taken \subseteq Buffers
  /\ {last_used_idx, avail_idx, used_idx, dev_seen} \subseteq Nat
  /\ addr \in [Descs -> Buffers] /\ \A h \in Buffers : addr[h] = h
  /\ pc \in {"push", "store", "publish", "repost"} =>
        evt \in Buffers /\ free_head = evt

\* The inductive invariant behind KeysAccounted and InOrder.  virtio_input_poll has an
\* event buffer in hand, and in it a key for the ring.
Holding == pc \in {"push", "store", "publish", "repost"}
Carrying == pc \in {"push", "store", "publish"}

\* The rings from their oldest entry on.
RingLen == (head - tail) % BUFFER_SIZE
Chars == [i \in 0 .. RingLen - 1 |-> buffer[(tail + i) % BUFFER_SIZE]]
AvailSeq == [i \in 0 .. Waiting - 1 |-> avail[(dev_seen + i) % NUM]]
UsedSeq == [i \in 0 .. Done - 1 |-> used[(last_used_idx + i) % NUM]]
Events == [i \in 0 .. Done - 1 |-> events[UsedSeq[i]]]

\* Every event buffer is in one place: waiting, with the device, done or in hand.
PlacesInv ==
  /\ {last_used_idx, avail_idx, used_idx, dev_seen} \subseteq 0 .. IDX - 1
  /\ \A i, j \in 0 .. Waiting - 1 : AvailSeq[i] = AvailSeq[j] => i = j
  /\ \A i, j \in 0 .. Done - 1 : UsedSeq[i] = UsedSeq[j] => i = j
  /\ \A i \in 0 .. Waiting - 1 : \A j \in 0 .. Done - 1 : AvailSeq[i] # UsedSeq[j]
  /\ \A h \in DOMAIN taken : /\ \A i \in 0 .. Waiting - 1 : AvailSeq[i] # h
                             /\ \A i \in 0 .. Done - 1 : UsedSeq[i] # h
                             /\ \A g \in DOMAIN taken : g = h
  /\ Holding => /\ \A i \in 0 .. Waiting - 1 : AvailSeq[i] # evt
                /\ \A i \in 0 .. Done - 1 : UsedSeq[i] # evt
                /\ evt \notin DOMAIN taken
  /\ Waiting + (IF DOMAIN taken = {} THEN 0 ELSE 1) + Done + (IF Holding THEN 1 ELSE 0)
       = EVENTS

\* The characters that stay in the ring whatever interrupts the push the shell is in.
Safe == IF Pushing THEN ((nxt - tail) % BUFFER_SIZE) - 1 ELSE RingLen

RingInv ==
  /\ DOMAIN buffer = 0 .. BUFFER_SIZE - 1 /\ {head, tail} \subseteq 0 .. BUFFER_SIZE - 1
  /\ pc = "take" => RingLen > 0 /\ key = Chars[0]
  /\ Pushing => /\ nxt \in 0 .. BUFFER_SIZE - 1 /\ Safe >= 0
                /\ IF hit THEN Safe < RingLen ELSE Safe = RingLen
                /\ pc = "publish" /\ ~hit => buffer[head] = key
  /\ hit \in BOOLEAN /\ (hit => Pushing)

\* The keys of one keyboard are in the ring in the order they were pressed, and were
\* pressed after all that were read.
CharsInv ==
  /\ pressed \in [Sources -> Nat] /\ last \in [Sources -> Nat]
  /\ \A s \in Sources : last[s] <= pressed[s]
  /\ \A i \in 0 .. RingLen - 1 : /\ Chars[i].src \in Sources /\ Chars[i].n \in Nat
                                 /\ last[Chars[i].src] < Chars[i].n
                                 /\ Chars[i].n <= pressed[Chars[i].src]
  /\ \A i, j \in 0 .. RingLen - 1 :
        i < j /\ Chars[i].src = Chars[j].src => Chars[i].n < Chars[j].n

\* A key of the virtio keyboard that is behind everything read and everything in the ring.
Arriving(k) ==
  /\ k.src = "virtio" /\ k.n \in Nat
  /\ last["virtio"] < k.n /\ k.n <= pressed["virtio"]
  /\ \A i \in 0 .. RingLen - 1 : Chars[i].src = "virtio" => Chars[i].n < k.n

\* The events on their way to the ring are in order too.
EventsInv ==
  /\ DOMAIN events = Buffers
  /\ \A i \in 0 .. Done - 1 :
        IF Events[i].ch = "none" THEN Events[i].n = 0 ELSE Arriving(Events[i])
  /\ \A i, j \in 0 .. Done - 1 :
        i < j /\ Events[i].ch # "none" /\ Events[j].ch # "none" => Events[i].n < Events[j].n
  /\ Carrying => /\ Arriving(key)
                 /\ \A i \in 0 .. Done - 1 : Events[i].ch # "none" => key.n < Events[i].n

\* Where a key is.
Placed(x) ==
  \/ x \in settled
  \/ \E i \in 0 .. Safe - 1 : Id(Chars[i]) = x
  \/ \E i \in 0 .. Done - 1 : Id(Events[i]) = x
  \/ Carrying /\ Id(key) = x

AccountInv == \A s \in Sources : \A n \in 1 .. pressed[s] : Placed(<<s, n>>)

InputInv == PairedInv /\ PlacesInv /\ RingInv /\ CharsInv /\ EventsInv /\ AccountInv
=============================================================================
