--------------------------------- MODULE P9 ---------------------------------
(***************************************************************************)
(* The 9P client, src/fs/9p.c, over its virtqueue, and a 9P server.        *)
(*                                                                         *)
(* All requests share tx_buffer and all replies rx_buffer.  A message is   *)
(* its type, its tag and its fids; the text of paths and the bytes of      *)
(* files are left out.  p9_rpc polls a fixed number of times, so it may    *)
(* give up on a slow server at any moment at which there is no completion. *)
(***************************************************************************)
EXTENDS Virtqueue

CONSTANTS FID_BOUND,  \* bound on the fids calls take, to keep instances finite
          TAGS,       \* 2^16, the modulus of p9_tag
          CHUNK,      \* what one p9_read asks for (4096)
          MAX_SIZE    \* the largest file p9_read_file accepts (10 MiB)

ASSUME P9Assumption == /\ FID_BOUND \in Nat \ {0} /\ TAGS \in Nat \ {0}
                       /\ CHUNK \in Nat \ {0} /\ MAX_SIZE \in Nat

VARIABLES p9_tag, next_fid, p9_initialized,
          tx, rx,    \* tx_buffer, rx_buffer
          op,        \* the call that runs: "init", "chdir", "list", "read_file", "complete"
          fid,       \* the fid it walks to
          stage,     \* the message it is at, "idle" between calls
          pc,        \* in p9_rpc: "send", "wait"; after it: "replied", "failed"
          opened,    \* the call's p9_open succeeded
          left,      \* p9_read_file: bytes still to read
          verified,  \* history: fids the server opened
          cwd,       \* the fid p9_cwd was verified with, 0 for "/"
          gave_up,   \* history: some p9_rpc returned by timeout
          completed, \* history: calls of complete_path
          fids       \* server: the fids it knows

client == <<p9_tag, next_fid, p9_initialized, op, fid, stage, pc, opened, left, cwd,
            gave_up, completed>>
vars == <<vqVars, client, tx, rx, verified, fids>>

Stages == {"version", "attach", "walk", "open", "readdir", "getattr", "read", "clunk"}
NOTAG == TAGS - 1   \* P9_NOTAG is 0xFFFF
ROOT == 0   \* the fid p9_attach binds

Init == /\ VqInit
        /\ p9_tag = 0 /\ next_fid = 1 /\ p9_initialized = FALSE
        /\ tx = [type |-> "none"] /\ rx = [type |-> "none", tag |-> NOTAG, n |-> 0]
        /\ op = "init" /\ fid = ROOT /\ stage = "version" /\ pc = "send"
        /\ opened = FALSE /\ left = 0 /\ cwd = ROOT /\ gave_up = FALSE /\ completed = 0
        /\ verified = {} /\ fids = {}
-----------------------------------------------------------------------------
\* p9_read_file walks from fid 1, the others from the root.
WalkFrom == IF op = "read_file" THEN 1 ELSE ROOT

Message == [type |-> stage,
            tag  |-> IF stage = "version" THEN NOTAG ELSE p9_tag,
            from |-> IF stage = "walk" THEN WalkFrom ELSE fid,
            to   |-> fid,
            n    |-> IF left > CHUNK THEN CHUNK ELSE left]

\* A call takes the next fid, and walks to it.
p9_call(o) ==
  /\ stage = "idle" /\ p9_initialized /\ next_fid + completed < FID_BOUND
  /\ op' = o /\ fid' = next_fid /\ next_fid' = next_fid + 1
  /\ stage' = "walk" /\ pc' = "send" /\ opened' = FALSE /\ left' = 0
  /\ UNCHANGED <<vqVars, p9_tag, p9_initialized, cwd, gave_up, completed, tx, rx, verified,
                 fids>>

\* The calls, up to their first message; "after_..." below has what they do with the
\* replies.
p9_change_directory == p9_call("chdir")
p9_list_directory == p9_call("list")
p9_read_file == p9_call("read_file")

\* complete_path of the shell, up to its first message: it takes a fid of its own, the
\* same one again when the clock's last digits are, and does not look at p9_initialized.
complete_path ==
  /\ stage = "idle" /\ next_fid + completed < FID_BOUND
  /\ completed' = completed + 1
  /\ op' = "complete" /\ fid' = FID_BOUND
  /\ stage' = "walk" /\ pc' = "send" /\ opened' = FALSE /\ left' = 0
  /\ UNCHANGED <<vqVars, p9_tag, next_fid, p9_initialized, cwd, gave_up, tx, rx, verified,
                 fids>>

\* A message is put together in tx_buffer and p9_rpc posts it and kicks the device.
p9_rpc_send ==
  /\ stage # "idle" /\ pc = "send"
  /\ tx' = Message
  /\ p9_tag' = IF stage = "version" THEN p9_tag ELSE (p9_tag + 1) % TAGS
  /\ IF num_free >= 2 THEN virtqueue_add_chain(2) /\ pc' = "wait"
                      ELSE UNCHANGED vqVars /\ pc' = "failed"
  /\ UNCHANGED <<next_fid, p9_initialized, op, fid, stage, opened, left, cwd,
                 gave_up, completed, rx, verified, fids>>

\* Mutation: a poll that found nothing counts as an answer.
Mut_AnyPoll ==
  /\ pc = "wait"
  /\ pc' = "replied"
  /\ UNCHANGED <<vqVars, p9_tag, next_fid, p9_initialized, op, fid, stage, opened, left,
                 cwd, gave_up, completed, tx, rx, verified, fids>>

\* A poll finds a completion: which one is not looked at.
p9_rpc_receive ==
  /\ pc = "wait"
  /\ virtqueue_get_buf
  /\ pc' = "replied"
  /\ UNCHANGED <<p9_tag, next_fid, p9_initialized, op, fid, stage, opened, left, cwd,
                 gave_up, completed, tx, rx, verified, fids>>

\* Mutation: p9_rpc polls for ever.
Mut_NoTimeout == FALSE /\ UNCHANGED vars

\* The last poll finds nothing.
p9_rpc_timeout ==
  /\ pc = "wait"
  /\ ~Completion
  /\ pc' = "failed"
  /\ gave_up' = TRUE
  /\ UNCHANGED <<vqVars, p9_tag, next_fid, p9_initialized, op, fid, stage, opened, left,
                 cwd, completed, tx, rx, verified, fids>>
-----------------------------------------------------------------------------
Returned == pc \in {"replied", "failed"}
Accepted == pc = "replied" /\ rx.type = stage

Goto(s) == stage' = s /\ pc' = "send"
Same == UNCHANGED <<vqVars, p9_tag, next_fid, op, fid, gave_up, completed, tx, rx, verified,
                    fids>>

\* p9_init: version, then attach.
after_version ==
  /\ stage = "version" /\ Returned
  /\ Goto(IF Accepted THEN "attach" ELSE "idle")
  /\ UNCHANGED <<p9_initialized, opened, left, cwd>> /\ Same

after_attach ==
  /\ stage = "attach" /\ Returned
  /\ Goto("idle")
  /\ p9_initialized' = Accepted
  /\ UNCHANGED <<opened, left, cwd>> /\ Same

\* A call whose walk fails returns at once.
after_walk ==
  /\ stage = "walk" /\ Returned
  /\ Goto(IF Accepted THEN "open" ELSE "idle")
  /\ UNCHANGED <<p9_initialized, opened, left, cwd>> /\ Same

\* What follows a p9_open that succeeded.
Work == CASE op = "chdir" -> "clunk" [] op \in {"list", "complete"} -> "readdir"
          [] op = "read_file" -> "getattr"

\* Mutation: a failed open returns without a clunk.
Mut_OpenNoClunk == IF Accepted THEN Work ELSE "idle"

\* Completion alone does not clunk the fid it could not open.
AfterOpen == IF Accepted THEN Work ELSE IF op = "complete" THEN "idle" ELSE "clunk"

after_open ==
  /\ stage = "open" /\ Returned
  /\ Goto(AfterOpen)
  /\ opened' = Accepted
  /\ UNCHANGED <<p9_initialized, left, cwd>> /\ Same

\* p9_list_directory and completion look at what they got; they clunk whether or not
\* they got something.
after_readdir ==
  /\ stage = "readdir" /\ Returned
  /\ Goto("clunk")
  /\ UNCHANGED <<p9_initialized, opened, left, cwd>> /\ Same

\* p9_get_file_size does not look at the type of the reply: of another reply it reads
\* whatever lies at the offset.  The buffer may then not be had.
after_getattr ==
  /\ stage = "getattr" /\ Returned
  /\ \E size \in IF pc = "failed" THEN {0}
                  ELSE IF rx.type = "getattr" THEN {rx.n} ELSE 0 .. MAX_SIZE + 1 :
       \/ /\ size \in 1 .. MAX_SIZE
          /\ left' = size
          /\ Goto("read")
       \/ /\ left' = 0
          /\ Goto("clunk")
  /\ UNCHANGED <<p9_initialized, opened, cwd>> /\ Same

\* Mutation: the count of the reply is believed.
Mut_CountBelieved == IF Accepted THEN rx.n ELSE 0

\* p9_read returns the count of the reply, cut to what was asked for.
ReadCount == IF ~Accepted THEN 0 ELSE IF rx.n > tx.n THEN tx.n ELSE rx.n

\* The loop of p9_read_file ends at a count of 0 or at the end of the file.
after_read ==
  /\ stage = "read" /\ Returned
  /\ left' = left - ReadCount
  /\ Goto(IF ReadCount = 0 \/ left' = 0 THEN "clunk" ELSE "read")
  /\ UNCHANGED <<p9_initialized, opened, cwd>> /\ Same

\* Mutation: the directory is entered before it was opened.
Mut_CwdAnyway == IF op = "chdir" THEN fid ELSE cwd

\* p9_change_directory moves to the directory it could open.
NewCwd == IF op = "chdir" /\ opened THEN fid ELSE cwd

\* p9_clunk ignores the outcome.
after_clunk ==
  /\ stage = "clunk" /\ Returned
  /\ Goto("idle")
  /\ cwd' = NewCwd
  /\ UNCHANGED <<p9_initialized, opened, left>> /\ Same
-----------------------------------------------------------------------------
\* The device takes a chain and reads tx_buffer as it is then.
device_take ==
  dev_take(tx) /\ UNCHANGED <<client, tx, rx, verified, fids>>

\* The server answers a request into rx_buffer.  It knows the fids it was given and
\* has not clunked; a walk that gets only part of the way is answered but makes no fid.
Refuse(r) == r.type # "clunk" \/ r.from \notin fids

server_refuse(h) ==
  /\ dev_complete(h)
  /\ Refuse(taken[h])
  /\ rx' = [type |-> "error", tag |-> taken[h].tag, n |-> 0]
  /\ UNCHANGED <<client, tx, verified, fids>>

server_answer(h) ==
  /\ dev_complete(h)
  /\ LET r == taken[h]
         known == r.type \in {"version", "attach"} \/ r.from \in fids
     IN  /\ known
         /\ r.type = "walk" => r.to \notin fids
         /\ fids' \in CASE r.type = "version" -> {{}}
                         [] r.type = "attach" -> {fids \cup {r.to}}
                         [] r.type = "walk" -> {fids, fids \cup {r.to}}
                         [] r.type = "clunk" -> {fids \ {r.to}}
                         [] OTHER -> {fids}
         /\ verified' = IF r.type = "open" THEN verified \cup {r.to} ELSE verified
         /\ \E n \in CASE r.type = "getattr" -> 0 .. MAX_SIZE + 1
                      [] r.type = "read" -> 0 .. r.n
                      [] OTHER -> {0} :
              rx' = [type |-> r.type, tag |-> r.tag, n |-> n]
  /\ UNCHANGED <<client, tx>>

Client == \/ p9_rpc_send \/ p9_rpc_receive \/ p9_rpc_timeout
          \/ after_version \/ after_attach \/ after_walk \/ after_open
          \/ after_readdir \/ after_getattr \/ after_read \/ after_clunk

Next == \/ p9_change_directory \/ p9_list_directory \/ p9_read_file \/ complete_path
        \/ Client
        \/ device_take
        \/ \E h \in DOMAIN taken : server_refuse(h) \/ server_answer(h)

Spec == Init /\ [][Next]_vars

\* The processor executes the client; nothing is assumed of the device.
FairSpec == Spec /\ WF_vars(Client)
-----------------------------------------------------------------------------
\* Types of the client and the queue.
TypeOK == /\ VqTypeOK
          /\ p9_tag \in 0 .. TAGS - 1 /\ next_fid \in 1 .. FID_BOUND
          /\ op \in {"init", "chdir", "list", "read_file", "complete"}
          /\ fid \in 0 .. FID_BOUND /\ stage \in Stages \cup {"idle"}
          /\ pc \in {"send", "wait", "replied", "failed"}
          /\ left \in 0 .. MAX_SIZE

\* As long as no p9_rpc gave up, the reply a call acts on is the reply to its own
\* message, although neither the chain nor the tag is compared.
ReplyMatches == pc = "replied" /\ ~gave_up => rx.tag = tx.tag

\* As long as no p9_rpc gave up, a call leaves no fid behind on the server, whichever
\* of its messages was refused, but for a completion whose p9_open was.
FidsReturned == stage = "idle" /\ ~gave_up => fids \subseteq {ROOT, FID_BOUND}

\* As long as no p9_rpc gave up, p9_cwd names a directory the server opened.
CwdOpened == ~gave_up => cwd \in verified \cup {ROOT}

\* Every call returns, even if the device never answers.
CallsReturn == stage # "idle" ~> stage = "idle"

-----------------------------------------------------------------------------
\* The inductive invariant behind ReplyMatches and CwdOpened: as long as no p9_rpc gave
\* up, the queue is empty between two of them, and holds the one request while one waits.
Quiet == avail_idx = dev_seen /\ used_idx = last_used_idx /\ DOMAIN taken = {}

\* rx_buffer answers the message in tx_buffer.
Answered == rx.tag = tx.tag /\ (rx.type = "open" => fid \in verified)

InFlight ==
  \/ /\ avail_idx = (dev_seen + 1) % IDX
     /\ used_idx = last_used_idx /\ DOMAIN taken = {}
  \/ /\ avail_idx = dev_seen /\ used_idx = last_used_idx
     /\ \E h \in DOMAIN taken : DOMAIN taken = {h} /\ taken[h] = tx
  \/ /\ avail_idx = dev_seen /\ used_idx = (last_used_idx + 1) % IDX
     /\ DOMAIN taken = {} /\ Answered

OneRequest ==
  /\ pc # "wait" => Quiet
  /\ pc = "wait" => InFlight
  /\ pc \in {"wait", "replied"} => tx.type = stage /\ tx.to = fid
  /\ pc = "replied" => Answered
  /\ opened /\ op = "chdir" => fid \in verified
  /\ cwd \in verified \cup {ROOT}

P9Inv == /\ {last_used_idx, avail_idx, used_idx, dev_seen} \subseteq 0 .. IDX - 1
         /\ stage = "idle" => pc = "send"
         /\ ~gave_up => OneRequest
-----------------------------------------------------------------------------
\* The inductive invariant behind TypeOK, RingsSound and DescriptorsConserved, whatever
\* times out: the places of the chains, and the chains of two in the descriptor table.
WaitingHead(i) == avail[(dev_seen + i) % NUM]
DoneHead(i) == used[(last_used_idx + i) % NUM]
Free == {Follow(free_head, i) : i \in 0 .. num_free - 1}

\* A chain is in one place only, and the posted chains and the free list use up the
\* table: the rings, as long as the table, are never overrun.
PlacesInv ==
  /\ VqTypeOK
  /\ \A i, j \in 0 .. Waiting - 1 : WaitingHead(i) = WaitingHead(j) => i = j
  /\ \A i, j \in 0 .. Done - 1 : DoneHead(i) = DoneHead(j) => i = j
  /\ WaitingHeads \cap DoneHeads = {}
  /\ DOMAIN taken \cap (WaitingHeads \cup DoneHeads) = {}
  /\ num_free + 2 * (Waiting + Cardinality(DOMAIN taken) + Done) = NUM

\* The free list does not meet itself, a posted chain is its head and one more
\* descriptor, and no descriptor has two uses.
ChainsInv ==
  /\ \A i, j \in 0 .. num_free - 1 : Follow(free_head, i) = Follow(free_head, j) => i = j
  /\ \A h \in Posted : /\ next[h] # h /\ chained[h] /\ ~chained[next[h]]
                       /\ h \notin Free /\ next[h] \notin Free
  /\ \A g, h \in Posted : g # h => next[g] # h /\ next[g] # next[h]
  /\ Free \cup Posted \cup {next[h] : h \in Posted} = Descs

QueueInv == PlacesInv /\ ChainsInv

\* What a reply reports is a number, a p9_read asks for no more than is left, and
\* p9_init has two messages.
CountsInv ==
  /\ tx.type = "none" => avail_idx = dev_seen
  /\ tx.type # "none" => tx.n \in Nat
  /\ \A h \in DOMAIN taken : taken[h].n \in Nat
  /\ rx.n \in Nat /\ completed \in Nat
  /\ pc \in {"wait", "replied"} => tx.n \in 0 .. left
  /\ op = "init" => stage \in {"version", "attach", "idle"}

\* The inductive invariant behind FidsReturned: as long as no p9_rpc gave up, a fid of
\* a call is known to the server at most from the answer to its walk to that to its
\* clunk, and no message remained unsent for want of descriptors.
Got == pc = "replied" \/ (pc = "wait" /\ used_idx # last_used_idx)

NoFidHeld == \/ stage = "idle"
             \/ stage = "walk" /\ ~(Got /\ rx.type = "walk")
             \/ stage = "clunk" /\ Got

FidsInv ==
  /\ fids # {} => NUM >= 2
  /\ ~gave_up =>
       /\ stage \in {"version", "attach"} => fid = ROOT
       /\ stage # "idle" /\ op = "complete" => fid = FID_BOUND
       /\ pc \in {"wait", "replied"} /\ tx.type # "walk" => tx.from = fid
       /\ Got => rx.type \in {stage, "error"}
       /\ pc = "failed" => NUM < 2
       /\ fids \subseteq {ROOT, FID_BOUND, fid}
       /\ NoFidHeld => fids \subseteq {ROOT, FID_BOUND}
=============================================================================
