------------------------------ MODULE P9Proofs ------------------------------
(***************************************************************************)
(* Proofs about P9 and the virtqueue it talks through, for every size of   *)
(* the queue, every number of fids and tags and every file size.  The      *)
(* queue loses no descriptor and overruns no ring, whatever times out.  As *)
(* long as no p9_rpc gave up, the client acts on the reply to its own      *)
(* message, p9_cwd names a directory the server opened, and a call leaves  *)
(* no fid behind.                                                          *)
(***************************************************************************)
EXTENDS P9, TLAPS
-----------------------------------------------------------------------------
\* A ring index moves, and stays in its range.
LEMMA IndexMoves == \A i \in 0 .. IDX - 1 : /\ (i + 1) % IDX \in 0 .. IDX - 1
                                            /\ (i + 1) % IDX # i
<1>1. IDX \in Nat /\ IDX > 1
  BY VirtqueueAssumption
<1>2. \A i \in 0 .. IDX - 1 : (i + 1) % IDX = IF i + 1 = IDX THEN 0 ELSE i + 1
  BY <1>1
<1> QED BY <1>1, <1>2

\* Before p9_init sends its first message nothing is in the queue.
LEMMA P9Start == Init => P9Inv
<1> SUFFICES ASSUME Init PROVE P9Inv
  BY Zenon
<1>1. {last_used_idx, avail_idx, used_idx, dev_seen} \subseteq 0 .. IDX - 1
  BY VirtqueueAssumption DEF Init, VqInit
<1>2. Quiet
  BY DEF Init, VqInit, Quiet
<1>3. pc = "send" /\ ~opened /\ cwd = ROOT
  BY Zenon DEF Init
<1> QED BY <1>1, <1>2, <1>3, Zenon DEF P9Inv, OneRequest
-----------------------------------------------------------------------------
\* Every step of the client, the device and the server keeps the invariant.
LEMMA P9Step == P9Inv /\ [Next]_vars => P9Inv'
  \* A step that leaves p9_rpc, the queue and the server alone, and starts a call or goes
  \* on to its next message.
<1>BetweenMessages.
      ASSUME P9Inv, pc # "wait", pc' = "send", UNCHANGED <<vqVars, verified, gave_up>>,
             ~gave_up => (opened' /\ op' = "chdir" => fid' \in verified),
             ~gave_up => cwd' \in verified \cup {ROOT}
      PROVE  P9Inv'
  <2> USE <1>BetweenMessages
  <2>1. {last_used_idx, avail_idx, used_idx, dev_seen}' \subseteq 0 .. IDX - 1
    BY Zenon DEF P9Inv, vqVars, driver, device
  <2>2. SUFFICES ASSUME ~gave_up PROVE OneRequest'
    BY <2>1, Zenon DEF P9Inv
  <2>3. Quiet'
    BY <2>2, Zenon DEF P9Inv, OneRequest, Quiet, vqVars, driver, device
  <2> QED BY <2>2, <2>3, Zenon DEF OneRequest
  \* p9_rpc posts its message in an empty queue.
<1>SendKept. P9Inv /\ p9_rpc_send => P9Inv'
  <2> SUFFICES ASSUME P9Inv, p9_rpc_send PROVE P9Inv'
    BY Zenon
  <2>1. /\ stage # "idle" /\ pc = "send" /\ tx'.type = stage /\ tx'.to = fid
        /\ UNCHANGED <<op, fid, stage, opened, cwd, gave_up, rx, verified>>
    BY Zenon DEF p9_rpc_send, Message
  <2>2. CASE virtqueue_add_chain(2) /\ pc' = "wait"
    <3>1. /\ avail_idx' = (avail_idx + 1) % IDX
          /\ UNCHANGED <<last_used_idx, used_idx, dev_seen, taken>>
      BY <2>2, Zenon DEF virtqueue_add_chain, device
    <3>2. {last_used_idx, avail_idx, used_idx, dev_seen}' \subseteq 0 .. IDX - 1
      BY <3>1, IndexMoves, Zenon DEF P9Inv
    <3>3. SUFFICES ASSUME ~gave_up PROVE OneRequest'
      BY <2>1, <3>2, Zenon DEF P9Inv
    <3>4. OneRequest /\ Quiet
      BY <2>1, <3>3, Zenon DEF P9Inv, OneRequest
    <3>5. InFlight'
      BY <3>1, <3>4, Zenon DEF Quiet, InFlight
    <3> QED BY <2>1, <2>2, <3>4, <3>5, Zenon DEF OneRequest
  <2>3. CASE UNCHANGED vqVars /\ pc' = "failed"
    <3>1. UNCHANGED <<last_used_idx, avail_idx, used_idx, dev_seen, taken>>
      BY <2>3, Zenon DEF vqVars, driver, device
    <3>2. SUFFICES ASSUME ~gave_up PROVE OneRequest'
      BY <2>1, <3>1, Zenon DEF P9Inv
    <3>3. OneRequest /\ Quiet
      BY <2>1, <3>2, Zenon DEF P9Inv, OneRequest
    <3>4. Quiet'
      BY <3>1, <3>3, Zenon DEF Quiet
    <3> QED BY <2>1, <2>3, <3>3, <3>4, Zenon DEF OneRequest
  <2> QED BY <2>2, <2>3, Zenon DEF p9_rpc_send
  \* The completion a poll finds is the one of its own message, and the last.
<1>ReceiveKept. P9Inv /\ p9_rpc_receive => P9Inv'
  <2> SUFFICES ASSUME P9Inv, p9_rpc_receive PROVE P9Inv'
    BY Zenon
  <2>1. /\ pc = "wait" /\ pc' = "replied"
        /\ UNCHANGED <<op, fid, stage, opened, cwd, gave_up, tx, rx, verified>>
    BY Zenon DEF p9_rpc_receive
  <2>2. /\ last_used_idx # used_idx /\ last_used_idx' = (last_used_idx + 1) % IDX
        /\ UNCHANGED <<avail_idx, used_idx, dev_seen, taken>>
    BY Zenon DEF p9_rpc_receive, virtqueue_get_buf, Completion, device
  <2>3. {last_used_idx, avail_idx, used_idx, dev_seen}' \subseteq 0 .. IDX - 1
    BY <2>2, IndexMoves, Zenon DEF P9Inv
  <2>4. SUFFICES ASSUME ~gave_up PROVE OneRequest'
    BY <2>1, <2>3, Zenon DEF P9Inv
  <2>5. OneRequest /\ InFlight
    BY <2>1, <2>4, Zenon DEF P9Inv, OneRequest
  <2>6. Quiet' /\ Answered
    BY <2>2, <2>5, Zenon DEF InFlight, Quiet
  <2>7. Answered'
    BY <2>1, <2>6, Zenon DEF Answered
  <2> QED BY <2>1, <2>5, <2>6, <2>7, Zenon DEF OneRequest
  \* The device takes the one message that waits, and reads it from tx_buffer.
<1>TakeKept. P9Inv /\ device_take => P9Inv'
  <2> SUFFICES ASSUME P9Inv, device_take PROVE P9Inv'
    BY Zenon
  <2> DEFINE h == avail[dev_seen % NUM]
  <2>1. UNCHANGED <<op, fid, stage, pc, opened, cwd, gave_up, tx, rx, verified>>
    BY Zenon DEF device_take, client
  <2>2. /\ dev_seen # avail_idx /\ dev_seen' = (dev_seen + 1) % IDX
        /\ taken' = [t \in DOMAIN taken \cup {h} |-> IF t = h THEN tx ELSE taken[t]]
        /\ UNCHANGED <<last_used_idx, avail_idx, used_idx>>
    BY Zenon DEF device_take, dev_take, driver
  <2> HIDE DEF h
  <2>3. {last_used_idx, avail_idx, used_idx, dev_seen}' \subseteq 0 .. IDX - 1
    BY <2>2, IndexMoves, Zenon DEF P9Inv
  <2>4. SUFFICES ASSUME ~gave_up PROVE OneRequest'
    BY <2>1, <2>3, Zenon DEF P9Inv
  <2>5. OneRequest
    BY <2>4, Zenon DEF P9Inv
  <2>6. pc = "wait" /\ InFlight
    BY <2>2, <2>5, Zenon DEF OneRequest, Quiet
  <2>7. /\ avail_idx = (dev_seen + 1) % IDX /\ used_idx = last_used_idx
        /\ DOMAIN taken = {}
    BY <2>2, <2>6, Zenon DEF InFlight
  <2>8. DOMAIN taken' = {h} /\ taken'[h] = tx
    BY <2>2, <2>7, Zenon
  <2>9. InFlight'
    BY <2>1, <2>2, <2>7, <2>8, Zenon DEF InFlight
  <2> QED BY <2>1, <2>5, <2>6, <2>9, Zenon DEF OneRequest
  \* The server answers the one message it has.
<1>ServerKept. ASSUME P9Inv, NEW h \in DOMAIN taken, server_refuse(h) \/ server_answer(h)
               PROVE  P9Inv'
  <2> USE <1>ServerKept
  <2>1. UNCHANGED <<op, fid, stage, pc, opened, cwd, gave_up, tx>>
    BY Zenon DEF server_refuse, server_answer, client
  <2>2. /\ taken' = [t \in DOMAIN taken \ {h} |-> taken[t]]
        /\ used_idx' = (used_idx + 1) % IDX
        /\ UNCHANGED <<last_used_idx, avail_idx, dev_seen>>
    BY Zenon DEF server_refuse, server_answer, dev_complete, driver
  <2>3. /\ rx'.tag = taken[h].tag /\ verified \subseteq verified'
        /\ rx'.type = "open" => taken[h].to \in verified'
    <3>1. CASE server_refuse(h)
      BY <3>1, Zenon DEF server_refuse
    <3>2. CASE server_answer(h)
      <4>1. verified' = IF taken[h].type = "open" THEN verified \cup {taken[h].to}
                                                  ELSE verified
        BY <3>2, Zenon DEF server_answer
      <4>2. \E n : rx' = [type |-> taken[h].type, tag |-> taken[h].tag, n |-> n]
        BY <3>2, Zenon DEF server_answer
      <4>3. rx'.type = taken[h].type /\ rx'.tag = taken[h].tag
        BY <4>2
      <4> QED BY <4>1, <4>3, Zenon
    <3> QED BY <3>1, <3>2, Zenon
  <2>4. {last_used_idx, avail_idx, used_idx, dev_seen}' \subseteq 0 .. IDX - 1
    BY <2>2, IndexMoves, Zenon DEF P9Inv
  <2>5. SUFFICES ASSUME ~gave_up PROVE OneRequest'
    BY <2>1, <2>4, Zenon DEF P9Inv
  <2>6. OneRequest
    BY <2>5, Zenon DEF P9Inv
  <2>7. pc = "wait" /\ InFlight /\ tx.type = stage /\ tx.to = fid
    BY <2>6, Zenon DEF OneRequest, Quiet
  <2>8. /\ avail_idx = dev_seen /\ used_idx = last_used_idx
        /\ DOMAIN taken = {h} /\ taken[h] = tx
    BY <2>7, Zenon DEF InFlight
  <2>9. Answered'
    BY <2>1, <2>3, <2>7, <2>8, Zenon DEF Answered
  <2>10. InFlight'
    BY <2>2, <2>8, <2>9, Zenon DEF InFlight
  <2> QED BY <2>1, <2>3, <2>6, <2>7, <2>10, Zenon DEF OneRequest
  \* A call goes on after a reply or a failure.
<1>AfterKept. ASSUME P9Inv,
                     \/ after_version \/ after_attach \/ after_walk \/ after_open
                     \/ after_readdir \/ after_getattr \/ after_read \/ after_clunk
              PROVE  P9Inv'
  <2> USE <1>AfterKept
  <2>1. /\ pc # "wait" /\ pc' = "send"
        /\ UNCHANGED <<vqVars, op, fid, verified, gave_up>>
    BY Zenon DEF after_version, after_attach, after_walk, after_open, after_readdir,
           after_getattr, after_read, after_clunk, Returned, Goto, Same
  <2>2. CASE UNCHANGED <<opened, cwd>>
    BY <2>1, <2>2, <1>BetweenMessages, Zenon DEF P9Inv, OneRequest
  <2>3. CASE after_open
    <3>1. UNCHANGED cwd /\ (opened' => Accepted /\ stage = "open")
      BY <2>3, Zenon DEF after_open
    <3>2. ~gave_up => (opened' => fid \in verified)
      BY <3>1, Zenon DEF Accepted, P9Inv, OneRequest, Answered
    <3> QED BY <2>1, <3>1, <3>2, <1>BetweenMessages, Zenon DEF P9Inv, OneRequest
  <2>4. CASE after_clunk
    <3>1. UNCHANGED opened /\ cwd' = NewCwd
      BY <2>4, Zenon DEF after_clunk
    <3>2. ~gave_up => cwd' \in verified \cup {ROOT}
      BY <3>1, Zenon DEF NewCwd, P9Inv, OneRequest
    <3> QED BY <2>1, <3>1, <3>2, <1>BetweenMessages, Zenon DEF P9Inv, OneRequest
  <2> QED BY <2>2, <2>3, <2>4, Zenon
       DEF after_version, after_attach, after_walk, after_readdir, after_getattr, after_read
  \* A call starts between two messages.
<1>CallKept.
      ASSUME P9Inv,
             \/ p9_change_directory \/ p9_list_directory \/ p9_read_file \/ complete_path
      PROVE  P9Inv'
  <2> USE <1>CallKept
  <2>1. /\ stage = "idle" /\ pc' = "send" /\ opened' = FALSE
        /\ UNCHANGED <<vqVars, cwd, verified, gave_up>>
    BY Zenon DEF p9_change_directory, p9_list_directory, p9_read_file, p9_call, complete_path
  <2> QED BY <2>1, <1>BetweenMessages, Zenon DEF P9Inv, OneRequest
<1> SUFFICES ASSUME P9Inv, [Next]_vars PROVE P9Inv'
  BY Zenon
<1>1. CASE p9_change_directory \/ p9_list_directory \/ p9_read_file \/ complete_path
  BY <1>1, <1>CallKept, Zenon
<1>2. CASE p9_rpc_send
  BY <1>2, <1>SendKept, Zenon
<1>3. CASE p9_rpc_receive
  BY <1>3, <1>ReceiveKept, Zenon
<1>4. CASE p9_rpc_timeout
  <2>1. pc = "wait" /\ gave_up' /\ UNCHANGED <<vqVars, stage>>
    BY <1>4, Zenon DEF p9_rpc_timeout
  <2> QED BY <2>1, Zenon DEF P9Inv, vqVars, driver, device
<1>5. CASE \/ after_version \/ after_attach \/ after_walk \/ after_open
           \/ after_readdir \/ after_getattr \/ after_read \/ after_clunk
  BY <1>5, <1>AfterKept, Zenon
<1>6. CASE device_take
  BY <1>6, <1>TakeKept, Zenon
<1>7. CASE \E h \in DOMAIN taken : server_refuse(h) \/ server_answer(h)
  BY <1>7, <1>ServerKept, Zenon
<1>8. CASE UNCHANGED vars
  BY <1>8, Zenon DEF vars, client, vqVars, driver, device, P9Inv, OneRequest, Quiet, InFlight,
              Answered
<1> QED BY <1>1, <1>2, <1>3, <1>4, <1>5, <1>6, <1>7, <1>8, Zenon DEF Next, Client

\* The queue of the 9P client holds at most the message that p9_rpc waits for, until
\* some p9_rpc gives up.
THEOREM P9OneRequest == Spec => []P9Inv
<1> QED BY P9Start, P9Step, PTL DEF Spec

\* Until some p9_rpc gives up, the reply a call acts on is the reply to its own message,
\* although p9_rpc compares neither the chain nor the tag.
THEOREM P9ReplyMatches == Spec => []ReplyMatches
<1>1. P9Inv => ReplyMatches
  BY Zenon DEF P9Inv, OneRequest, Answered, ReplyMatches
<1> QED BY <1>1, P9OneRequest, PTL

\* Until some p9_rpc gives up, p9_change_directory moves only to a directory that the
\* server opened.
THEOREM P9CwdOpened == Spec => []CwdOpened
<1>1. P9Inv => CwdOpened
  BY Zenon DEF P9Inv, OneRequest, CwdOpened
<1> QED BY <1>1, P9OneRequest, PTL
-----------------------------------------------------------------------------
\* Steps that leave the queue, the buffers and the server alone.
ClientOnly == UNCHANGED <<vqVars, tx, rx, fids, p9_tag, gave_up>>

\* The part of TypeOK that is about the client.
ClientTypeOK ==
  /\ p9_tag \in 0 .. TAGS - 1 /\ next_fid \in 1 .. FID_BOUND
  /\ op \in {"init", "chdir", "list", "read_file", "complete"}
  /\ fid \in 0 .. FID_BOUND /\ stage \in Stages \cup {"idle"}
  /\ pc \in {"send", "wait", "replied", "failed"}
  /\ left \in 0 .. MAX_SIZE

TypesInv == ClientTypeOK /\ CountsInv

LEMMA TypesStart == Init => TypesInv
<1> SUFFICES ASSUME Init PROVE TypesInv
  BY Zenon
<1>1. /\ p9_tag = 0 /\ next_fid = 1 /\ op = "init" /\ fid = 0 /\ stage = "version"
      /\ pc = "send" /\ left = 0 /\ completed = 0
  BY Zenon DEF Init, ROOT
<1>2. ClientTypeOK
  BY <1>1, P9Assumption DEF ClientTypeOK, Stages
<1>3. /\ tx = [type |-> "none"] /\ rx.n = 0 /\ DOMAIN taken = {} /\ avail_idx = dev_seen
  BY DEF Init, VqInit
<1>4. CountsInv
  BY <1>1, <1>3 DEF CountsInv
<1> QED BY <1>2, <1>4, Zenon DEF TypesInv

LEMMA TypesStep == TypesInv /\ [Next]_vars => TypesInv'
  \* The steps of the client between two messages.
<1>ClientSteps.
      ASSUME \/ p9_change_directory \/ p9_list_directory \/ p9_read_file \/ complete_path
             \/ after_version \/ after_attach \/ after_walk \/ after_open
             \/ after_readdir \/ after_getattr \/ after_read \/ after_clunk
      PROVE  ClientOnly
  BY <1>ClientSteps, Zenon DEF p9_change_directory, p9_list_directory, p9_read_file,
     complete_path, p9_call,
         after_version, after_attach, after_walk, after_open,
         after_readdir, after_getattr, after_read, after_clunk, Same, ClientOnly
  \* A call begins.
<1>TypesCall.
      ASSUME TypesInv,
             \/ p9_change_directory \/ p9_list_directory \/ p9_read_file \/ complete_path
      PROVE  TypesInv'
  <2> USE <1>TypesCall
  <2>1. ClientOnly
    BY <1>ClientSteps, Zenon
  <2>2. /\ next_fid \in 1 .. FID_BOUND /\ completed \in Nat /\ FID_BOUND \in Nat \ {0}
        /\ MAX_SIZE \in Nat
    BY P9Assumption, Zenon DEF TypesInv, ClientTypeOK, CountsInv
  <2>3. /\ next_fid + completed < FID_BOUND
        /\ \/ next_fid' = next_fid + 1 /\ completed' = completed /\ fid' = next_fid
           \/ next_fid' = next_fid /\ completed' = completed + 1 /\ fid' = FID_BOUND
        /\ stage' = "walk" /\ pc' = "send" /\ left' = 0
        /\ op' \in {"chdir", "list", "read_file", "complete"}
    BY Zenon DEF p9_change_directory, p9_list_directory, p9_read_file, complete_path, p9_call
  <2>4. next_fid' \in 1 .. FID_BOUND /\ completed' \in Nat /\ fid' \in 0 .. FID_BOUND
    BY <2>2, <2>3
  <2>5. ClientTypeOK'
    BY <2>1, <2>2, <2>3, <2>4 DEF ClientTypeOK, TypesInv, ClientOnly, Stages
  <2>6. UNCHANGED <<tx, rx, taken, avail_idx, dev_seen>>
    BY <2>1, Zenon DEF ClientOnly, vqVars, driver, device
  <2>7. CountsInv'
    BY <2>3, <2>4, <2>6, Zenon DEF TypesInv, CountsInv
  <2> QED BY <2>5, <2>7, Zenon DEF TypesInv
  \* A call goes on after a reply or a failure.
<1>TypesAfter. ASSUME TypesInv,
                      \/ after_version \/ after_attach \/ after_walk \/ after_open
                      \/ after_readdir \/ after_getattr \/ after_read \/ after_clunk
               PROVE  TypesInv'
  <2> USE <1>TypesAfter
  <2>1. ClientOnly /\ UNCHANGED <<next_fid, op, fid, completed>> /\ pc' = "send"
    <3>1. ClientOnly
      BY <1>ClientSteps, Zenon
    <3> QED BY <3>1, Zenon DEF after_version, after_attach, after_walk, after_open,
               after_readdir, after_getattr, after_read, after_clunk, Same, Goto
  <2>2. stage' \in Stages \cup {"idle"}
    <3>1. op \in {"init", "chdir", "list", "read_file", "complete"}
      BY Zenon DEF TypesInv, ClientTypeOK
    <3>2. CASE after_open
      <4>1. stage = "open" /\ stage' = AfterOpen
        BY <3>2, Zenon DEF after_open, Goto
      <4>2. op # "init"
        BY <4>1, Zenon DEF TypesInv, CountsInv
      <4> QED BY <3>1, <4>1, <4>2, Zenon DEF AfterOpen, Work, Stages
    <3> QED BY <3>2, Zenon DEF after_version, after_attach, after_walk, after_readdir,
               after_getattr, after_read, after_clunk, Goto, Stages
  <2>3. left' \in 0 .. MAX_SIZE
    <3>1. left \in 0 .. MAX_SIZE /\ MAX_SIZE \in Nat
      BY P9Assumption, Zenon DEF TypesInv, ClientTypeOK
    <3>2. CASE after_read
      <4>1. left' = left - ReadCount
        BY <3>2, Zenon DEF after_read
      <4>2. ReadCount \in 0 .. left
        <5>1. Accepted => tx.n \in 0 .. left /\ rx.n \in Nat
          BY Zenon DEF Accepted, TypesInv, CountsInv
        <5> QED BY <3>1, <5>1 DEF ReadCount
      <4> QED BY <3>1, <4>1, <4>2
    <3>3. CASE after_getattr
      <4>1. left' \in 1 .. MAX_SIZE \/ left' = 0
        BY <3>3, Zenon DEF after_getattr
      <4> QED BY <3>1, <4>1
    <3>4. CASE UNCHANGED left
      BY <3>1, <3>4, Zenon
    <3> QED BY <3>2, <3>3, <3>4, Zenon DEF after_version, after_attach, after_walk, after_open,
               after_readdir, after_clunk
  <2>4. ClientTypeOK'
    BY <2>1, <2>2, <2>3, Zenon DEF TypesInv, ClientTypeOK, ClientOnly
  <2>5. UNCHANGED <<tx, rx, taken, avail_idx, dev_seen>>
    BY <2>1, Zenon DEF ClientOnly, vqVars, driver, device
  <2>6. op = "init" => stage' \in {"version", "attach", "idle"}
    <3>1. op = "init" => stage \in {"version", "attach", "idle"}
      BY Zenon DEF TypesInv, CountsInv
    <3> QED BY <3>1, Zenon DEF after_version, after_attach, after_walk, after_open,
            after_readdir, after_getattr, after_read, after_clunk, Goto
  <2>7. CountsInv'
    BY <2>1, <2>5, <2>6, Zenon DEF TypesInv, CountsInv
  <2> QED BY <2>4, <2>7, Zenon DEF TypesInv
  \* A message is put together: a p9_read asks for no more than is left.
<1>TypesSend. TypesInv /\ p9_rpc_send => TypesInv'
  <2> SUFFICES ASSUME TypesInv, p9_rpc_send PROVE TypesInv'
    BY Zenon
  <2>1. /\ UNCHANGED <<next_fid, op, fid, stage, left, completed, rx>>
        /\ stage # "idle" /\ tx' = Message /\ pc' \in {"wait", "failed"}
        /\ p9_tag' \in {p9_tag, (p9_tag + 1) % TAGS}
    BY Zenon DEF p9_rpc_send
  <2>2. UNCHANGED <<taken, dev_seen>>
    BY Zenon DEF p9_rpc_send, virtqueue_add_chain, vqVars, device
  <2>3. left \in 0 .. MAX_SIZE /\ CHUNK \in Nat \ {0} /\ MAX_SIZE \in Nat
    BY P9Assumption, Zenon DEF TypesInv, ClientTypeOK
  <2>4. Message.type = stage /\ Message.n \in 0 .. left
    <3>1. Message.type = stage /\ Message.n = IF left > CHUNK THEN CHUNK ELSE left
      BY Zenon DEF Message
    <3> QED BY <2>3, <3>1
  <2>5. stage # "none"
    BY Zenon DEF TypesInv, ClientTypeOK, Stages
  <2>6. tx'.type # "none" /\ tx'.n \in 0 .. left /\ tx'.n \in Nat
    BY <2>1, <2>3, <2>4, <2>5
  <2>7. CountsInv'
    BY <2>1, <2>2, <2>6, Zenon DEF TypesInv, CountsInv
  <2>8. p9_tag' \in 0 .. TAGS - 1
    BY <2>1, P9Assumption DEF TypesInv, ClientTypeOK
  <2>9. ClientTypeOK'
    BY <2>1, <2>8, Zenon DEF TypesInv, ClientTypeOK
  <2> QED BY <2>7, <2>9, Zenon DEF TypesInv
  \* The device and the server.
<1>TypesDevice.
      ASSUME TypesInv,
             device_take \/ \E h \in DOMAIN taken : server_refuse(h) \/ server_answer(h)
      PROVE  TypesInv'
  <2> USE <1>TypesDevice
  <2>1. UNCHANGED <<p9_tag, next_fid, op, fid, stage, pc, left, completed, tx, avail_idx>>
    BY Zenon DEF device_take, dev_take, server_refuse, server_answer, dev_complete, client,
       driver
  <2>2. ClientTypeOK'
    BY <2>1, Zenon DEF TypesInv, ClientTypeOK
  <2>3. CountsInv
    BY Zenon DEF TypesInv
  <2>4. CASE device_take
    <3> DEFINE h == avail[dev_seen % NUM]
    <3>1. /\ dev_seen # avail_idx /\ UNCHANGED rx
          /\ taken' = [t \in DOMAIN taken \cup {h} |-> IF t = h THEN tx ELSE taken[t]]
      BY <2>4, Zenon DEF device_take, dev_take
    <3> HIDE DEF h
    <3>2. tx.type # "none" /\ tx.n \in Nat
      BY <2>3, <3>1, Zenon DEF CountsInv
    <3>3. \A t \in DOMAIN taken' : taken'[t].n \in Nat
      BY <2>3, <3>1, <3>2, Zenon DEF CountsInv
    <3>4. CountsInv'
      BY <2>1, <2>3, <3>1, <3>2, <3>3, Zenon DEF CountsInv
    <3> QED BY <2>2, <3>4, Zenon DEF TypesInv
  <2>5. CASE \E h \in DOMAIN taken : server_refuse(h) \/ server_answer(h)
    <3>1. PICK h \in DOMAIN taken : server_refuse(h) \/ server_answer(h)
      BY <2>5, Zenon
    <3>2. taken' = [t \in DOMAIN taken \ {h} |-> taken[t]] /\ UNCHANGED dev_seen
      BY <3>1, Zenon DEF server_refuse, server_answer, dev_complete
    <3>3. taken[h].n \in Nat
      BY <2>3, Zenon DEF CountsInv
    <3>4. rx'.n \in Nat
      <4>1. CASE server_refuse(h)
        BY <4>1, Zenon DEF server_refuse
      <4>2. CASE server_answer(h)
        <5> DEFINE r == taken[h]
                   N == CASE r.type = "getattr" -> 0 .. MAX_SIZE + 1
                          [] r.type = "read" -> 0 .. r.n
                          [] OTHER -> {0}
        <5>1. PICK n \in N : rx' = [type |-> r.type, tag |-> r.tag, n |-> n]
          BY <4>2, Zenon DEF server_answer
        <5>2. N \subseteq Nat
          BY <3>3, P9Assumption
        <5> HIDE DEF N
        <5> QED BY <5>1, <5>2, Zenon
      <4> QED BY <3>1, <4>1, <4>2, Zenon
    <3>5. CountsInv'
      BY <2>1, <2>3, <3>2, <3>4, Zenon DEF CountsInv
    <3> QED BY <2>2, <3>5, Zenon DEF TypesInv
  <2> QED BY <2>4, <2>5, Zenon
<1> SUFFICES ASSUME TypesInv, [Next]_vars PROVE TypesInv'
  BY Zenon
<1>1. CASE p9_change_directory \/ p9_list_directory \/ p9_read_file \/ complete_path
  BY <1>1, <1>TypesCall, Zenon
<1>2. CASE p9_rpc_send
  BY <1>2, <1>TypesSend, Zenon
<1>3. CASE \/ after_version \/ after_attach \/ after_walk \/ after_open
           \/ after_readdir \/ after_getattr \/ after_read \/ after_clunk
  BY <1>3, <1>TypesAfter, Zenon
<1>4. CASE device_take \/ \E h \in DOMAIN taken : server_refuse(h) \/ server_answer(h)
  BY <1>4, <1>TypesDevice, Zenon
<1>5. CASE p9_rpc_receive \/ p9_rpc_timeout \/ UNCHANGED vars
  <2>1. /\ UNCHANGED <<p9_tag, next_fid, op, fid, stage, left, completed, tx, rx>>
        /\ UNCHANGED <<avail_idx, dev_seen, taken>>
        /\ pc' = pc \/ (pc = "wait" /\ pc' \in {"replied", "failed"})
    BY <1>5, Zenon DEF p9_rpc_receive, p9_rpc_timeout, vars, client, vqVars, driver, device,
                virtqueue_get_buf
  <2>2. ClientTypeOK'
    BY <2>1, Zenon DEF TypesInv, ClientTypeOK
  <2>3. CountsInv'
    BY <2>1, Zenon DEF TypesInv, CountsInv
  <2> QED BY <2>2, <2>3, Zenon DEF TypesInv
<1> QED BY <1>1, <1>2, <1>3, <1>4, <1>5, Zenon DEF Next, Client

\* What the fids of the server depend on in the queue: a queue in which nothing is posted
\* has all its descriptors, and a chain that is posted has two.
QueueFacts == /\ num_free \in Nat
              /\ Quiet => num_free = NUM
              /\ DOMAIN taken # {} => NUM >= 2

\* An invariant that says all that they depend on.
FidsAll == FidsInv /\ P9Inv /\ QueueFacts /\ TypesInv

LEMMA FidsStart == Init => FidsInv
<1> SUFFICES ASSUME Init PROVE FidsInv
  BY Zenon
<1>1. /\ fids = {} /\ stage = "version" /\ fid = ROOT /\ op = "init" /\ pc = "send"
  BY Zenon DEF Init
<1> QED BY <1>1, Zenon DEF FidsInv, Got

LEMMA FidsStep == FidsAll /\ [Next]_vars => FidsInv'
  \* A call begins between two messages, with a fid the server does not know.
<1>FidsCall.
      ASSUME FidsAll,
             \/ p9_change_directory \/ p9_list_directory \/ p9_read_file \/ complete_path
      PROVE  FidsInv'
  <2> USE <1>FidsCall
  <2>1. /\ stage = "idle" /\ stage' = "walk" /\ pc' = "send"
        /\ op' = "complete" => fid' = FID_BOUND
        /\ UNCHANGED <<fids, gave_up>>
    BY Zenon DEF p9_change_directory, p9_list_directory, p9_read_file, complete_path, p9_call
  <2>2. ~gave_up => fids \subseteq {ROOT, FID_BOUND}
    BY <2>1, Zenon DEF FidsAll, FidsInv, NoFidHeld
  <2> QED BY <2>1, <2>2, Zenon DEF FidsAll, FidsInv, Got
  \* A call that goes on to its clunk, or returns with nothing to clunk.
<1>FidsAfter. ASSUME FidsAll,
                     \/ after_version \/ after_attach \/ after_walk \/ after_open
                     \/ after_readdir \/ after_getattr \/ after_read \/ after_clunk
              PROVE  FidsInv'
  <2> USE <1>FidsAfter
  <2>1. /\ UNCHANGED <<fids, gave_up, op, fid, rx, tx>> /\ pc' = "send"
        /\ pc \in {"replied", "failed"}
    BY Zenon DEF after_version, after_attach, after_walk, after_open, after_readdir,
           after_getattr, after_read, after_clunk, Same, Goto, Returned
  <2>2. SUFFICES ASSUME ~gave_up
                 PROVE  /\ stage' \in {"version", "attach"} => fid = ROOT
                        /\ stage' # "idle" /\ op = "complete" => fid = FID_BOUND
                        /\ NoFidHeld' => fids \subseteq {ROOT, FID_BOUND}
    BY <2>1, Zenon DEF FidsAll, FidsInv, Got
  <2>3. /\ fids # {} => NUM >= 2
        /\ stage \in {"version", "attach"} => fid = ROOT
        /\ stage # "idle" /\ op = "complete" => fid = FID_BOUND
        /\ Got => rx.type \in {stage, "error"}
        /\ pc = "failed" => NUM < 2
        /\ fids \subseteq {ROOT, FID_BOUND, fid}
        /\ NoFidHeld => fids \subseteq {ROOT, FID_BOUND}
    BY <2>2, Zenon DEF FidsAll, FidsInv
  <2>4. NUM \in Nat
    BY VirtqueueAssumption, Zenon
  <2>5. pc = "failed" => fids = {}
    BY <2>3, <2>4
  <2>6. pc = "replied" => Got
    BY Zenon DEF Got
  <2>7. ~Accepted => rx.type = "error" \/ fids = {}
    BY <2>1, <2>3, <2>5, <2>6, Zenon DEF Accepted
  <2>8. stage # "idle"
    BY Zenon DEF after_version, after_attach, after_walk, after_open, after_readdir,
           after_getattr, after_read, after_clunk
  <2>9. ~Got'
    BY <2>1, Zenon DEF Got
  <2>10. stage' # "walk"
    <3>1. CASE after_open
      <4>1. stage' = AfterOpen /\ op # "init"
             /\ op \in {"init", "chdir", "list", "read_file", "complete"}
        BY <3>1, Zenon DEF after_open, Goto, FidsAll, TypesInv, CountsInv, ClientTypeOK
      <4> QED BY <4>1, Zenon DEF AfterOpen, Work
    <3> QED BY <3>1, Zenon DEF after_version, after_attach, after_walk, after_readdir,
           after_getattr, after_read, after_clunk, Goto
  <2>11. NoFidHeld' => stage' = "idle"
    BY <2>9, <2>10, Zenon DEF NoFidHeld
  <2>12. stage' = "idle" => fids \subseteq {ROOT, FID_BOUND}
    <3>1. CASE stage \in {"version", "attach"}
      BY <2>3, <3>1, Zenon
    <3>2. CASE after_walk
      <4>1. stage = "walk" /\ (stage' = "idle" => ~Accepted)
        BY <3>2, Zenon DEF after_walk, Goto
      <4>2. stage' = "idle" => NoFidHeld \/ fids = {}
        BY <2>7, <4>1, Zenon DEF NoFidHeld
      <4> QED BY <2>3, <4>2, Zenon
    <3>3. CASE after_open
      <4>1. stage' = AfterOpen /\ op # "init"
             /\ op \in {"init", "chdir", "list", "read_file", "complete"}
        BY <3>3, Zenon DEF after_open, Goto, FidsAll, TypesInv, CountsInv, ClientTypeOK
      <4>2. stage' = "idle" => op = "complete"
        BY <4>1, Zenon DEF AfterOpen, Work
      <4> QED BY <2>3, <2>8, <4>2, Zenon
    <3>4. CASE after_clunk
      <4>1. stage = "clunk"
        BY <3>4, Zenon DEF after_clunk
      <4>2. NoFidHeld \/ fids = {}
        BY <2>1, <2>5, <2>6, <4>1, Zenon DEF NoFidHeld
      <4> QED BY <2>3, <4>2, Zenon
    <3>5. CASE after_readdir \/ after_getattr \/ after_read
      BY <3>5, Zenon DEF after_readdir, after_getattr, after_read, Goto
    <3> QED BY <3>1, <3>2, <3>3, <3>4, <3>5, Zenon DEF after_version, after_attach
  <2>13. stage' \in {"version", "attach"} => stage \in {"version", "attach"}
    <3>1. CASE after_open
      <4>1. stage' = AfterOpen /\ op # "init"
             /\ op \in {"init", "chdir", "list", "read_file", "complete"}
        BY <3>1, Zenon DEF after_open, Goto, FidsAll, TypesInv, CountsInv, ClientTypeOK
      <4> QED BY <4>1, Zenon DEF AfterOpen, Work
    <3> QED BY <3>1, Zenon DEF after_version, after_attach, after_walk, after_readdir,
           after_getattr, after_read, after_clunk, Goto
  <2> QED BY <2>3, <2>8, <2>11, <2>12, <2>13, Zenon
  \* A message is sent: there are descriptors for it, since nothing else is posted.
<1>FidsSend. FidsAll /\ p9_rpc_send => FidsInv'
  <2> SUFFICES ASSUME FidsAll, p9_rpc_send PROVE FidsInv'
    BY Zenon
  <2>1. /\ UNCHANGED <<fids, gave_up, op, fid, stage, rx>> /\ pc = "send"
        /\ tx' = Message
        /\ \/ virtqueue_add_chain(2) /\ pc' = "wait"
           \/ num_free < 2 /\ pc' = "failed"
    <3>1. num_free \in Nat
      BY Zenon DEF FidsAll, QueueFacts
    <3> QED BY <3>1 DEF p9_rpc_send
  <2>2. fids # {} => NUM >= 2
    BY Zenon DEF FidsAll, FidsInv
  <2>3. SUFFICES ASSUME ~gave_up
        PROVE  /\ stage \in {"version", "attach"} => fid = ROOT
               /\ stage # "idle" /\ op = "complete" => fid = FID_BOUND
               /\ pc' \in {"wait", "replied"} /\ tx'.type # "walk" => tx'.from = fid
               /\ Got' => rx.type \in {stage, "error"}
               /\ pc' = "failed" => NUM < 2
               /\ fids \subseteq {ROOT, FID_BOUND, fid}
               /\ NoFidHeld' => fids \subseteq {ROOT, FID_BOUND}
    BY <2>1, <2>2, Zenon DEF FidsInv
  <2>4. Quiet
    BY <2>1, <2>3, Zenon DEF FidsAll, P9Inv, OneRequest
  <2>5. num_free = NUM
    BY <2>4, Zenon DEF FidsAll, QueueFacts
  <2>6. ~Got'
    BY <2>1, <2>4, Zenon DEF Got, Quiet, virtqueue_add_chain, device
  <2>7. NoFidHeld' => NoFidHeld
    BY <2>1, <2>6, Zenon DEF NoFidHeld, Got
  <2>8. tx'.type # "walk" => tx'.from = fid
    BY <2>1, Zenon DEF Message
  <2> QED BY <2>1, <2>3, <2>5, <2>6, <2>7, <2>8, Zenon DEF FidsAll, FidsInv
  \* The server answers the message, or refuses it; it cannot refuse a clunk of a fid it has.
<1>FidsServer. ASSUME FidsAll, NEW h \in DOMAIN taken, server_refuse(h) \/ server_answer(h)
               PROVE  FidsInv'
  <2> USE <1>FidsServer
  <2>1. UNCHANGED <<gave_up, op, fid, stage, pc, tx, last_used_idx>>
    BY Zenon DEF server_refuse, server_answer, client, dev_complete, driver
  <2>2. NUM >= 2
    BY Zenon DEF FidsAll, QueueFacts
  <2>3. SUFFICES ASSUME ~gave_up
        PROVE  /\ Got' => rx'.type \in {stage, "error"}
               /\ fids' \subseteq {ROOT, FID_BOUND, fid}
               /\ NoFidHeld' => fids' \subseteq {ROOT, FID_BOUND}
    BY <2>1, <2>2, Zenon DEF FidsAll, FidsInv
  <2>4. /\ stage \in {"version", "attach"} => fid = ROOT
        /\ pc \in {"wait", "replied"} /\ tx.type # "walk" => tx.from = fid
        /\ fids \subseteq {ROOT, FID_BOUND, fid}
        /\ NoFidHeld => fids \subseteq {ROOT, FID_BOUND}
    BY <2>3, Zenon DEF FidsAll, FidsInv
  <2>5. /\ pc = "wait" /\ tx.type = stage /\ tx.to = fid
        /\ used_idx = last_used_idx /\ taken[h] = tx
    <3>1. OneRequest
      BY <2>3, Zenon DEF FidsAll, P9Inv
    <3>2. pc = "wait" /\ InFlight
      BY <3>1, Zenon DEF OneRequest, Quiet
    <3> QED BY <3>1, <3>2, Zenon DEF InFlight, OneRequest
  <2>6. ~Got
    BY <2>5, Zenon DEF Got
  <2>7. tx.type # "walk" => tx.from = fid
    BY <2>4, <2>5, Zenon
  <2>8. CASE server_refuse(h)
    <3>1. /\ fids' = fids /\ rx'.type = "error"
          /\ tx.type # "clunk" \/ tx.from \notin fids
      BY <2>5, <2>8, Zenon DEF server_refuse, Refuse
    <3>2. NoFidHeld' => NoFidHeld \/ fid \notin fids
      BY <2>1, <2>5, <2>6, <2>7, <3>1, Zenon DEF NoFidHeld
    <3> QED BY <2>4, <3>1, <3>2, Zenon
  <2>9. CASE server_answer(h)
    <3>1. rx'.type = stage
      <4>1. \E n : rx' = [type |-> tx.type, tag |-> tx.tag, n |-> n]
        BY <2>5, <2>9, Zenon DEF server_answer
      <4> QED BY <2>5, <4>1
    <3>2. fids' \in CASE tx.type = "version" -> {{}}
                      [] tx.type = "attach" -> {fids \cup {tx.to}}
                      [] tx.type = "walk" -> {fids, fids \cup {tx.to}}
                      [] tx.type = "clunk" -> {fids \ {tx.to}}
                      [] OTHER -> {fids}
      BY <2>5, <2>9, Zenon DEF server_answer
    <3>3. CASE stage = "clunk"
      <4>1. fids' = fids \ {fid}
        BY <2>5, <3>2, <3>3, Zenon
      <4> QED BY <2>4, <3>1, <4>1, Zenon
    <3>4. CASE stage \in {"version", "attach"}
      <4>1. fid = ROOT /\ fids' \subseteq fids \cup {fid}
        BY <2>4, <2>5, <3>2, <3>4, Zenon
      <4> QED BY <2>4, <3>1, <4>1, Zenon
    <3>5. CASE stage = "walk"
      <4>1. fids' \subseteq fids \cup {fid}
        BY <2>5, <3>2, <3>5, Zenon
      <4>2. NoFidHeld' => ~Got'
        BY <2>1, <3>1, <3>5, Zenon DEF NoFidHeld
      <4>3. Got'
        <5>1. used_idx' = (used_idx + 1) % IDX
          BY <2>9, Zenon DEF server_answer, dev_complete
        <5>2. used_idx' # used_idx
          BY <5>1, IndexMoves, Zenon DEF FidsAll, P9Inv
        <5> QED BY <2>1, <2>5, <5>2, Zenon DEF Got
      <4> QED BY <2>4, <3>1, <4>1, <4>2, <4>3, Zenon
    <3>6. CASE stage \notin {"version", "attach", "walk", "clunk"}
      <4>1. fids' = fids
        BY <2>5, <3>2, <3>6, Zenon
      <4>2. NoFidHeld' => NoFidHeld
        BY <2>1, <3>6, Zenon DEF NoFidHeld
      <4> QED BY <2>4, <3>1, <4>1, <4>2, Zenon
    <3> QED BY <3>3, <3>4, <3>5, <3>6, Zenon
  <2> QED BY <2>8, <2>9, Zenon
<1> SUFFICES ASSUME FidsAll, [Next]_vars PROVE FidsInv'
  BY Zenon
<1>1. CASE p9_change_directory \/ p9_list_directory \/ p9_read_file \/ complete_path
  BY <1>1, <1>FidsCall, Zenon
<1>2. CASE p9_rpc_send
  BY <1>2, <1>FidsSend, Zenon
<1>3. CASE \/ after_version \/ after_attach \/ after_walk \/ after_open
           \/ after_readdir \/ after_getattr \/ after_read \/ after_clunk
  BY <1>3, <1>FidsAfter, Zenon
<1>4. CASE \E h \in DOMAIN taken : server_refuse(h) \/ server_answer(h)
  BY <1>4, <1>FidsServer, Zenon
<1>5. CASE p9_rpc_receive
  <2>1. /\ pc = "wait" /\ pc' = "replied" /\ last_used_idx # used_idx
        /\ UNCHANGED <<fids, gave_up, op, fid, stage, tx, rx>>
    BY <1>5, Zenon DEF p9_rpc_receive, virtqueue_get_buf, Completion
  <2>2. Got /\ Got'
    BY <2>1, Zenon DEF Got
  <2>3. NoFidHeld' => NoFidHeld
    BY <2>1, <2>2, Zenon DEF NoFidHeld
  <2> QED BY <2>1, <2>2, <2>3, Zenon DEF FidsAll, FidsInv
<1>6. CASE p9_rpc_timeout
  BY <1>6, Zenon DEF p9_rpc_timeout, FidsAll, FidsInv
<1>7. CASE device_take \/ UNCHANGED vars
  <2>1. UNCHANGED <<fids, gave_up, op, fid, stage, pc, tx, rx, used_idx, last_used_idx>>
    BY <1>7, Zenon DEF device_take, dev_take, vars, client, vqVars, driver, device
  <2> QED BY <2>1, Zenon DEF FidsAll, FidsInv, NoFidHeld, Got
<1> QED BY <1>1, <1>2, <1>3, <1>4, <1>5, <1>6, <1>7, Zenon DEF Next, Client
-----------------------------------------------------------------------------
\* What the proofs about the queue use of the library and of NumberLemmas: numbers have a
\* least one, indices wrap at IDX, which is a multiple of the queue's size, and sets of
\* descriptors are finite.  The library comes in where this is proved, at the end.
LeastNumber == \A S \in SUBSET Nat : S # {} => \E x \in S : \A y \in S : x <= y

RingMoves ==
  \A a, b \in 0 .. IDX - 1 :
    /\ (a + 1) % IDX \in 0 .. IDX - 1
    /\ (a - b) % IDX \in 0 .. IDX - 1
    /\ ((a - b) % IDX) + 1 < IDX => (((a + 1) % IDX) - b) % IDX = ((a - b) % IDX) + 1
    /\ a # b => /\ (a - b) % IDX > 0
                /\ (a - ((b + 1) % IDX)) % IDX = ((a - b) % IDX) - 1
    /\ (a - b) % IDX > 0 => a # b

RingSlots ==
  \A a, b \in 0 .. IDX - 1 : \A i \in Int :
    /\ (a + i) % NUM \in Descs
    /\ (((a + 1) % IDX) + i) % NUM = (a + (i + 1)) % NUM
    /\ (b + ((a - b) % IDX)) % NUM = a % NUM

RingApart == \A b \in Int : \A i, j \in 0 .. NUM - 1 : (b + i) % NUM = (b + j) % NUM => i = j

Counting ==
  /\ Cardinality({}) = 0
  /\ \A S \in SUBSET Descs :
       /\ IsFiniteSet(S) /\ Cardinality(S) \in Nat
       /\ S # {} => Cardinality(S) # 0
       /\ \A x \in Descs \ S : Cardinality(S \cup {x}) = Cardinality(S) + 1
       /\ \A x \in S : Cardinality(S \ {x}) = Cardinality(S) - 1

Library == LeastNumber /\ RingMoves /\ RingSlots /\ RingApart /\ Counting
-----------------------------------------------------------------------------
\* Follow, for any table of next fields.
Walk(nx, d, k) == LET at[i \in 1 .. NUM] == nx[IF i = 1 THEN d ELSE at[i - 1]]
                  IN  IF k = 0 THEN d ELSE at[k]

LEMMA FollowWalk == \A d, k : Follow(d, k) = Walk(next, d, k)
BY Zenon DEF Follow, Walk

\* It goes from descriptor to descriptor.  Its recursive function exists, since there is
\* no least length at which it does not.
LEMMA WalkStep ==
  ASSUME Library, NEW nx, NEW d
  PROVE  /\ Walk(nx, d, 0) = d
         /\ \A k \in 0 .. NUM - 1 : Walk(nx, d, k + 1) = nx[Walk(nx, d, k)]
<1> DEFINE P(n) == \E f : f = [i \in 1 .. n |-> nx[IF i = 1 THEN d ELSE f[i - 1]]]
           S == {n \in Nat : ~P(n)}
<1>1. NUM \in Nat \ {0}
  BY VirtqueueAssumption, Zenon
<1>2. ASSUME S # {} PROVE FALSE
  <2>1. PICK n \in S : \A y \in S : n <= y
    <3>1. S \in SUBSET Nat
      BY Zenon
    <3> HIDE DEF S
    <3> QED BY <1>2, <3>1, Zenon DEF Library, LeastNumber
  <2>2. P(0)
    <3> DEFINE f == [i \in 1 .. 0 |-> 0]
    <3>1. f = [i \in 1 .. 0 |-> nx[IF i = 1 THEN d ELSE f[i - 1]]]
      OBVIOUS
    <3> QED BY <3>1, Zenon
  <2>3. n \in Nat /\ n # 0
    BY <2>2, Zenon
  <2>4. n - 1 \in Nat /\ n - 1 \notin S
    <3> HIDE DEF S
    <3>1. n - 1 \in Nat /\ ~(n <= n - 1)
      BY <2>3
    <3> QED BY <2>1, <3>1, Zenon
  <2>5. PICK f : f = [i \in 1 .. n - 1 |-> nx[IF i = 1 THEN d ELSE f[i - 1]]]
    BY <2>4, Zenon
  <2> DEFINE g == [i \in 1 .. n |-> nx[IF i = 1 THEN d ELSE f[i - 1]]]
  <2>6. \A i \in 1 .. n - 1 : g[i] = f[i]
    <3> TAKE i \in 1 .. n - 1
    <3>1. f[i] = nx[IF i = 1 THEN d ELSE f[i - 1]]
      BY <2>5, Zenon
    <3>2. g[i] = nx[IF i = 1 THEN d ELSE f[i - 1]]
      BY <2>3
    <3> QED BY <3>1, <3>2, Zenon
  <2>7. \A i \in 1 .. n : i = 1 \/ i - 1 \in 1 .. n - 1
    BY <2>3
  <2>8. g = [i \in 1 .. n |-> nx[IF i = 1 THEN d ELSE g[i - 1]]]
    BY <2>6, <2>7, Zenon
  <2>9. P(n)
    BY <2>8, Zenon
  <2> QED BY <2>9, Zenon
<1>3. P(NUM)
  BY <1>1, <1>2, Zenon
<1> DEFINE At == CHOOSE at : at = [i \in 1 .. NUM |-> nx[IF i = 1 THEN d ELSE at[i - 1]]]
<1>4. At = [i \in 1 .. NUM |-> nx[IF i = 1 THEN d ELSE At[i - 1]]]
  BY <1>3, Zenon
<1>5. \A k : Walk(nx, d, k) = IF k = 0 THEN d ELSE At[k]
  BY Zenon DEF Walk
<1> HIDE DEF At
<1>6. \A k \in 0 .. NUM - 1 : At[k + 1] = nx[IF k = 0 THEN d ELSE At[k]]
  <2> TAKE k \in 0 .. NUM - 1
  <2>1. k + 1 \in 1 .. NUM /\ (k + 1 = 1 <=> k = 0) /\ (k + 1) - 1 = k
    BY <1>1
  <2>2. At[k + 1] = nx[IF k + 1 = 1 THEN d ELSE At[(k + 1) - 1]]
    BY <1>4, <2>1, Zenon
  <2> QED BY <2>1, <2>2, Zenon
<1>7. \A k \in 0 .. NUM - 1 : k + 1 # 0
  BY <1>1
<1> QED BY <1>5, <1>6, <1>7, Zenon

\* Two tables agree on n descriptors of a walk, from the m-th on.
Agree(nx, ny, d, m, n) ==
  \A i \in 0 .. n - 1 : ny[Walk(nx, d, m + i)] = nx[Walk(nx, d, m + i)]

\* The walks coincide, one from its m-th descriptor on and the other from its k-th.
Together(nx, ny, d, e, m, k, n) ==
  \A i \in 0 .. n - 1 : Walk(ny, e, k + i) = Walk(nx, d, m + i)

\* Two walks that have met stay together as long as the tables agree.
LEMMA WalksTogether ==
  ASSUME Library, NEW nx, NEW ny, NEW d, NEW e, NEW k \in Nat, NEW m \in Nat, NEW n \in Nat,
         k + n <= NUM, m + n <= NUM, Walk(ny, e, k) = Walk(nx, d, m), Agree(nx, ny, d, m, n)
  PROVE  Together(nx, ny, d, e, m, k, n)
<1> DEFINE S == {i \in 0 .. n - 1 : Walk(ny, e, k + i) # Walk(nx, d, m + i)}
<1>1. SUFFICES ASSUME S # {} PROVE FALSE
  BY Zenon DEF Together
<1>2. NUM \in Nat
  BY VirtqueueAssumption, Zenon
<1>3. PICK i \in S : \A y \in S : i <= y
  <2>1. S \in SUBSET Nat
    OBVIOUS
  <2> HIDE DEF S
  <2> QED BY <1>1, <2>1, Zenon DEF Library, LeastNumber
<1>4. i \in 0 .. n - 1 /\ i # 0
  BY <1>3
<1>5. i - 1 \in 0 .. n - 1 /\ i - 1 \notin S
  <2>1. i - 1 \in 0 .. n - 1 /\ ~(i <= i - 1)
    BY <1>4
  <2> HIDE DEF S
  <2> QED BY <1>3, <2>1, Zenon
<1>6. Walk(ny, e, k + (i - 1)) = Walk(nx, d, m + (i - 1))
  BY <1>5, Zenon
<1>7. /\ k + (i - 1) \in 0 .. NUM - 1 /\ (k + (i - 1)) + 1 = k + i
      /\ m + (i - 1) \in 0 .. NUM - 1 /\ (m + (i - 1)) + 1 = m + i
  BY <1>2, <1>4
<1>8. /\ Walk(ny, e, k + i) = ny[Walk(ny, e, k + (i - 1))]
      /\ Walk(nx, d, m + i) = nx[Walk(nx, d, m + (i - 1))]
  <2>1. \A j \in 0 .. NUM - 1 : Walk(ny, e, j + 1) = ny[Walk(ny, e, j)]
    BY WalkStep
  <2>2. \A j \in 0 .. NUM - 1 : Walk(nx, d, j + 1) = nx[Walk(nx, d, j)]
    BY WalkStep
  <2> QED BY <1>7, <2>1, <2>2, Zenon
<1>9. Walk(ny, e, k + i) = Walk(nx, d, m + i)
  BY <1>5, <1>6, <1>8, Zenon DEF Agree
<1> QED BY <1>3, <1>9, Zenon
-----------------------------------------------------------------------------
\* The n entries of a ring from index b on, and that no two are the same.
Entries(r, b, n) == {r[(b + i) % NUM] : i \in 0 .. n - 1}

Distinct(r, b, n) == \A i, j \in 0 .. n - 1 : r[(b + i) % NUM] = r[(b + j) % NUM] => i = j

\* Indices and rings without the arithmetic: the index after a, how far b is behind a,
\* and a ring with v at index a.
Succ(a) == (a + 1) % IDX

Behind(a, b) == (a - b) % IDX

Put(r, a, v) == [r EXCEPT ![a % NUM] = v]

First(r, b) == r[b % NUM]

\* A ring that is not full takes one more entry at its end, over none of its entries.
LEMMA PushEntries ==
  ASSUME Library, NEW r \in [Descs -> Descs], NEW a \in 0 .. IDX - 1, NEW b \in 0 .. IDX - 1,
         NEW n \in 0 .. NUM - 1, n = Behind(a, b), NEW v \in Descs,
         Distinct(r, b, n), v \notin Entries(r, b, n)
  PROVE  /\ Put(r, a, v) \in [Descs -> Descs]
         /\ Succ(a) \in 0 .. IDX - 1 /\ Behind(Succ(a), b) = n + 1
         /\ Entries(Put(r, a, v), b, n + 1) = Entries(r, b, n) \cup {v}
         /\ Distinct(Put(r, a, v), b, n + 1)
<1> DEFINE at(i) == (b + i) % NUM
           s == [r EXCEPT ![a % NUM] = v]
<1>1. NUM \in Nat \ {0} /\ IDX \in Nat \ {0} /\ IDX > NUM
  BY VirtqueueAssumption, Zenon
<1>2. Succ(a) \in 0 .. IDX - 1 /\ Behind(Succ(a), b) = n + 1
  <2>1. n + 1 < IDX
    BY <1>1
  <2> QED BY <2>1, Zenon DEF Library, RingMoves, Succ, Behind
<1>3. \A i \in 0 .. n : at(i) \in Descs
  BY DEF Library, RingSlots
<1>4. at(n) = a % NUM
  BY DEF Library, RingSlots, Behind
<1>5. \A i \in 0 .. n : at(i) = at(n) => i = n
  <2> TAKE i \in 0 .. n
  <2>1. i \in 0 .. NUM - 1 /\ b \in Int
    BY <1>1
  <2> QED BY <2>1, Zenon DEF Library, RingApart
<1> HIDE DEF at
<1>6. s \in [Descs -> Descs] /\ s[at(n)] = v
  BY <1>3, <1>4
<1>7. \A i \in 0 .. n - 1 : s[at(i)] = r[at(i)] /\ s[at(i)] # v
  <2> TAKE i \in 0 .. n - 1
  <2>1. at(i) # at(n) /\ at(i) \in Descs
    BY <1>3, <1>5
  <2>2. r[at(i)] \in Entries(r, b, n)
    BY Zenon DEF Entries, at
  <2> QED BY <1>4, <2>1, <2>2, Zenon
<1> HIDE DEF s
<1>8. 0 .. (n + 1) - 1 = (0 .. n - 1) \cup {n}
  BY <1>1
<1>9. Entries(s, b, n + 1) = {s[at(i)] : i \in 0 .. (n + 1) - 1}
  BY Zenon DEF Entries, at
<1>10. Entries(r, b, n) = {r[at(i)] : i \in 0 .. n - 1}
  BY Zenon DEF Entries, at
<1>11. Entries(s, b, n + 1) = Entries(r, b, n) \cup {v}
  BY <1>6, <1>7, <1>8, <1>9, <1>10
<1>12. \A i, j \in 0 .. n - 1 : s[at(i)] = s[at(j)] => i = j
  <2>1. \A i, j \in 0 .. n - 1 : r[at(i)] = r[at(j)] => i = j
    BY Zenon DEF Distinct, at
  <2> QED BY <1>7, <2>1, Zenon
<1>13. \A i, j \in 0 .. (n + 1) - 1 : s[at(i)] = s[at(j)] => i = j
  BY <1>6, <1>7, <1>8, <1>12, Zenon
<1>14. Distinct(s, b, n + 1)
  BY <1>13, Zenon DEF Distinct, at
<1> QED BY <1>2, <1>6, <1>11, <1>14, Zenon DEF s, Put

\* A ring that is not empty gives up its first entry.
LEMMA PopEntries ==
  ASSUME Library, NEW r, NEW a \in 0 .. IDX - 1, NEW b \in 0 .. IDX - 1, a # b,
         NEW n \in 0 .. NUM, n = Behind(a, b), Distinct(r, b, n)
  PROVE  /\ Succ(b) \in 0 .. IDX - 1 /\ Behind(a, Succ(b)) = n - 1 /\ n - 1 \in Nat
         /\ Entries(r, Succ(b), n - 1) = Entries(r, b, n) \ {First(r, b)}
         /\ Distinct(r, Succ(b), n - 1)
         /\ First(r, b) \in Entries(r, b, n)
<1> DEFINE c == (b + 1) % IDX
           at(i) == (b + i) % NUM
<1>1. NUM \in Nat \ {0} /\ IDX \in Nat \ {0}
  BY VirtqueueAssumption, Zenon
<1>2. c \in 0 .. IDX - 1 /\ (a - c) % IDX = n - 1 /\ n - 1 \in Nat
  BY DEF Library, RingMoves, Behind
<1>3. \A i \in Int : (c + i) % NUM = at(i + 1)
  BY Zenon DEF Library, RingSlots
<1>4. at(0) = b % NUM
  OBVIOUS
<1> HIDE DEF at, c
<1>5. Entries(r, c, n - 1) = {r[at(i + 1)] : i \in 0 .. (n - 1) - 1}
  BY <1>2, <1>3 DEF Entries
<1>6. Entries(r, b, n) = {r[at(i)] : i \in 0 .. n - 1}
  BY Zenon DEF Entries, at
<1>7. \A i, j \in 0 .. n - 1 : r[at(i)] = r[at(j)] => i = j
  BY Zenon DEF Distinct, at
<1>8. \A i \in 0 .. (n - 1) - 1 : i + 1 \in 0 .. n - 1 /\ i + 1 # 0
  BY <1>2
<1>9. \A i \in 0 .. n - 1 : i # 0 => i - 1 \in 0 .. (n - 1) - 1 /\ (i - 1) + 1 = i
  BY <1>2
<1>10. 0 \in 0 .. n - 1
  BY <1>2
<1>11. Entries(r, c, n - 1) \subseteq Entries(r, b, n) \ {r[at(0)]}
  BY <1>5, <1>6, <1>7, <1>8, <1>10, Zenon
<1>12. Entries(r, b, n) \ {r[at(0)]} \subseteq Entries(r, c, n - 1)
  <2> SUFFICES ASSUME NEW x \in Entries(r, b, n), x # r[at(0)]
               PROVE  x \in Entries(r, c, n - 1)
    BY Zenon
  <2>1. PICK i \in 0 .. n - 1 : x = r[at(i)]
    BY <1>6, Zenon
  <2>2. i # 0
    BY <2>1, Zenon
  <2>3. i - 1 \in 0 .. (n - 1) - 1 /\ x = r[at((i - 1) + 1)]
    BY <1>9, <2>1, <2>2, Zenon
  <2> QED BY <1>5, <2>3, Zenon
<1>13. Distinct(r, c, n - 1)
  <2> SUFFICES ASSUME NEW i \in 0 .. (n - 1) - 1, NEW j \in 0 .. (n - 1) - 1,
                      r[(c + i) % NUM] = r[(c + j) % NUM]
               PROVE  i = j
    BY Zenon DEF Distinct
  <2>1. r[at(i + 1)] = r[at(j + 1)]
    BY <1>3
  <2>2. i + 1 = j + 1
    BY <1>7, <1>8, <2>1, Zenon
  <2> QED BY <2>2
<1>14. r[at(0)] \in Entries(r, b, n)
  BY <1>6, <1>10, Zenon
<1> QED BY <1>2, <1>4, <1>11, <1>12, <1>13, <1>14, Zenon DEF c, Succ, Behind, First
-----------------------------------------------------------------------------
\* What the places of the chains say about the rings.
LEMMA PlaceFacts ==
  ASSUME Library, PlacesInv
  PROVE  /\ NUM \in Nat \ {0} /\ num_free \in Nat
         /\ Waiting = Behind(avail_idx, dev_seen) /\ Done = Behind(used_idx, last_used_idx)
         /\ Waiting \in 0 .. NUM /\ Done \in 0 .. NUM
         /\ IsFiniteSet(DOMAIN taken) /\ Cardinality(DOMAIN taken) \in Nat
         /\ num_free + 2 * (Waiting + Cardinality(DOMAIN taken) + Done) = NUM
         /\ WaitingHeads = Entries(avail, dev_seen, Waiting)
         /\ DoneHeads = Entries(used, last_used_idx, Done)
         /\ Distinct(avail, dev_seen, Waiting) /\ Distinct(used, last_used_idx, Done)
         /\ dev_seen \in 0 .. IDX - 1 /\ avail_idx \in 0 .. IDX - 1
         /\ last_used_idx \in 0 .. IDX - 1 /\ used_idx \in 0 .. IDX - 1
<1>1. NUM \in Nat \ {0} /\ IDX \in Nat \ {0}
  BY VirtqueueAssumption, Zenon
<1>2. num_free \in Nat /\ DOMAIN taken \subseteq 0 .. NUM - 1
  BY <1>1 DEF PlacesInv, VqTypeOK, Descs
<1>3. /\ dev_seen \in 0 .. IDX - 1 /\ avail_idx \in 0 .. IDX - 1
      /\ last_used_idx \in 0 .. IDX - 1 /\ used_idx \in 0 .. IDX - 1
  BY Zenon DEF PlacesInv, VqTypeOK
<1>4. /\ Waiting = Behind(avail_idx, dev_seen) /\ Done = Behind(used_idx, last_used_idx)
      /\ Waiting \in Nat /\ Done \in Nat
  BY <1>1, <1>3 DEF Library, RingMoves, Waiting, Done, Behind
<1>5. IsFiniteSet(DOMAIN taken) /\ Cardinality(DOMAIN taken) \in Nat
  BY <1>2, Zenon DEF Library, Counting, Descs
<1>6. num_free + 2 * (Waiting + Cardinality(DOMAIN taken) + Done) = NUM
  BY Zenon DEF PlacesInv
<1>7. Waiting \in 0 .. NUM /\ Done \in 0 .. NUM
  BY <1>1, <1>2, <1>4, <1>5, <1>6
<1>8. /\ WaitingHeads = Entries(avail, dev_seen, Waiting)
      /\ DoneHeads = Entries(used, last_used_idx, Done)
  BY Zenon DEF WaitingHeads, DoneHeads, Entries
<1>9. Distinct(avail, dev_seen, Waiting) /\ Distinct(used, last_used_idx, Done)
  BY Zenon DEF PlacesInv, Distinct, WaitingHead, DoneHead
<1> QED BY <1>1, <1>2, <1>3, <1>4, <1>5, <1>6, <1>7, <1>8, <1>9, Zenon

\* The invariant of the places, from its parts after a step.
LEMMA PlacesNext ==
  ASSUME VqTypeOK', Distinct(avail', dev_seen', Waiting'),
         Distinct(used', last_used_idx', Done'),
         WaitingHeads' \cap DoneHeads' = {},
         DOMAIN taken' \cap (WaitingHeads' \cup DoneHeads') = {},
         num_free' + 2 * (Waiting' + Cardinality(DOMAIN taken') + Done') = NUM
  PROVE  PlacesInv'
BY Zenon DEF PlacesInv, Distinct, WaitingHead, DoneHead

\* Posting a chain puts its head at the end of the available ring.
LEMMA PlacesAdd ==
  ASSUME Library, PlacesInv, virtqueue_add_chain(2), free_head \notin Posted
  PROVE  PlacesInv' /\ Posted' = Posted \cup {free_head}
<1> DEFINE last == Follow(free_head, 1)
<1>1. NUM \in Nat \ {0} /\ VqTypeOK
  BY PlaceFacts, Zenon DEF PlacesInv
<1>2. last = next[free_head] /\ last \in Descs
  <2>1. /\ Walk(next, free_head, 0) = free_head
        /\ Walk(next, free_head, 0 + 1) = next[Walk(next, free_head, 0)]
    BY <1>1, WalkStep
  <2> QED BY <1>1, <2>1, FollowWalk DEF VqTypeOK
<1>3. /\ num_free >= 2
      /\ next' = [next EXCEPT ![Follow(free_head, 2 - 1)] = 0]
      /\ free_head' = next[Follow(free_head, 2 - 1)]
      /\ num_free' = num_free - 2
      /\ avail' = [avail EXCEPT ![avail_idx % NUM] = free_head]
      /\ avail_idx' = (avail_idx + 1) % IDX
      /\ UNCHANGED <<last_used_idx, device>>
  BY Zenon DEF virtqueue_add_chain, Slot
<1>4. chained' = [d \in Descs |-> \/ d \in {Follow(free_head, i) : i \in 0 .. 2 - 2}
                                  \/ d # Follow(free_head, 2 - 1) /\ chained[d]]
  BY Zenon DEF virtqueue_add_chain
<1>5. chained' \in [Descs -> BOOLEAN]
  BY <1>4, Zenon
<1> HIDE DEF last
<1>6. /\ next' = [next EXCEPT ![last] = 0] /\ free_head' = next[last]
      /\ UNCHANGED <<last_used_idx, used, used_idx, dev_seen, taken>>
  BY <1>3 DEF last, device
<1>7. next' \in [Descs -> Descs] /\ free_head' \in Descs
  BY <1>1, <1>2, <1>6 DEF VqTypeOK, Descs
<1>8. num_free' \in 0 .. NUM
  BY <1>1, <1>3 DEF VqTypeOK
<1>9. Waiting \in 0 .. NUM - 1
  BY <1>3, PlaceFacts
<1>10. /\ avail' \in [Descs -> Descs] /\ avail_idx' \in 0 .. IDX - 1
       /\ Behind(avail_idx', dev_seen) = Waiting + 1
       /\ Entries(avail', dev_seen, Waiting + 1) = WaitingHeads \cup {free_head}
       /\ Distinct(avail', dev_seen, Waiting + 1)
  <2>1. free_head \notin Entries(avail, dev_seen, Waiting)
    BY PlaceFacts, Zenon DEF Posted
  <2>2. avail \in [Descs -> Descs] /\ free_head \in Descs
    BY <1>1, Zenon DEF VqTypeOK
  <2>3. /\ avail_idx \in 0 .. IDX - 1 /\ dev_seen \in 0 .. IDX - 1
        /\ Waiting = Behind(avail_idx, dev_seen) /\ Distinct(avail, dev_seen, Waiting)
        /\ WaitingHeads = Entries(avail, dev_seen, Waiting)
    BY PlaceFacts, Zenon
  <2>4. avail' = Put(avail, avail_idx, free_head) /\ avail_idx' = Succ(avail_idx)
    BY <1>3, Zenon DEF Put, Succ
  <2> QED BY <1>9, <2>1, <2>2, <2>3, <2>4, PushEntries
<1>11. Waiting' = Waiting + 1 /\ Done' = Done
  BY <1>6, <1>10, Zenon DEF Waiting, Done, Behind
<1>12. WaitingHeads' = WaitingHeads \cup {free_head} /\ DoneHeads' = DoneHeads
  BY <1>6, <1>10, <1>11, Zenon DEF WaitingHeads, DoneHeads, Entries
<1>13. VqTypeOK'
  BY <1>1, <1>5, <1>6, <1>7, <1>8, <1>10 DEF VqTypeOK
<1>14. Distinct(avail', dev_seen', Waiting') /\ Distinct(used', last_used_idx', Done')
  BY <1>6, <1>10, <1>11, PlaceFacts, Zenon
<1>15. /\ WaitingHeads' \cap DoneHeads' = {}
       /\ DOMAIN taken' \cap (WaitingHeads' \cup DoneHeads') = {}
  BY <1>6, <1>12 DEF PlacesInv, Posted
<1>16. num_free' + 2 * (Waiting' + Cardinality(DOMAIN taken') + Done') = NUM
  BY <1>3, <1>6, <1>11, PlaceFacts
<1>17. PlacesInv'
  BY <1>13, <1>14, <1>15, <1>16, PlacesNext, Zenon
<1> QED BY <1>6, <1>12, <1>17, Zenon DEF Posted

\* The device takes the chain at the front of the available ring.
LEMMA PlacesTake ==
  ASSUME Library, PlacesInv, NEW q, dev_take(q)
  PROVE  PlacesInv' /\ Posted' = Posted
<1> DEFINE h == avail[dev_seen % NUM]
<1>1. /\ dev_seen # avail_idx /\ h \notin DOMAIN taken
      /\ DOMAIN taken' = DOMAIN taken \cup {h}
      /\ dev_seen' = (dev_seen + 1) % IDX
      /\ UNCHANGED <<next, chained, free_head, num_free, last_used_idx, avail, avail_idx>>
      /\ UNCHANGED <<used, used_idx>>
  BY Zenon DEF dev_take, driver
<1> HIDE DEF h
<1>2. /\ dev_seen' \in 0 .. IDX - 1 /\ Behind(avail_idx, dev_seen') = Waiting - 1
      /\ Waiting - 1 \in Nat
      /\ Entries(avail, dev_seen', Waiting - 1) = WaitingHeads \ {h}
      /\ Distinct(avail, dev_seen', Waiting - 1) /\ h \in WaitingHeads
  <2>1. /\ avail_idx \in 0 .. IDX - 1 /\ dev_seen \in 0 .. IDX - 1
        /\ Waiting = Behind(avail_idx, dev_seen) /\ Distinct(avail, dev_seen, Waiting)
        /\ WaitingHeads = Entries(avail, dev_seen, Waiting) /\ Waiting \in 0 .. NUM
    BY PlaceFacts, Zenon
  <2>2. dev_seen' = Succ(dev_seen) /\ h = First(avail, dev_seen)
    BY <1>1, Zenon DEF Succ, First, h
  <2> QED BY <1>1, <2>1, <2>2, PopEntries
<1>3. Waiting' = Waiting - 1 /\ Done' = Done
  BY <1>1, <1>2, Zenon DEF Waiting, Done, Behind
<1>4. WaitingHeads' = WaitingHeads \ {h} /\ DoneHeads' = DoneHeads
  BY <1>1, <1>2, <1>3, Zenon DEF WaitingHeads, DoneHeads, Entries
<1>5. h \in Descs
  <2>1. dev_seen % NUM \in Descs
    BY PlaceFacts DEF Descs
  <2> QED BY <2>1, Zenon DEF PlacesInv, VqTypeOK, h
<1>6. VqTypeOK'
  BY <1>1, <1>2, <1>5, Zenon DEF VqTypeOK, PlacesInv
<1>7. Distinct(avail', dev_seen', Waiting') /\ Distinct(used', last_used_idx', Done')
  BY <1>1, <1>2, <1>3, PlaceFacts, Zenon
<1>8. /\ WaitingHeads' \cap DoneHeads' = {}
      /\ DOMAIN taken' \cap (WaitingHeads' \cup DoneHeads') = {}
  BY <1>1, <1>2, <1>4 DEF PlacesInv
<1>9. Cardinality(DOMAIN taken') = Cardinality(DOMAIN taken) + 1
  BY <1>1, <1>5 DEF Library, Counting, PlacesInv, VqTypeOK
<1>10. num_free' + 2 * (Waiting' + Cardinality(DOMAIN taken') + Done') = NUM
  BY <1>1, <1>3, <1>9, PlaceFacts
<1>11. PlacesInv'
  BY <1>6, <1>7, <1>8, <1>10, PlacesNext, Zenon
<1> QED BY <1>1, <1>2, <1>4, <1>11, Zenon DEF Posted

\* The device puts a chain it is done with at the end of the used ring.
LEMMA PlacesComplete ==
  ASSUME Library, PlacesInv, NEW h, dev_complete(h)
  PROVE  PlacesInv' /\ Posted' = Posted
<1>1. /\ h \in DOMAIN taken
      /\ DOMAIN taken' = DOMAIN taken \ {h}
      /\ used' = [used EXCEPT ![used_idx % NUM] = h]
      /\ used_idx' = (used_idx + 1) % IDX
      /\ UNCHANGED <<next, chained, free_head, num_free, last_used_idx, avail, avail_idx>>
      /\ UNCHANGED dev_seen
  BY Zenon DEF dev_complete, driver
<1>2. Cardinality(DOMAIN taken') = Cardinality(DOMAIN taken) - 1
  BY <1>1 DEF Library, Counting, PlacesInv, VqTypeOK
<1>3. Cardinality(DOMAIN taken) >= 1
  <2>1. Cardinality(DOMAIN taken') \in Nat
    BY <1>1, Zenon DEF Library, Counting, PlacesInv, VqTypeOK
  <2> QED BY <1>2, <2>1, PlaceFacts
<1>4. Done \in 0 .. NUM - 1
  BY <1>3, PlaceFacts
<1>5. /\ used' \in [Descs -> Descs] /\ used_idx' \in 0 .. IDX - 1
      /\ Behind(used_idx', last_used_idx) = Done + 1
      /\ Entries(used', last_used_idx, Done + 1) = DoneHeads \cup {h}
      /\ Distinct(used', last_used_idx, Done + 1)
  <2>1. h \notin Entries(used, last_used_idx, Done)
    BY <1>1, PlaceFacts, Zenon DEF PlacesInv
  <2>2. used \in [Descs -> Descs] /\ h \in Descs
    BY <1>1, Zenon DEF PlacesInv, VqTypeOK
  <2>3. /\ used_idx \in 0 .. IDX - 1 /\ last_used_idx \in 0 .. IDX - 1
        /\ Done = Behind(used_idx, last_used_idx) /\ Distinct(used, last_used_idx, Done)
        /\ DoneHeads = Entries(used, last_used_idx, Done)
    BY PlaceFacts, Zenon
  <2>4. used' = Put(used, used_idx, h) /\ used_idx' = Succ(used_idx)
    BY <1>1, Zenon DEF Put, Succ
  <2> QED BY <1>4, <2>1, <2>2, <2>3, <2>4, PushEntries
<1>6. Waiting' = Waiting /\ Done' = Done + 1
  BY <1>1, <1>5, Zenon DEF Waiting, Done, Behind
<1>7. WaitingHeads' = WaitingHeads /\ DoneHeads' = DoneHeads \cup {h}
  <2>1. DoneHeads' = Entries(used', last_used_idx', Done')
    BY Zenon DEF DoneHeads, Entries
  <2>2. WaitingHeads' = WaitingHeads
    BY <1>1, <1>6, Zenon DEF WaitingHeads
  <2> QED BY <1>1, <1>5, <1>6, <2>1, <2>2, Zenon
<1>8. VqTypeOK'
  BY <1>1, <1>5 DEF VqTypeOK, PlacesInv
<1>9. Distinct(avail', dev_seen', Waiting') /\ Distinct(used', last_used_idx', Done')
  BY <1>1, <1>5, <1>6, PlaceFacts, Zenon
<1>10. /\ WaitingHeads' \cap DoneHeads' = {}
       /\ DOMAIN taken' \cap (WaitingHeads' \cup DoneHeads') = {}
  BY <1>1, <1>7 DEF PlacesInv
<1>11. num_free' + 2 * (Waiting' + Cardinality(DOMAIN taken') + Done') = NUM
  BY <1>1, <1>2, <1>6, PlaceFacts
<1>12. PlacesInv'
  BY <1>8, <1>9, <1>10, <1>11, PlacesNext, Zenon
<1> QED BY <1>1, <1>7, <1>12, Zenon DEF Posted

\* The driver takes a completion of a chain of two from the front of the used ring.
LEMMA PlacesGet ==
  ASSUME Library, PlacesInv, last_used_idx # used_idx,
         last_used_idx' = (last_used_idx + 1) % IDX, num_free' = num_free + 2,
         next' \in [Descs -> Descs], free_head' \in Descs,
         UNCHANGED <<chained, avail, avail_idx, device>>
  PROVE  /\ PlacesInv' /\ Posted' = Posted \ {used[last_used_idx % NUM]}
         /\ used[last_used_idx % NUM] \in Posted
<1> DEFINE h == used[last_used_idx % NUM]
<1>1. UNCHANGED <<chained, avail, avail_idx, used, used_idx, dev_seen, taken>>
  BY Zenon DEF device
<1> HIDE DEF h
<1>2. /\ last_used_idx' \in 0 .. IDX - 1 /\ Behind(used_idx, last_used_idx') = Done - 1
      /\ Done - 1 \in Nat
      /\ Entries(used, last_used_idx', Done - 1) = DoneHeads \ {h}
      /\ Distinct(used, last_used_idx', Done - 1) /\ h \in DoneHeads
  <2>1. /\ used_idx \in 0 .. IDX - 1 /\ last_used_idx \in 0 .. IDX - 1
        /\ Done = Behind(used_idx, last_used_idx) /\ Distinct(used, last_used_idx, Done)
        /\ DoneHeads = Entries(used, last_used_idx, Done) /\ Done \in 0 .. NUM
    BY PlaceFacts, Zenon
  <2>2. last_used_idx' = Succ(last_used_idx) /\ h = First(used, last_used_idx)
    BY Zenon DEF Succ, First, h
  <2> QED BY <2>1, <2>2, PopEntries
<1>3. Waiting' = Waiting /\ Done' = Done - 1
  BY <1>1, <1>2, Zenon DEF Waiting, Done, Behind
<1>4. WaitingHeads' = WaitingHeads /\ DoneHeads' = DoneHeads \ {h}
  BY <1>1, <1>2, <1>3, Zenon DEF WaitingHeads, DoneHeads, Entries
<1>5. num_free' + 2 * (Waiting' + Cardinality(DOMAIN taken') + Done') = NUM
  BY <1>1, <1>2, <1>3, PlaceFacts
<1>6. num_free' \in 0 .. NUM
  BY <1>1, <1>2, <1>3, <1>5, PlaceFacts
<1>7. VqTypeOK'
  BY <1>1, <1>2, <1>6, Zenon DEF VqTypeOK, PlacesInv
<1>8. Distinct(avail', dev_seen', Waiting') /\ Distinct(used', last_used_idx', Done')
  BY <1>1, <1>2, <1>3, PlaceFacts, Zenon
<1>9. /\ WaitingHeads' \cap DoneHeads' = {}
      /\ DOMAIN taken' \cap (WaitingHeads' \cup DoneHeads') = {}
  BY <1>1, <1>4, Zenon DEF PlacesInv
<1>10. PlacesInv'
  BY <1>5, <1>7, <1>8, <1>9, PlacesNext, Zenon
<1> QED BY <1>1, <1>2, <1>4, <1>10 DEF Posted, h, PlacesInv
-----------------------------------------------------------------------------
\* A chain of two descriptors.
LEMMA ChainOfTwo ==
  ASSUME Library, VqTypeOK, NEW h \in Descs, next[h] # h, chained[h], ~chained[next[h]]
  PROVE  /\ Follow(h, 0) = h /\ Follow(h, 1) = next[h]
         /\ ChainLen(h) = 2 /\ Chain(h) = {h, next[h]}
<1>1. NUM \in Nat /\ next[h] \in 0 .. NUM - 1 /\ h \in 0 .. NUM - 1
  BY VirtqueueAssumption, Zenon DEF VqTypeOK, Descs
<1>2. NUM >= 2
  BY <1>1
<1>3. Follow(h, 0) = h /\ Follow(h, 1) = next[h]
  <2>1. Walk(next, h, 0) = h /\ Walk(next, h, 0 + 1) = next[Walk(next, h, 0)]
    BY <1>1, WalkStep
  <2> QED BY <2>1, FollowWalk
<1> DEFINE Q(n) == /\ ~chained[Follow(h, n - 1)]
                   /\ \A i \in 1 .. n - 1 : chained[Follow(h, i - 1)]
<1>4. Q(2)
  BY <1>3
<1>5. \A n \in 1 .. NUM : Q(n) => n = 2
  <2> SUFFICES ASSUME NEW n \in 1 .. NUM, Q(n) PROVE n = 2
    BY Zenon
  <2>1. n # 1
    BY <1>3
  <2>2. ~(2 \in 1 .. n - 1)
    BY <1>3
  <2> QED BY <1>1, <2>1, <2>2
<1>6. ChainLen(h) = CHOOSE n \in 1 .. NUM : Q(n)
  BY Zenon DEF ChainLen
<1> HIDE DEF Q
<1>7. ChainLen(h) = 2
  BY <1>1, <1>2, <1>4, <1>5, <1>6
<1>8. 0 .. 2 - 1 = {0, 1}
  OBVIOUS
<1> QED BY <1>3, <1>7, <1>8 DEF Chain

\* The free list and the posted chains, in a form without Follow.
LEMMA ChainFacts ==
  ASSUME Library, PlacesInv, ChainsInv
  PROVE  /\ NUM \in Nat \ {0} /\ num_free \in 0 .. NUM /\ VqTypeOK
         /\ Posted \subseteq Descs
         /\ Free = {Walk(next, free_head, i) : i \in 0 .. num_free - 1}
         /\ \A i, j \in 0 .. num_free - 1 :
              Walk(next, free_head, i) = Walk(next, free_head, j) => i = j
         /\ \A i \in 0 .. num_free - 1 : Walk(next, free_head, i) \in Free
         /\ Walk(next, free_head, 0) = free_head
         /\ Free \subseteq Descs
<1>1. NUM \in Nat \ {0} /\ num_free \in 0 .. NUM /\ VqTypeOK
  BY VirtqueueAssumption, Zenon DEF PlacesInv, VqTypeOK
<1>2. Free = {Walk(next, free_head, i) : i \in 0 .. num_free - 1}
  BY FollowWalk, Zenon DEF Free
<1>3. \A i, j \in 0 .. num_free - 1 :
        Walk(next, free_head, i) = Walk(next, free_head, j) => i = j
  BY FollowWalk, Zenon DEF ChainsInv
<1>4. Posted \subseteq Descs /\ Free \subseteq Descs
  BY Zenon DEF ChainsInv
<1>5. Walk(next, free_head, 0) = free_head
  BY WalkStep, Zenon
<1> QED BY <1>1, <1>2, <1>3, <1>4, <1>5, Zenon

\* The invariant of the chains, from its parts after a step.
LEMMA ChainsNext ==
  ASSUME NEW F, F = {Walk(next', free_head', i) : i \in 0 .. num_free' - 1},
         \A i, j \in 0 .. num_free' - 1 :
           Walk(next', free_head', i) = Walk(next', free_head', j) => i = j,
         NEW P, P = Posted',
         \A h \in P : /\ next'[h] # h /\ chained'[h] /\ ~chained'[next'[h]]
                      /\ h \notin F /\ next'[h] \notin F,
         \A g, h \in P : g # h => next'[g] # h /\ next'[g] # next'[h],
         F \cup P \cup {next'[h] : h \in P} = Descs
  PROVE  ChainsInv'
<1>1. \A i : Follow(free_head, i)' = Walk(next', free_head', i)
  BY Zenon DEF Follow, Walk
<1>2. Free' = F
  BY <1>1 DEF Free
<1> QED BY <1>1, <1>2, Zenon DEF ChainsInv
-----------------------------------------------------------------------------
\* What posting a chain of two does: it takes the first two free descriptors.
LEMMA AddEffect ==
  ASSUME Library, VqTypeOK, virtqueue_add_chain(2)
  PROVE  LET last == next[free_head]
         IN  /\ num_free >= 2 /\ num_free' = num_free - 2
             /\ next' = [next EXCEPT ![last] = 0] /\ free_head' = next[last]
             /\ chained' = [d \in Descs |-> d = free_head \/ (d # last /\ chained[d])]
<1>1. Follow(free_head, 0) = free_head /\ Follow(free_head, 1) = next[free_head]
  <2>1. NUM \in Nat \ {0}
    BY VirtqueueAssumption, Zenon
  <2>2. /\ Walk(next, free_head, 0) = free_head
        /\ Walk(next, free_head, 0 + 1) = next[Walk(next, free_head, 0)]
    BY <2>1, WalkStep
  <2> QED BY <2>2, FollowWalk
<1>2. /\ num_free >= 2 /\ num_free' = num_free - 2
      /\ next' = [next EXCEPT ![Follow(free_head, 2 - 1)] = 0]
      /\ free_head' = next[Follow(free_head, 2 - 1)]
      /\ chained' = [d \in Descs |-> \/ d \in {Follow(free_head, i) : i \in 0 .. 2 - 2}
                                     \/ d # Follow(free_head, 2 - 1) /\ chained[d]]
  BY Zenon DEF virtqueue_add_chain
<1>3. {Follow(free_head, i) : i \in 0 .. 2 - 2} = {free_head} /\ 2 - 1 = 1
  <2>1. 0 .. 2 - 2 = {0}
    OBVIOUS
  <2> QED BY <1>1, <2>1
<1> QED BY <1>1, <1>2, <1>3, Zenon

\* Before the post the first two free descriptors are in no chain.
LEMMA AddFree ==
  ASSUME Library, PlacesInv, ChainsInv, num_free >= 2
  PROVE  /\ free_head \in Free /\ next[free_head] \in Free
         /\ free_head = Walk(next, free_head, 0)
         /\ next[free_head] = Walk(next, free_head, 1)
         /\ next[next[free_head]] = Walk(next, free_head, 2)
         /\ free_head # next[free_head]
<1>1. /\ NUM \in Nat \ {0} /\ num_free \in 0 .. NUM
      /\ Walk(next, free_head, 0) = free_head
      /\ \A i \in 0 .. num_free - 1 : Walk(next, free_head, i) \in Free
      /\ \A i, j \in 0 .. num_free - 1 :
              Walk(next, free_head, i) = Walk(next, free_head, j) => i = j
  BY ChainFacts, Zenon
<1>2. \A k \in 0 .. NUM - 1 : Walk(next, free_head, k + 1) = next[Walk(next, free_head, k)]
  BY WalkStep, Zenon
<1>3. 0 \in 0 .. NUM - 1 /\ 1 \in 0 .. NUM - 1 /\ 0 + 1 = 1 /\ 1 + 1 = 2
  BY <1>1
<1>4. Walk(next, free_head, 1) = next[free_head]
  BY <1>1, <1>2, <1>3, Zenon
<1>5. Walk(next, free_head, 2) = next[next[free_head]]
  BY <1>2, <1>3, <1>4, Zenon
<1>6. 0 \in 0 .. num_free - 1 /\ 1 \in 0 .. num_free - 1
  BY <1>1
<1>7. free_head \in Free /\ next[free_head] \in Free
  BY <1>1, <1>4, <1>6, Zenon
<1>8. free_head # next[free_head]
  BY <1>1, <1>4, <1>6
<1> QED BY <1>1, <1>4, <1>5, <1>7, <1>8, Zenon

\* Posting a chain keeps the descriptors apart.
LEMMA ChainsAdd ==
  ASSUME Library, PlacesInv, ChainsInv, virtqueue_add_chain(2), Posted' = Posted \cup {free_head}
  PROVE  ChainsInv'
<1> DEFINE last == next[free_head]
           W(i) == Walk(next, free_head, i)
           V(i) == Walk(next', free_head', i)
           F == {V(i) : i \in 0 .. num_free' - 1}
<1>1. /\ NUM \in Nat \ {0} /\ num_free \in 0 .. NUM /\ VqTypeOK
      /\ Posted \subseteq Descs /\ Free \subseteq Descs
      /\ Free = {W(i) : i \in 0 .. num_free - 1}
      /\ \A i, j \in 0 .. num_free - 1 : W(i) = W(j) => i = j
  BY ChainFacts, Zenon
<1>2. /\ num_free >= 2 /\ num_free' = num_free - 2
      /\ next' = [next EXCEPT ![last] = 0] /\ free_head' = next[last]
      /\ chained' = [d \in Descs |-> d = free_head \/ (d # last /\ chained[d])]
  BY <1>1, AddEffect, Zenon
<1>3. /\ free_head \in Free /\ last \in Free /\ free_head # last
      /\ free_head = W(0) /\ last = W(1) /\ free_head' = W(2)
  BY <1>2, AddFree, Zenon
<1>4. next \in [Descs -> Descs]
  BY <1>1, Zenon DEF VqTypeOK
<1>5. \A d \in Descs : /\ d # last => next'[d] = next[d]
                       /\ chained'[d] <=> (d = free_head \/ (d # last /\ chained[d]))
  BY <1>2, <1>4, Zenon
<1>6. \A i \in 0 .. num_free' - 1 : V(i) = W(2 + i)
  <2>1. V(0) = W(2)
    BY <1>3, WalkStep, Zenon
  <2>2. \A i \in 0 .. num_free' - 1 : next'[W(2 + i)] = next[W(2 + i)]
    <3> TAKE i \in 0 .. num_free' - 1
    <3>1. 2 + i \in 0 .. num_free - 1 /\ 2 + i # 1 /\ 1 \in 0 .. num_free - 1
      BY <1>1, <1>2
    <3> HIDE DEF W
    <3>2. W(2 + i) # last /\ W(2 + i) \in Descs
      BY <1>1, <1>3, <3>1, Zenon
    <3> QED BY <1>5, <3>2, Zenon
  <2>3. num_free' \in Nat /\ 0 + num_free' <= NUM /\ 2 + num_free' <= NUM
    BY <1>1, <1>2
  <2>4. Agree(next, next', free_head, 2, num_free')
    BY <2>2, Zenon DEF Agree
  <2>5. \A i \in 0 .. num_free' - 1 : V(0 + i) = W(2 + i)
    <3>1. Together(next, next', free_head, free_head', 2, 0, num_free')
      BY <2>1, <2>3, <2>4, WalksTogether, Zenon
    <3> QED BY <3>1, Zenon DEF Together
  <2> HIDE DEF V, W
  <2>6. \A i \in 0 .. num_free' - 1 : 0 + i = i
    BY <2>3
  <2> QED BY <2>5, <2>6, Zenon
<1> HIDE DEF W, V
<1>7. \A i \in 0 .. num_free' - 1 : 2 + i \in 0 .. num_free - 1 /\ 2 + i # 0 /\ 2 + i # 1
  BY <1>1, <1>2
<1>8. \A i, j \in 0 .. num_free' - 1 : V(i) = V(j) => i = j
  <2> SUFFICES ASSUME NEW i \in 0 .. num_free' - 1, NEW j \in 0 .. num_free' - 1,
                      V(i) = V(j)
               PROVE  i = j
    BY Zenon
  <2>1. W(2 + i) = W(2 + j)
    BY <1>6, Zenon
  <2>2. 2 + i = 2 + j
    BY <1>1, <1>7, <2>1, Zenon
  <2> QED BY <2>2
<1>9. F = Free \ {free_head, last}
  <2>1. ASSUME NEW i \in 0 .. num_free' - 1
        PROVE  V(i) \in Free \ {free_head, last}
    <3>1. V(i) = W(2 + i) /\ 2 + i \in 0 .. num_free - 1 /\ 2 + i # 0 /\ 2 + i # 1
      BY <1>6, <1>7, Zenon
    <3>2. 0 \in 0 .. num_free - 1 /\ 1 \in 0 .. num_free - 1
      BY <1>1, <1>2
    <3> QED BY <1>1, <1>3, <3>1, <3>2, Zenon
  <2>2. ASSUME NEW x \in Free, x # free_head, x # last
        PROVE  x \in F
    <3>1. PICK i \in 0 .. num_free - 1 : x = W(i)
      BY <1>1, Zenon
    <3>2. i # 0 /\ i # 1
      BY <1>3, <2>2, <3>1, Zenon
    <3>3. i - 2 \in 0 .. num_free' - 1 /\ 2 + (i - 2) = i
      BY <1>1, <1>2, <3>2
    <3>4. x = V(i - 2)
      BY <1>6, <3>1, <3>3, Zenon
    <3> QED BY <3>3, <3>4, Zenon
  <2> QED BY <2>1, <2>2, Zenon
<1>10. \A i, j \in 0 .. num_free' - 1 :
         Walk(next', free_head', i) = Walk(next', free_head', j) => i = j
  BY <1>8, Zenon DEF V
<1>11. F = {Walk(next', free_head', i) : i \in 0 .. num_free' - 1}
  BY Zenon DEF V
<1> HIDE DEF F
<1>12. ASSUME NEW h \in Posted
       PROVE  /\ h \in Descs /\ h # free_head /\ h # last /\ next'[h] = next[h]
              /\ next[h] \in Descs /\ next[h] # free_head /\ next[h] # last
              /\ next'[h] # h /\ chained'[h] /\ ~chained'[next'[h]]
              /\ h \notin F /\ next'[h] \notin F
  <2>1. /\ next[h] # h /\ chained[h] /\ ~chained[next[h]]
        /\ h \notin Free /\ next[h] \notin Free
    BY Zenon DEF ChainsInv
  <2>2. h \in Descs /\ next[h] \in Descs
    BY <1>1, <1>4, Zenon
  <2>3. h # free_head /\ h # last /\ next[h] # free_head /\ next[h] # last
    BY <1>3, <2>1, Zenon
  <2>4. next'[h] = next[h]
    BY <1>5, <2>2, <2>3, Zenon
  <2>5. chained'[h] /\ ~chained'[next[h]]
    BY <1>5, <2>1, <2>2, <2>3, Zenon
  <2> QED BY <1>9, <2>1, <2>2, <2>3, <2>4, <2>5, Zenon
<1>13. /\ free_head \in Descs /\ last \in Descs /\ next'[free_head] = last
       /\ chained'[free_head] /\ ~chained'[last]
       /\ free_head \notin F /\ last \notin F
  <2>1. free_head \in Descs /\ last \in Descs
    BY <1>1, <1>3, Zenon
  <2>2. next'[free_head] = last /\ chained'[free_head] /\ ~chained'[last]
    BY <1>3, <1>5, <2>1, Zenon
  <2> QED BY <1>9, <2>1, <2>2, Zenon
<1> HIDE DEF last
<1>14. \A h \in Posted' : /\ next'[h] # h /\ chained'[h] /\ ~chained'[next'[h]]
                          /\ h \notin F /\ next'[h] \notin F
  BY <1>3, <1>12, <1>13, Zenon
<1>15. \A g, h \in Posted' : g # h => next'[g] # h /\ next'[g] # next'[h]
  <2> SUFFICES ASSUME NEW g \in Posted', NEW h \in Posted', g # h
               PROVE  next'[g] # h /\ next'[g] # next'[h]
    BY Zenon
  <2>1. CASE g \in Posted /\ h \in Posted
    BY <1>12, <2>1, Zenon DEF ChainsInv
  <2>2. CASE g = free_head /\ h \in Posted
    BY <1>12, <1>13, <2>2, Zenon
  <2>3. CASE g \in Posted /\ h = free_head
    BY <1>12, <1>13, <2>3, Zenon
  <2> QED BY <2>1, <2>2, <2>3, Zenon
<1>16. {next'[h] : h \in Posted'} = {next[h] : h \in Posted} \cup {last}
  <2>1. \A h \in Posted : next'[h] = next[h]
    BY <1>12, Zenon
  <2> QED BY <1>13, <2>1, Zenon
<1>17. F \cup Posted' \cup {next'[h] : h \in Posted'} = Descs
  <2>1. Free \cup Posted \cup {next[h] : h \in Posted} = Descs
    BY Zenon DEF ChainsInv
  <2> QED BY <1>3, <1>9, <1>16, <2>1, Zenon
<1> QED BY <1>10, <1>11, <1>14, <1>15, <1>17, ChainsNext, Zenon
-----------------------------------------------------------------------------
\* What taking a completion does: the chain of two goes to the front of the free list,
\* its second descriptor first.
LEMMA GetEffect ==
  ASSUME Library, PlacesInv, ChainsInv, virtqueue_get_buf
  PROVE  LET h == used[last_used_idx % NUM]
         IN  /\ h \in Posted /\ last_used_idx # used_idx
             /\ next' = [d \in Descs |-> IF d = h THEN free_head
                                         ELSE IF d = next[h] THEN h ELSE next[d]]
             /\ free_head' = next[h] /\ num_free' = num_free + 2
             /\ last_used_idx' = (last_used_idx + 1) % IDX
             /\ UNCHANGED <<chained, avail, avail_idx, device>>
<1> DEFINE h == used[last_used_idx % NUM]
<1>1. last_used_idx # used_idx
  BY Zenon DEF virtqueue_get_buf, Completion
<1>2. h \in Posted
  <2>1. /\ used_idx \in 0 .. IDX - 1 /\ last_used_idx \in 0 .. IDX - 1
        /\ Done = Behind(used_idx, last_used_idx) /\ Distinct(used, last_used_idx, Done)
        /\ DoneHeads = Entries(used, last_used_idx, Done) /\ Done \in 0 .. NUM
    BY PlaceFacts, Zenon
  <2>2. First(used, last_used_idx) \in DoneHeads
    BY <1>1, <2>1, PopEntries, Zenon
  <2> QED BY <2>2, Zenon DEF Posted, First
<1> HIDE DEF h
<1>3. /\ VqTypeOK /\ h \in Descs
      /\ next[h] # h /\ chained[h] /\ ~chained[next[h]]
  BY <1>2, ChainFacts, Zenon DEF ChainsInv
<1>4. Follow(h, 0) = h /\ Follow(h, 1) = next[h] /\ ChainLen(h) = 2
  BY <1>3, ChainOfTwo, Zenon
<1>5. /\ next' = [d \in Descs |->
                    IF d = h THEN free_head
                    ELSE IF \E i \in 1 .. ChainLen(h) - 1 : d = Follow(h, i)
                         THEN Follow(h, (CHOOSE i \in 1 .. ChainLen(h) - 1 :
                                           d = Follow(h, i)) - 1)
                         ELSE next[d]]
      /\ free_head' = Follow(h, ChainLen(h) - 1)
      /\ num_free' = num_free + ChainLen(h)
      /\ last_used_idx' = (last_used_idx + 1) % IDX
      /\ UNCHANGED <<chained, avail, avail_idx, device>>
  BY Zenon DEF virtqueue_get_buf, h
<1>6. 1 .. ChainLen(h) - 1 = {1} /\ ChainLen(h) - 1 = 1
  BY <1>4
<1>7. \A d : (\E i \in {1} : d = Follow(h, i)) <=> d = next[h]
  BY <1>4, Zenon
<1>8. \A d : d = next[h] => (CHOOSE i \in {1} : d = Follow(h, i)) = 1
  BY <1>4, Zenon
<1>9. next' = [d \in Descs |-> IF d = h THEN free_head
                               ELSE IF d = next[h] THEN h ELSE next[d]]
  <2> DEFINE G(d) == IF d = h THEN free_head
                     ELSE IF \E i \in {1} : d = Follow(h, i)
                          THEN Follow(h, (CHOOSE i \in {1} : d = Follow(h, i)) - 1)
                          ELSE next[d]
  <2>1. next' = [d \in Descs |-> G(d)]
    BY <1>5, <1>6, Zenon
  <2>2. 1 - 1 = 0
    OBVIOUS
  <2>3. \A d : G(d) = IF d = h THEN free_head ELSE IF d = next[h] THEN h ELSE next[d]
    BY <1>4, <1>7, <1>8, <2>2, Zenon
  <2> HIDE DEF G
  <2> QED BY <2>1, <2>3, Zenon
<1> QED BY <1>1, <1>2, <1>4, <1>5, <1>6, <1>9, Zenon DEF h

\* Taking a completion keeps the places and the descriptors apart.
LEMMA QueueGet ==
  ASSUME Library, PlacesInv, ChainsInv, virtqueue_get_buf
  PROVE  PlacesInv' /\ ChainsInv'
<1> DEFINE h == used[last_used_idx % NUM]
           second == next[h]
           W(i) == Walk(next, free_head, i)
           V(i) == Walk(next', free_head', i)
           F == {V(i) : i \in 0 .. num_free' - 1}
<1>1. /\ NUM \in Nat \ {0} /\ num_free \in 0 .. NUM /\ VqTypeOK
      /\ Posted \subseteq Descs /\ Free \subseteq Descs
      /\ Free = {W(i) : i \in 0 .. num_free - 1}
      /\ \A i, j \in 0 .. num_free - 1 : W(i) = W(j) => i = j
      /\ W(0) = free_head
  BY ChainFacts, Zenon
<1>2. /\ h \in Posted /\ last_used_idx # used_idx
      /\ next' = [d \in Descs |-> IF d = h THEN free_head
                                  ELSE IF d = second THEN h ELSE next[d]]
      /\ free_head' = second /\ num_free' = num_free + 2
      /\ last_used_idx' = (last_used_idx + 1) % IDX
      /\ UNCHANGED <<chained, avail, avail_idx, device>>
  BY GetEffect, Zenon
<1>3. next \in [Descs -> Descs] /\ free_head \in Descs
  BY <1>1, Zenon DEF VqTypeOK
<1>4. h \in Descs /\ second \in Descs /\ h # second /\ h \notin Free /\ second \notin Free
  BY <1>1, <1>2, <1>3, Zenon DEF ChainsInv
<1>5. next' \in [Descs -> Descs] /\ free_head' \in Descs
  BY <1>2, <1>3, <1>4, Zenon
<1>6. PlacesInv' /\ Posted' = Posted \ {h}
  BY <1>2, <1>5, PlacesGet, Zenon
<1>7. 2 + num_free <= NUM
  BY <1>2, <1>6 DEF PlacesInv, VqTypeOK
<1> HIDE DEF second
<1> HIDE DEF h
<1>8. /\ next'[h] = free_head /\ next'[second] = h
      /\ \A d \in Descs : d # h /\ d # second => next'[d] = next[d]
  BY <1>2, <1>4, Zenon
<1>9. V(0) = second /\ V(1) = h /\ V(2) = free_head
  <2>1. V(0) = second
    BY <1>2, WalkStep, Zenon
  <2>2. \A k \in 0 .. NUM - 1 : V(k + 1) = next'[V(k)]
    BY WalkStep, Zenon
  <2>3. 0 \in 0 .. NUM - 1 /\ 1 \in 0 .. NUM - 1 /\ 0 + 1 = 1 /\ 1 + 1 = 2
    BY <1>1, <1>7
  <2> HIDE DEF V
  <2>4. V(1) = h
    BY <1>8, <2>1, <2>2, <2>3, Zenon
  <2> QED BY <1>8, <2>1, <2>2, <2>3, <2>4, Zenon
<1>10. \A i \in 0 .. num_free - 1 : V(2 + i) = W(i)
  <2>1. V(2) = W(0)
    BY <1>1, <1>9, Zenon
  <2>2. \A i \in 0 .. num_free - 1 : next'[W(0 + i)] = next[W(0 + i)]
    <3> TAKE i \in 0 .. num_free - 1
    <3>1. 0 + i = i
      BY <1>1
    <3> HIDE DEF W
    <3>2. W(i) \in Free
      BY <1>1, Zenon
    <3>3. W(i) \in Descs /\ W(i) # h /\ W(i) # second
      BY <1>1, <1>4, <3>2, Zenon
    <3>4. next'[W(i)] = next[W(i)]
      BY <1>8, <3>3, Zenon
    <3> QED BY <3>1, <3>4, Zenon
  <2>3. num_free \in Nat /\ 0 + num_free <= NUM /\ 2 + num_free <= NUM
    BY <1>1, <1>7
  <2>4. Agree(next, next', free_head, 0, num_free)
    BY <2>2, Zenon DEF Agree
  <2>5. Together(next, next', free_head, free_head', 0, 2, num_free)
    BY <2>1, <2>3, <2>4, WalksTogether, Zenon
  <2>6. \A i \in 0 .. num_free - 1 : V(2 + i) = W(0 + i)
    BY <2>5, Zenon DEF Together
  <2> HIDE DEF V, W
  <2>7. \A i \in 0 .. num_free - 1 : 0 + i = i
    BY <2>3
  <2> QED BY <2>6, <2>7, Zenon
<1> HIDE DEF W, V
<1>11. \A i \in 0 .. num_free' - 1 :
         \/ i = 0 /\ V(i) = second
         \/ i = 1 /\ V(i) = h
         \/ i - 2 \in 0 .. num_free - 1 /\ V(i) = W(i - 2) /\ V(i) \in Free
  <2> TAKE i \in 0 .. num_free' - 1
  <2>1. i \in Nat /\ i < num_free + 2
    BY <1>1, <1>2
  <2>2. CASE i >= 2
    <3>1. i - 2 \in 0 .. num_free - 1 /\ 2 + (i - 2) = i
      BY <1>1, <2>1, <2>2
    <3>2. V(i) = W(i - 2)
      BY <1>10, <3>1, Zenon
    <3> QED BY <1>1, <3>1, <3>2, Zenon
  <2> QED BY <1>9, <2>1, <2>2
<1>12. \A i, j \in 0 .. num_free' - 1 : V(i) = V(j) => i = j
  <2> SUFFICES ASSUME NEW i \in 0 .. num_free' - 1, NEW j \in 0 .. num_free' - 1,
                      V(i) = V(j)
               PROVE  i = j
    BY Zenon
  <2>1. CASE i - 2 \in 0 .. num_free - 1 /\ j - 2 \in 0 .. num_free - 1
                /\ V(i) = W(i - 2) /\ V(j) = W(j - 2)
    <3>1. i - 2 = j - 2
      BY <1>1, <2>1, Zenon
    <3>2. i \in Int /\ j \in Int
      BY <1>1, <1>2
    <3> QED BY <3>1, <3>2
  <2> QED BY <1>4, <1>11, <2>1, Zenon
<1>13. F = Free \cup {h, second}
  <2>1. \A i \in 0 .. num_free' - 1 : V(i) \in Free \cup {h, second}
    BY <1>11, Zenon
  <2>2. h \in F /\ second \in F
    <3>1. 0 \in 0 .. num_free' - 1 /\ 1 \in 0 .. num_free' - 1
      BY <1>1, <1>2
    <3> QED BY <1>9, <3>1, Zenon
  <2>3. ASSUME NEW x \in Free PROVE x \in F
    <3>1. PICK i \in 0 .. num_free - 1 : x = W(i)
      BY <1>1, Zenon
    <3>2. 2 + i \in 0 .. num_free' - 1
      BY <1>1, <1>2
    <3> QED BY <1>10, <3>1, <3>2, Zenon
  <2> QED BY <2>1, <2>2, <2>3, Zenon
<1>14. \A i, j \in 0 .. num_free' - 1 :
         Walk(next', free_head', i) = Walk(next', free_head', j) => i = j
  BY <1>12, Zenon DEF V
<1>15. F = {Walk(next', free_head', i) : i \in 0 .. num_free' - 1}
  BY Zenon DEF V
<1> HIDE DEF F
<1>16. ASSUME NEW g \in Posted'
       PROVE  /\ g \in Posted /\ g # h /\ next'[g] = next[g]
              /\ next'[g] # g /\ chained'[g] /\ ~chained'[next'[g]]
              /\ g \notin F /\ next'[g] \notin F
  <2>1. g \in Posted /\ g # h
    BY <1>6, Zenon
  <2>2. /\ next[g] # g /\ chained[g] /\ ~chained[next[g]]
        /\ g \notin Free /\ next[g] \notin Free
    BY <2>1, Zenon DEF ChainsInv
  <2>3. g # second /\ next[g] # h /\ next[g] # second /\ g \in Descs
    BY <1>1, <1>2, <2>1, Zenon DEF ChainsInv, second
  <2>4. next'[g] = next[g]
    BY <1>8, <2>1, <2>3, Zenon
  <2> QED BY <1>2, <1>13, <2>1, <2>2, <2>3, <2>4, Zenon
<1>17. \A g, k \in Posted' : g # k => next'[g] # k /\ next'[g] # next'[k]
  BY <1>16, Zenon DEF ChainsInv
<1>18. F \cup Posted' \cup {next'[g] : g \in Posted'} = Descs
  <2>1. Free \cup Posted \cup {next[g] : g \in Posted} = Descs
    BY Zenon DEF ChainsInv
  <2>2. {next'[g] : g \in Posted'} \cup {second} = {next[g] : g \in Posted}
    <3>1. \A g \in Posted' : g \in Posted /\ next'[g] = next[g]
      BY <1>16, Zenon
    <3>2. Posted = Posted' \cup {h}
      BY <1>2, <1>6, Zenon
    <3> QED BY <3>1, <3>2, Zenon DEF second
  <2> QED BY <1>2, <1>6, <1>13, <2>1, <2>2, Zenon
<1>19. \A g \in Posted' : /\ next'[g] # g /\ chained'[g] /\ ~chained'[next'[g]]
                          /\ g \notin F /\ next'[g] \notin F
  BY <1>16, Zenon
<1> QED BY <1>6, <1>14, <1>15, <1>17, <1>18, <1>19, ChainsNext

\* The queue is in the state virtqueue_init leaves it in: all descriptors are free, in
\* order.
LEMMA QueueStart ==
  ASSUME Library
  PROVE  VqInit => QueueInv
<1> SUFFICES ASSUME VqInit PROVE PlacesInv /\ ChainsInv
  BY Zenon DEF QueueInv
<1>1. NUM \in Nat \ {0} /\ IDX \in Nat \ {0}
  BY VirtqueueAssumption, Zenon
<1>2. VqTypeOK
  <2>1. \A i \in Descs : (i + 1) % NUM \in Descs
    BY <1>1 DEF Descs
  <2>2. 0 \in Descs /\ 0 \in 0 .. IDX - 1
    BY <1>1 DEF Descs
  <2> QED BY <1>1, <2>1, <2>2 DEF VqInit, VqTypeOK
<1>3. Waiting = 0 /\ Done = 0
  BY <1>1 DEF VqInit, Waiting, Done
<1>4. WaitingHeads = {} /\ DoneHeads = {}
  BY <1>3 DEF WaitingHeads, DoneHeads
<1>5. DOMAIN taken = {} /\ num_free = NUM
  BY DEF VqInit
<1>6. PlacesInv
  BY <1>1, <1>2, <1>3, <1>4, <1>5 DEF Library, Counting, PlacesInv
<1>7. Posted = {}
  BY <1>4, <1>5, Zenon DEF Posted
<1> DEFINE S == {i \in Descs : Follow(free_head, i) # i}
<1>8. S = {}
  <2> SUFFICES ASSUME S # {} PROVE FALSE
    BY Zenon
  <2>1. PICK i \in S : \A y \in S : i <= y
    <3>1. S \in SUBSET Nat
      BY <1>1 DEF Descs
    <3> HIDE DEF S
    <3> QED BY <3>1, Zenon DEF Library, LeastNumber
  <2>2. Follow(free_head, 0) = 0
    BY FollowWalk, WalkStep, Zenon DEF VqInit
  <2>3. i \in 1 .. NUM - 1 /\ i \in Descs
    BY <1>1, <2>2 DEF Descs
  <2>4. i - 1 \in Descs /\ i - 1 \notin S /\ i - 1 \in 0 .. NUM - 1 /\ (i - 1) + 1 = i
    <3>1. i - 1 \in Descs /\ ~(i <= i - 1) /\ i - 1 \in 0 .. NUM - 1 /\ (i - 1) + 1 = i
      BY <1>1, <2>3 DEF Descs
    <3> HIDE DEF S
    <3> QED BY <2>1, <3>1, Zenon
  <2>5. Follow(free_head, i - 1) = i - 1
    BY <2>4, Zenon
  <2>6. \A k \in 0 .. NUM - 1 : Walk(next, free_head, k + 1) = next[Walk(next, free_head, k)]
    BY WalkStep, Zenon
  <2>7. Follow(free_head, i) = next[i - 1]
    BY <2>4, <2>5, <2>6, FollowWalk, Zenon
  <2>8. next[i - 1] = i
    <3>1. next[i - 1] = ((i - 1) + 1) % NUM
      BY <2>4, Zenon DEF VqInit
    <3>2. i % NUM = i
      BY <1>1, <2>3
    <3> QED BY <2>4, <3>1, <3>2, Zenon
  <2> QED BY <2>7, <2>8, Zenon
<1>9. \A i \in 0 .. num_free - 1 : Follow(free_head, i) = i
  BY <1>5, <1>8, Zenon DEF Descs
<1>10. Free = Descs
  BY <1>5, <1>9, Zenon DEF Free, Descs
<1>11. ChainsInv
  BY <1>7, <1>9, <1>10, Zenon DEF ChainsInv
<1> QED BY <1>6, <1>11, Zenon

\* A step that leaves the queue alone.
LEMMA QueueSame ==
  ASSUME Library
  PROVE  QueueInv /\ UNCHANGED vqVars => QueueInv'
<1> SUFFICES ASSUME PlacesInv, ChainsInv, UNCHANGED vqVars PROVE PlacesInv' /\ ChainsInv'
  BY Zenon DEF QueueInv
<1>1. /\ UNCHANGED <<next, chained, free_head, num_free, last_used_idx, avail, avail_idx>>
      /\ UNCHANGED <<used, used_idx, dev_seen, taken>>
  BY Zenon DEF vqVars, driver, device
<1>2. /\ Waiting' = Waiting /\ Done' = Done
      /\ WaitingHeads' = WaitingHeads /\ DoneHeads' = DoneHeads
  BY <1>1, Zenon DEF Waiting, Done, WaitingHeads, DoneHeads
<1>3. VqTypeOK'
  BY <1>1, Zenon DEF PlacesInv, VqTypeOK
<1>4. Distinct(avail', dev_seen', Waiting') /\ Distinct(used', last_used_idx', Done')
  BY <1>1, <1>2, PlaceFacts, Zenon
<1>5. PlacesInv'
  BY <1>1, <1>2, <1>3, <1>4, PlacesNext, Zenon DEF PlacesInv
<1>6. Posted' = Posted
  BY <1>1, <1>2, Zenon DEF Posted
<1>7. Free = {Walk(next', free_head', i) : i \in 0 .. num_free' - 1}
  BY <1>1, ChainFacts, Zenon
<1>8. \A i, j \in 0 .. num_free' - 1 :
         Walk(next', free_head', i) = Walk(next', free_head', j) => i = j
  BY <1>1, ChainFacts, Zenon
<1>9. /\ \A h \in Posted' : /\ next'[h] # h /\ chained'[h] /\ ~chained'[next'[h]]
                            /\ h \notin Free /\ next'[h] \notin Free
      /\ \A g, h \in Posted' : g # h => next'[g] # h /\ next'[g] # next'[h]
      /\ Free \cup Posted' \cup {next'[h] : h \in Posted'} = Descs
  BY <1>1, <1>6 DEF ChainsInv
<1>10. ChainsInv'
  BY <1>7, <1>8, <1>9, ChainsNext, Zenon
<1> QED BY <1>5, <1>10, Zenon

\* A device step moves a chain from one place to the next, and leaves the descriptors.
LEMMA QueueMove ==
  ASSUME Library, PlacesInv, ChainsInv, PlacesInv', Posted' = Posted, UNCHANGED driver
  PROVE  QueueInv'
<1>1. UNCHANGED <<next, chained, free_head, num_free>>
  BY Zenon DEF driver
<1>2. Free = {Walk(next', free_head', i) : i \in 0 .. num_free' - 1}
  BY <1>1, ChainFacts, Zenon
<1>3. \A i, j \in 0 .. num_free' - 1 :
         Walk(next', free_head', i) = Walk(next', free_head', j) => i = j
  BY <1>1, ChainFacts, Zenon
<1>4. /\ \A h \in Posted' : /\ next'[h] # h /\ chained'[h] /\ ~chained'[next'[h]]
                            /\ h \notin Free /\ next'[h] \notin Free
      /\ \A g, h \in Posted' : g # h => next'[g] # h /\ next'[g] # next'[h]
      /\ Free \cup Posted' \cup {next'[h] : h \in Posted'} = Descs
  BY <1>1 DEF ChainsInv
<1>5. ChainsInv'
  BY <1>2, <1>3, <1>4, ChainsNext, Zenon
<1> QED BY <1>5, Zenon DEF QueueInv

\* Every step of the client, the device and the server keeps the queue in order, a
\* p9_rpc that gave up included.
LEMMA QueueStep ==
  ASSUME Library
  PROVE  QueueInv /\ [Next]_vars => QueueInv'
<1> SUFFICES ASSUME PlacesInv, ChainsInv, QueueInv, [Next]_vars PROVE QueueInv'
  BY Zenon DEF QueueInv
<1>1. CASE p9_rpc_send
  <2>1. CASE virtqueue_add_chain(2)
    <3>1. VqTypeOK /\ num_free >= 2
      BY <2>1, AddEffect, Zenon DEF PlacesInv
    <3>2. free_head \notin Posted
      BY <3>1, AddFree, Zenon DEF ChainsInv
    <3>3. PlacesInv' /\ Posted' = Posted \cup {free_head}
      BY <2>1, <3>2, PlacesAdd, Zenon
    <3> QED BY <2>1, <3>3, ChainsAdd, Zenon DEF QueueInv
  <2>2. CASE UNCHANGED vqVars
    BY <2>2, QueueSame, Zenon
  <2> QED BY <1>1, <2>1, <2>2, Zenon DEF p9_rpc_send
<1>2. CASE p9_rpc_receive
  BY <1>2, QueueGet, Zenon DEF p9_rpc_receive, QueueInv
<1>3. CASE device_take
  <2>1. dev_take(tx) /\ UNCHANGED driver
    BY <1>3, Zenon DEF device_take, dev_take
  <2>2. PlacesInv' /\ Posted' = Posted
    BY <2>1, PlacesTake, Zenon
  <2> QED BY <2>1, <2>2, QueueMove, Zenon
<1>4. CASE \E h \in DOMAIN taken : server_refuse(h) \/ server_answer(h)
  <2>1. PICK h : dev_complete(h)
    BY <1>4, Zenon DEF server_refuse, server_answer
  <2>2. UNCHANGED driver
    BY <2>1, Zenon DEF dev_complete
  <2>3. PlacesInv' /\ Posted' = Posted
    BY <2>1, PlacesComplete, Zenon
  <2> QED BY <2>2, <2>3, QueueMove, Zenon
<1>5. CASE UNCHANGED vqVars
  BY <1>5, QueueSame, Zenon
<1>6. ASSUME \/ p9_change_directory \/ p9_list_directory \/ p9_read_file \/ complete_path
             \/ p9_rpc_timeout
             \/ after_version \/ after_attach \/ after_walk \/ after_open
             \/ after_readdir \/ after_getattr \/ after_read \/ after_clunk
             \/ UNCHANGED vars
      PROVE  UNCHANGED vqVars
  BY <1>6, Zenon DEF p9_change_directory, p9_list_directory, p9_read_file, complete_path,
     p9_call,
         p9_rpc_timeout, after_version, after_attach, after_walk, after_open,
         after_readdir, after_getattr, after_read, after_clunk, Same, vars
<1> QED BY <1>1, <1>2, <1>3, <1>4, <1>5, <1>6, Zenon DEF Next, Client
-----------------------------------------------------------------------------
INSTANCE NumberLemmas
INSTANCE FiniteSetTheorems

LEMMA LibraryHolds == Library
<1>1. NUM \in Nat \ {0} /\ IDX \in Nat \ {0} /\ Divides(NUM, IDX)
  BY VirtqueueAssumption, Zenon DEF Divides
<1>2. LeastNumber
  BY LeastNat, Zenon DEF LeastNumber
<1>3. RingMoves
  BY <1>1, WrapMoves, Zenon DEF RingMoves
<1>4. RingSlots
  <2>1. NUM \in Nat \ {0}
    BY <1>1, Zenon
  <2>2. IDX \in Nat \ {0}
    BY <1>1, Zenon
  <2>3. Divides(NUM, IDX)
    BY <1>1, Zenon
  <2>4. \A x, y \in 0 .. IDX - 1 : \A j \in Int :
          /\ (x + j) % NUM \in 0 .. NUM - 1
          /\ (((x + 1) % IDX) + j) % NUM = (x + (j + 1)) % NUM
          /\ (y + ((x - y) % IDX)) % NUM = x % NUM
    BY <2>1, <2>2, <2>3, WrapSlots, Zenon
  <2> QED BY <2>4, Zenon DEF RingSlots, Descs
<1>5. RingApart
  BY <1>1, RestApart, Zenon DEF RingApart
<1>6. Counting
  <2>1. Cardinality({}) = 0
    BY FS_EmptySet, Zenon
  <2>2. ASSUME NEW S \in SUBSET Descs
        PROVE  /\ IsFiniteSet(S) /\ Cardinality(S) \in Nat
               /\ S # {} => Cardinality(S) # 0
               /\ \A x \in Descs \ S : Cardinality(S \cup {x}) = Cardinality(S) + 1
               /\ \A x \in S : Cardinality(S \ {x}) = Cardinality(S) - 1
    <3>1. IsFiniteSet(Descs)
      BY <1>1, FS_Interval DEF Descs
    <3>2. IsFiniteSet(S)
      BY <3>1, FS_Subset, Zenon
    <3> QED BY <3>2, FS_CardinalityType, FS_EmptySet, FS_AddElement, FS_RemoveElement, Zenon
  <2> QED BY <2>1, <2>2, Zenon DEF Counting
<1> QED BY <1>2, <1>3, <1>4, <1>5, <1>6, Zenon DEF Library

\* The descriptors of the queue are accounted for, whatever times out.
THEOREM P9Queue == Spec => []QueueInv
<1>1. Init => QueueInv
  BY QueueStart, LibraryHolds, Zenon DEF Init
<1>2. QueueInv /\ [Next]_vars => QueueInv'
  BY QueueStep, LibraryHolds, Zenon
<1> QED BY <1>1, <1>2, PTL DEF Spec

\* The elements of a list, and that it has no repetition.
Listed(f, n) == {f[i] : i \in 0 .. n - 1}

NoRepeat(f, n) == \A i, j \in 0 .. n - 1 : f[i] = f[j] => i = j

\* A list without repetition has as many elements as its length.
LEMMA CountDistinct ==
  ASSUME NEW n \in Nat, NEW f, NoRepeat(f, n)
  PROVE  IsFiniteSet(Listed(f, n)) /\ Cardinality(Listed(f, n)) = n
<1> DEFINE T == Listed(f, n)
           g == [i \in 0 .. n - 1 |-> f[i]]
<1>1. /\ g \in [0 .. n - 1 -> T]
      /\ \A i, j \in 0 .. n - 1 : g[i] = g[j] => i = j
      /\ \A t \in T : \E i \in 0 .. n - 1 : g[i] = t
  BY Zenon DEF Listed, NoRepeat
<1>2. IsFiniteSet(0 .. n - 1) /\ Cardinality(0 .. n - 1) = n
  BY FS_Interval
<1> HIDE DEF T, g
<1>3. g \in Surjection(0 .. n - 1, T) /\ g \in Injection(0 .. n - 1, T)
  BY <1>1, Zenon DEF Surjection, Injection, IsInjective
<1>4. IsFiniteSet(T) /\ Cardinality(T) = Cardinality(0 .. n - 1)
  BY <1>2, <1>3, FS_Surjection, Zenon
<1> QED BY <1>2, <1>4, Zenon DEF T

\* Neither ring is overrun: every posted chain is in exactly one place.
THEOREM P9RingsSound == Spec => []RingsSound
<1>1. ASSUME PlacesInv PROVE RingsSound
  <2>1. /\ Waiting \in Nat /\ Done \in Nat
        /\ IsFiniteSet(DOMAIN taken) /\ Cardinality(DOMAIN taken) \in Nat
    BY <1>1, PlaceFacts, LibraryHolds
  <2>2. IsFiniteSet(WaitingHeads) /\ Cardinality(WaitingHeads) = Waiting
    <3> DEFINE f == [i \in 0 .. Waiting - 1 |-> WaitingHead(i)]
    <3>1. NoRepeat(f, Waiting)
      BY <1>1, Zenon DEF PlacesInv, NoRepeat
    <3>2. WaitingHeads = Listed(f, Waiting)
      BY Zenon DEF WaitingHeads, WaitingHead, Listed
    <3> HIDE DEF f
    <3> QED BY <2>1, <3>1, <3>2, CountDistinct, Zenon
  <2>3. IsFiniteSet(DoneHeads) /\ Cardinality(DoneHeads) = Done
    <3> DEFINE f == [i \in 0 .. Done - 1 |-> DoneHead(i)]
    <3>1. NoRepeat(f, Done)
      BY <1>1, Zenon DEF PlacesInv, NoRepeat
    <3>2. DoneHeads = Listed(f, Done)
      BY Zenon DEF DoneHeads, DoneHead, Listed
    <3> HIDE DEF f
    <3> QED BY <2>1, <3>1, <3>2, CountDistinct, Zenon
  <2> DEFINE U == WaitingHeads \cup DOMAIN taken
  <2>4. WaitingHeads \cap DOMAIN taken = {} /\ U \cap DoneHeads = {}
    BY <1>1, Zenon DEF PlacesInv
  <2>5. IsFiniteSet(U) /\ Cardinality(U) = Waiting + Cardinality(DOMAIN taken)
    BY <2>1, <2>2, <2>4, FS_Union, FS_EmptySet
  <2> HIDE DEF U
  <2>6. Cardinality(U \cup DoneHeads) = Waiting + Cardinality(DOMAIN taken) + Done
    <3>1. Cardinality(U \cup DoneHeads) =
            Cardinality(U) + Cardinality(DoneHeads) - Cardinality(U \cap DoneHeads)
      BY <2>3, <2>5, FS_Union, Zenon
    <3>2. Cardinality(U \cap DoneHeads) = 0
      BY <2>4, FS_EmptySet, Zenon
    <3> QED BY <2>1, <2>3, <2>5, <3>1, <3>2
  <2> QED BY <2>6, Zenon DEF RingsSound, Posted, U
<1> QED BY <1>1, P9Queue, PTL DEF QueueInv

\* No descriptor is lost, and none is reused while the device may still write through it.
THEOREM P9DescriptorsConserved == Spec => []DescriptorsConserved
<1>1. ASSUME PlacesInv, ChainsInv PROVE DescriptorsConserved
  <2>1. Cardinality(Free) = num_free
    <3> DEFINE f == [i \in 0 .. num_free - 1 |-> Follow(free_head, i)]
    <3>0. num_free \in Nat
      BY <1>1, PlaceFacts, LibraryHolds, Zenon
    <3>1. NoRepeat(f, num_free)
      BY <1>1, Zenon DEF ChainsInv, NoRepeat
    <3>2. Free = Listed(f, num_free)
      BY Zenon DEF Free, Listed
    <3> HIDE DEF f
    <3> QED BY <3>0, <3>1, <3>2, CountDistinct, Zenon
  <2>2. \A h \in Posted : Chain(h) = {h, next[h]}
    BY <1>1, ChainFacts, ChainOfTwo, LibraryHolds, Zenon DEF ChainsInv
  <2>3. \A h \in Posted : /\ Chain(h) \cap Free = {}
                          /\ \A g \in Posted \ {h} : Chain(g) \cap Chain(h) = {}
    <3> SUFFICES ASSUME NEW h \in Posted
                 PROVE  /\ Chain(h) \cap Free = {}
                        /\ \A g \in Posted \ {h} : Chain(g) \cap Chain(h) = {}
      BY Zenon
    <3>1. Chain(h) \cap Free = {}
      BY <1>1, <2>2 DEF ChainsInv
    <3>2. ASSUME NEW g \in Posted \ {h} PROVE Chain(g) \cap Chain(h) = {}
      <4>1. next[g] # h /\ next[g] # next[h] /\ next[h] # g
        BY <1>1, Zenon DEF ChainsInv
      <4> QED BY <2>2, <4>1, Zenon
    <3> QED BY <3>1, <3>2, Zenon
  <2>4. UNION {Chain(h) : h \in Posted} = Posted \cup {next[h] : h \in Posted}
    BY <2>2
  <2>5. Free \cup UNION {Chain(h) : h \in Posted} = Descs
    BY <1>1, <2>4, Zenon DEF ChainsInv
  <2> QED BY <2>1, <2>3, <2>5, Zenon DEF DescriptorsConserved, Free
<1> QED BY <1>1, P9Queue, PTL DEF QueueInv

\* The client and the queue keep their types: p9_read never returns more than is left of
\* the buffer of p9_read_file, and the ring indices and descriptors stay in range.
THEOREM P9TypeCorrect == Spec => []TypeOK
<1>1. Spec => []TypesInv
  BY TypesStart, TypesStep, PTL DEF Spec
<1>2. TypesInv /\ QueueInv => TypeOK
  BY Zenon DEF TypesInv, ClientTypeOK, QueueInv, PlacesInv, TypeOK
<1> QED BY <1>1, <1>2, P9Queue, PTL

\* What the queue does for the fids of the server.
LEMMA QueueGives == QueueInv => QueueFacts
<1> SUFFICES ASSUME PlacesInv PROVE QueueFacts
  BY Zenon DEF QueueInv
<1>1. /\ num_free \in Nat /\ Waiting \in Nat /\ Done \in Nat
      /\ Cardinality(DOMAIN taken) \in Nat
      /\ num_free + 2 * (Waiting + Cardinality(DOMAIN taken) + Done) = NUM
  BY PlaceFacts, LibraryHolds
<1>2. ASSUME Quiet PROVE num_free = NUM
  <2>1. Waiting = 0 /\ Done = 0
    <3>1. /\ dev_seen \in 0 .. IDX - 1 /\ used_idx \in 0 .. IDX - 1
          /\ avail_idx = dev_seen /\ last_used_idx = used_idx
      BY <1>2, PlaceFacts, LibraryHolds, Zenon DEF Quiet
    <3> QED BY <3>1, VirtqueueAssumption, WrapDistance DEF Waiting, Done
  <2>2. Cardinality(DOMAIN taken) = 0
    BY <1>2, FS_EmptySet, Zenon DEF Quiet
  <2> QED BY <1>1, <2>1, <2>2
<1>3. ASSUME DOMAIN taken # {} PROVE NUM >= 2
  <2>1. Cardinality(DOMAIN taken) # 0
    BY <1>3, LibraryHolds, Zenon DEF Library, Counting, PlacesInv, VqTypeOK
  <2> QED BY <1>1, <2>1
<1> QED BY <1>1, <1>2, <1>3, Zenon DEF QueueFacts

\* Until some p9_rpc gives up, a call leaves no fid behind on the server, but for a
\* completion whose p9_open was refused: the walk is the last message that may fail
\* without a clunk, and the clunk finds its two descriptors.
THEOREM P9FidsReturned == Spec => []FidsReturned
<1>1. Spec => []TypesInv
  BY TypesStart, TypesStep, PTL DEF Spec
<1>2. Spec => []FidsInv
  BY <1>1, FidsStart, FidsStep, P9OneRequest, P9Queue, QueueGives, PTL DEF Spec, FidsAll
<1>3. FidsInv => FidsReturned
  BY Zenon DEF FidsInv, NoFidHeld, FidsReturned
<1> QED BY <1>2, <1>3, PTL
=============================================================================
