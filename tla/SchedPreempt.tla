---------------------------- MODULE SchedPreempt ----------------------------
(***************************************************************************)
(* spawn_task and sched_kill as the timer interrupt sees them.             *)
(*                                                                         *)
(* The shell calls them with interrupts enabled and without a lock, so a   *)
(* tick can fall between any two of their stores to tasks[] and            *)
(* active_tasks.  Each store is an action here; sched_tick is the one of   *)
(* Sched.  The code of the shell is executed by whatever the scheduler     *)
(* resumes on the boot stack, so its steps wait for the processor to be on *)
(* that stack, not for task 0 to be current.  counter and spinner, the     *)
(* entries spawn_task is given, never return: there are no zombies.        *)
(***************************************************************************)
EXTENDS Sched

CONSTANT LIVE_BOUND  \* the shell spawns only while fewer tasks than this exist

VARIABLES pc,    \* where the shell is: at its prompt, or before a store
          slot,  \* locals: the slot being filled or destroyed
          ptr,   \* its stack
          reg,   \* active_tasks as loaded by ++ or --
          was    \* history: the id the slot held before the spawn

shell == <<pc, slot, ptr, reg, was>>
locals == <<slot, ptr, reg, was>>
switch == <<current_task, current_index, cpu>>
pvars == <<vars, shell>>

PInit == Init /\ pc = "prompt" /\ slot = 0 /\ ptr = NoStack /\ reg = 0 /\ was = 0

At(here, there) == cpu = BootStack /\ pc = here /\ pc' = there
-----------------------------------------------------------------------------
\* Mutation: the task is counted before it is filled in.
Mut_CountedFirst ==
  /\ At("prompt", "spawn_kmalloc")
  /\ active_tasks < LIVE_BOUND /\ next_task_id < ID_BOUND
  /\ Unused # {}
  /\ slot' = find_free_slot
  /\ was' = id[slot']
  /\ active_tasks' = active_tasks + 1
  /\ UNCHANGED <<id, state, stack, frame, next_task_id, heap, waited, ptr, reg,
                 switch>>

spawn_slot ==
  /\ At("prompt", "spawn_kmalloc")
  /\ active_tasks < LIVE_BOUND /\ next_task_id < ID_BOUND
  /\ Unused # {}
  /\ slot' = find_free_slot
  /\ was' = id[slot']
  /\ UNCHANGED <<vars, ptr, reg>>

spawn_kmalloc ==
  /\ At("spawn_kmalloc", "spawn_memset")
  /\ \E s \in Stacks \ heap : heap' = heap \cup {s} /\ ptr' = s
  /\ UNCHANGED <<id, state, stack, frame, next_task_id, active_tasks, waited, slot,
                 reg, was, switch>>

\* kmalloc returned NULL; the heap has other users.
spawn_no_memory ==
  /\ At("spawn_kmalloc", "prompt")
  /\ UNCHANGED <<vars, locals>>

spawn_memset ==
  /\ At("spawn_memset", "spawn_id")
  /\ id' = [id EXCEPT ![slot] = 0]
  /\ state' = [state EXCEPT ![slot] = "UNUSED"]
  /\ stack' = [stack EXCEPT ![slot] = NoStack]
  /\ frame' = [frame EXCEPT ![slot] = NoStack]
  /\ UNCHANGED <<next_task_id, active_tasks, heap, waited, switch, locals>>

spawn_id ==
  /\ At("spawn_id", "spawn_ready")
  /\ id' = [id EXCEPT ![slot] = next_task_id]
  /\ next_task_id' = next_task_id + 1
  /\ UNCHANGED <<state, stack, frame, active_tasks, heap, waited, switch, locals>>

spawn_ready ==
  /\ At("spawn_ready", "spawn_stack")
  /\ state' = [state EXCEPT ![slot] = "READY"]
  /\ waited' = [waited EXCEPT ![slot] = 0]
  /\ UNCHANGED <<id, stack, frame, next_task_id, active_tasks, heap, switch, locals>>

spawn_stack ==
  /\ At("spawn_stack", "spawn_frame")
  /\ stack' = [stack EXCEPT ![slot] = ptr]
  /\ UNCHANGED <<id, state, frame, next_task_id, active_tasks, heap, waited, switch,
                 locals>>

spawn_frame ==
  /\ At("spawn_frame", "spawn_load")
  /\ frame' = [frame EXCEPT ![slot] = ptr]
  /\ UNCHANGED <<id, state, stack, next_task_id, active_tasks, heap, waited, switch,
                 locals>>

spawn_load ==
  /\ At("spawn_load", "spawn_store")
  /\ reg' = active_tasks
  /\ UNCHANGED <<vars, slot, ptr, was>>

spawn_store ==
  /\ At("spawn_store", "prompt")
  /\ active_tasks' = reg + 1
  /\ UNCHANGED <<id, state, stack, frame, next_task_id, heap, waited, switch, locals>>
-----------------------------------------------------------------------------
kill_find(t) ==
  /\ At("prompt", "kill_kfree")
  /\ state[t] # "UNUSED" /\ id[t] # 0 /\ t # current_task /\ state[t] # "ZOMBIE"
  /\ slot' = t /\ ptr' = stack[t]
  /\ UNCHANGED <<vars, reg, was>>

kill_kfree ==
  /\ At("kill_kfree", "kill_null")
  /\ heap' = heap \ {stack[slot]}
  /\ UNCHANGED <<id, state, stack, frame, next_task_id, active_tasks, waited,
                 switch, locals>>

kill_null ==
  /\ At("kill_null", "kill_unused")
  /\ stack' = [stack EXCEPT ![slot] = NoStack]
  /\ UNCHANGED <<id, state, frame, next_task_id, active_tasks, heap, waited, switch,
                 locals>>

kill_unused ==
  /\ At("kill_unused", "kill_frame")
  /\ state' = [state EXCEPT ![slot] = "UNUSED"]
  /\ waited' = [waited EXCEPT ![slot] = 0]
  /\ UNCHANGED <<id, stack, frame, next_task_id, active_tasks, heap, switch, locals>>

kill_frame ==
  /\ At("kill_frame", "kill_load")
  /\ frame' = [frame EXCEPT ![slot] = NoStack]
  /\ UNCHANGED <<id, state, stack, next_task_id, active_tasks, heap, waited, switch,
                 locals>>

\* Mutation: a count read earlier is used.
Mut_StaleCount ==
  /\ At("kill_load", "kill_store")
  /\ active_tasks > 0
  /\ UNCHANGED <<vars, locals>>

kill_load ==
  /\ At("kill_load", "kill_store")
  /\ active_tasks > 0
  /\ reg' = active_tasks
  /\ UNCHANGED <<vars, slot, ptr, was>>

kill_store ==
  /\ At("kill_store", "prompt")
  /\ active_tasks' = reg - 1
  /\ UNCHANGED <<id, state, stack, frame, next_task_id, heap, waited, switch, locals>>
-----------------------------------------------------------------------------
spawn == \/ spawn_slot \/ spawn_kmalloc \/ spawn_no_memory \/ spawn_memset \/ spawn_id
         \/ spawn_ready \/ spawn_stack \/ spawn_frame \/ spawn_load \/ spawn_store

kill == \/ \E t \in Slots : kill_find(t)
        \/ kill_kfree \/ kill_null \/ kill_unused \/ kill_frame \/ kill_load \/ kill_store

tick == sched_tick /\ UNCHANGED shell

PNext == spawn \/ kill \/ tick
PSpec == PInit /\ [][PNext]_pvars
-----------------------------------------------------------------------------
Spawning == pc \in {"spawn_kmalloc", "spawn_memset", "spawn_id", "spawn_ready",
                    "spawn_stack", "spawn_frame", "spawn_load", "spawn_store"}
KillBefore == pc \in {"kill_kfree", "kill_null", "kill_unused"}
KillAfter == pc \in {"kill_frame", "kill_load", "kill_store"}

\* The stack a task was given.
Home(t) == IF t = 0 THEN BootStack
           ELSE IF t = slot /\ pc # "prompt" THEN ptr ELSE stack[t]

\* Each task is on its own stack: the current one executes on it, and a READY one
\* that has a frame will be resumed on it.
RunsAtHome ==
  /\ cpu = Home(current_task)
  /\ \A t \in Ready : frame[t] \in {Home(t), NoStack}

\* What the stores amount to.  A spawn takes effect when active_tasks is stored, a
\* kill when the slot becomes UNUSED.
seen_id == IF Spawning THEN [id EXCEPT ![slot] = was] ELSE id
seen_state == IF Spawning THEN [state EXCEPT ![slot] = "UNUSED"] ELSE state
seen_stack == IF Spawning THEN [stack EXCEPT ![slot] = NoStack]
              ELSE IF KillBefore THEN [stack EXCEPT ![slot] = ptr] ELSE stack
seen_frame == IF Spawning \/ KillAfter THEN [frame EXCEPT ![slot] = NoStack] ELSE frame
seen_next_id == IF Spawning /\ pc \notin {"spawn_kmalloc", "spawn_memset", "spawn_id"}
                THEN next_task_id - 1 ELSE next_task_id
seen_active == IF KillAfter THEN active_tasks - 1 ELSE active_tasks
seen_heap == IF Spawning /\ pc # "spawn_kmalloc" THEN heap \ {ptr}
             ELSE IF KillBefore THEN heap \cup {ptr} ELSE heap

Atomic == INSTANCE Sched WITH
  id <- seen_id, state <- seen_state, stack <- seen_stack, frame <- seen_frame,
  next_task_id <- seen_next_id, active_tasks <- seen_active, heap <- seen_heap

\* Preemption does not show: with one thread beside the shell, every interleaving
\* of ticks with the stores of a spawn or a kill is one of the atomic operations.
\* The fast path of sched_tick hides the half-filled slot, as active_tasks is the
\* last thing a spawn stores.
AtomicSpec == Atomic!Spec
-----------------------------------------------------------------------------
\* The inductive invariant behind both, for LIVE_BOUND <= 2: what the task table, the
\* heap and the locals of the shell hold before each store.
PreemptTypes ==
  /\ id \in [Slots -> Nat] /\ state \in [Slots -> {"UNUSED", "READY", "RUNNING"}]
  /\ stack \in [Slots -> Stacks \cup {NoStack}]
  /\ frame \in [Slots -> Stacks \cup {BootStack, NoStack}]
  /\ waited \in [Slots -> Nat] /\ heap \subseteq Stacks
  /\ next_task_id \in Nat /\ slot \in Slots
  /\ pc = "prompt" \/ Spawning \/ KillBefore \/ KillAfter

Empty(t) == /\ state[t] = "UNUSED" /\ stack[t] = NoStack /\ frame[t] = NoStack
            /\ waited[t] = 0
EmptyBut(S) == \A t \in Slots \ S : Empty(t)

\* Task 0 has the processor to itself, or shares it with u, whose stack is s.
Alone == /\ current_task = 0 /\ current_index = 0 /\ cpu = BootStack
         /\ state[0] = "RUNNING" /\ stack[0] = NoStack /\ waited[0] = 0

Paired(u, s) ==
  /\ u \in Slots \ {0} /\ s \in Stacks /\ stack[0] = NoStack
  /\ \/ /\ current_task = 0 /\ current_index = 0 /\ cpu = BootStack
        /\ state[0] = "RUNNING" /\ waited[0] = 0 /\ state[u] = "READY" /\ frame[u] = s
     \/ /\ current_task = u /\ current_index = u /\ cpu = s
        /\ state[u] = "RUNNING" /\ waited[u] = 0 /\ state[0] = "READY"
        /\ frame[0] = BootStack

PromptInv ==
  pc = "prompt" =>
    \/ active_tasks = 1 /\ Alone /\ EmptyBut({0})
    \/ /\ active_tasks = 2
       /\ \E u \in Slots : Paired(u, stack[u]) /\ stack[u] \in heap /\ EmptyBut({0, u})

\* The fast path keeps the processor on task 0 while the slot is being filled.
FillInv ==
  Spawning =>
    /\ active_tasks = 1 /\ Alone /\ EmptyBut({0, slot})
    /\ slot = Min(Slots \ {0}) /\ slot # 0 /\ waited[slot] = 0
    /\ state[slot] = IF pc \in {"spawn_kmalloc", "spawn_memset", "spawn_id", "spawn_ready"}
                     THEN "UNUSED" ELSE "READY"
    /\ seen_next_id \in Nat /\ seen_next_id < ID_BOUND
    /\ pc \notin {"spawn_kmalloc", "spawn_memset", "spawn_id"} => id[slot] = seen_next_id
    /\ pc = "spawn_kmalloc" => id[slot] = was /\ stack[slot] = NoStack
    /\ pc # "spawn_kmalloc" => ptr \in heap
    /\ pc \in {"spawn_frame", "spawn_load", "spawn_store"} => stack[slot] = ptr
    /\ frame[slot] = IF pc \in {"spawn_load", "spawn_store"} THEN ptr ELSE NoStack
    /\ pc = "spawn_store" => reg = 1

\* Until the slot is UNUSED its task goes on, afterwards task 0 is resumed on every tick.
DestroyInv ==
  /\ KillBefore =>
       /\ active_tasks = 2 /\ Paired(slot, ptr) /\ EmptyBut({0, slot}) /\ id[slot] # 0
       /\ pc = "kill_kfree" <=> ptr \in heap
       /\ stack[slot] = IF pc = "kill_unused" THEN NoStack ELSE ptr
  /\ KillAfter =>
       /\ active_tasks = 2 /\ Alone /\ EmptyBut({0, slot})
       /\ slot # 0 /\ state[slot] = "UNUSED" /\ waited[slot] = 0 /\ stack[slot] = NoStack
       /\ pc # "kill_frame" => frame[slot] = NoStack
       /\ pc = "kill_store" => reg = 2

PreemptInv == PreemptTypes /\ PromptInv /\ FillInv /\ DestroyInv
=============================================================================
