------------------------------- MODULE Sched --------------------------------
(***************************************************************************)
(* The preemptive round-robin scheduler, src/sched/sched.c, for kernel     *)
(* threads.                                                                *)
(*                                                                         *)
(* tasks[] is kept as one function per field.  A saved interrupt frame is  *)
(* represented by the stack it lies on, since resuming a frame is resuming *)
(* the stack that holds it.  The shell's calls (spawn, kill) run in task 0 *)
(* and are atomic here; SchedPreempt splits them at the stores a timer     *)
(* interrupt can fall between.                                             *)
(***************************************************************************)
EXTENDS Integers, FiniteSets, FiniteSetsExt

CONSTANTS MAX_TASKS,  \* size of tasks[] (8)
          Stacks,     \* task stacks kmalloc can hand out
          BootStack,  \* the stack task 0, the shell, was booted on
          NoStack,    \* a NULL stack or frame pointer
          ID_BOUND    \* bound on next_task_id, to keep instances finite

ASSUME SchedAssumption == /\ MAX_TASKS \in Nat /\ MAX_TASKS >= 2
                          /\ ID_BOUND \in Nat
                          /\ BootStack # NoStack
                          /\ BootStack \notin Stacks /\ NoStack \notin Stacks

Slots == 0 .. MAX_TASKS - 1
None == -1   \* current_task == NULL

VARIABLES id, state, stack, frame,       \* tasks[], field by field
          current_task, current_index, next_task_id, active_tasks,
          heap,    \* stacks allocated and not yet freed
          cpu,     \* the stack the processor executes on
          waited   \* history: switches to another task a READY task has sat through

vars == <<id, state, stack, frame, current_task, current_index, next_task_id,
          active_tasks, heap, cpu, waited>>

\* sched_init: task 0 is the code that is already running.
Init == /\ id = [t \in Slots |-> 0]
        /\ state = [t \in Slots |-> IF t = 0 THEN "RUNNING" ELSE "UNUSED"]
        /\ stack = [t \in Slots |-> NoStack]
        /\ frame = [t \in Slots |-> NoStack]
        /\ current_task = 0
        /\ current_index = 0
        /\ next_task_id = 1
        /\ active_tasks = 1
        /\ heap = {}
        /\ cpu = BootStack
        /\ waited = [t \in Slots |-> 0]
-----------------------------------------------------------------------------
Unused == {t \in Slots : state[t] = "UNUSED"}

find_free_slot == Min(Unused)

\* Mutation: the id is not advanced.
Mut_SameId == next_task_id

IdAfterSpawn == next_task_id + 1

\* spawn_task, called by the shell.  Without a slot or a stack it fails and
\* changes nothing.
spawn_task ==
  /\ current_task = 0
  /\ next_task_id < ID_BOUND
  /\ Unused # {}
  /\ \E s \in Stacks \ heap :
       LET t == find_free_slot
       IN  /\ heap' = heap \cup {s}
           /\ id' = [id EXCEPT ![t] = next_task_id]
           /\ next_task_id' = IdAfterSpawn
           /\ state' = [state EXCEPT ![t] = "READY"]
           /\ stack' = [stack EXCEPT ![t] = s]
           /\ frame' = [frame EXCEPT ![t] = s]
           /\ active_tasks' = active_tasks + 1
           /\ waited' = [waited EXCEPT ![t] = 0]
  /\ UNCHANGED <<current_task, current_index, cpu>>

\* Mutations: destroy_task forgets to free the stack, counts a task that was not there.
Mut_StackKept(D) == {}
Mut_CountedAlways(D) == Max({active_tasks - 1, 0})

\* destroy_task for every task of D, given the states st and frames fr.
DestroyedState(st, D) == [t \in Slots |-> IF t \in D THEN "UNUSED" ELSE st[t]]
DestroyedField(f, D) == [t \in Slots |-> IF t \in D THEN NoStack ELSE f[t]]
DestroyedStacks(D) == {stack[t] : t \in D}
DestroyedCount(D) == Max({active_tasks - Cardinality(D), 0})

\* sched_kill(pid) by the shell: id 0 is refused, and the shell itself is task 0,
\* so the task found is another one and is destroyed at once.
sched_kill(t) ==
  /\ current_task = 0
  /\ state[t] # "UNUSED"
  /\ id[t] # 0
  /\ t # current_task
  /\ state[t] # "ZOMBIE"
  /\ state' = DestroyedState(state, {t})
  /\ stack' = DestroyedField(stack, {t})
  /\ frame' = DestroyedField(frame, {t})
  /\ heap' = heap \ DestroyedStacks({t})
  /\ active_tasks' = DestroyedCount({t})
  /\ waited' = [waited EXCEPT ![t] = 0]
  /\ UNCHANGED <<id, current_task, current_index, next_task_id, cpu>>

\* task_trampoline after the entry function returned.  (counter and spinner never
\* return; the trampoline provides for entries that do.)
task_finished ==
  /\ current_task \in Slots \ {0}
  /\ state[current_task] = "RUNNING"
  /\ state' = [state EXCEPT ![current_task] = "ZOMBIE"]
  /\ UNCHANGED <<id, stack, frame, current_task, current_index, next_task_id,
                 active_tasks, heap, cpu, waited>>
-----------------------------------------------------------------------------
\* sched_tick with one task left: it goes on.
sched_tick_alone ==
  /\ current_task # None
  /\ active_tasks <= 1
  /\ IF state[current_task] = "ZOMBIE"
     THEN LET D == {current_task}
          IN  /\ state' = DestroyedState(state, D)
              /\ stack' = DestroyedField(stack, D)
              /\ frame' = DestroyedField(frame, D)
              /\ heap' = heap \ DestroyedStacks(D)
              /\ active_tasks' = DestroyedCount(D)
              /\ current_task' = None
     ELSE /\ frame' = [frame EXCEPT ![current_task] = cpu]
          /\ state' = [state EXCEPT ![current_task] = "RUNNING"]
          /\ UNCHANGED <<stack, heap, active_tasks, current_task>>
  /\ UNCHANGED <<id, current_index, next_task_id, cpu, waited>>

\* How many steps pick_next_task's scan takes to look at slot t: from the slot
\* after current_index round to current_index itself.
Ahead(t) == IF t > current_index THEN t - current_index
            ELSE t - current_index + MAX_TASKS

\* Mutation: the scan starts at slot 0.
Mut_PickLowest(ready) == Min(ready)

\* pick_next_task: the first READY slot of the scan.
pick_next_task(ready) ==
  CHOOSE t \in ready : \A u \in ready : Ahead(t) <= Ahead(u)

\* Mutations: the preempted task stays RUNNING, its frame is not saved.
Mut_StaysRunning == state
Mut_FrameNotSaved == frame

\* The states, and the frames, once the running task has been saved.
SavedState == IF state[current_task] = "RUNNING"
              THEN [state EXCEPT ![current_task] = "READY"] ELSE state
SavedFrame == IF state[current_task] = "RUNNING"
              THEN [frame EXCEPT ![current_task] = cpu] ELSE frame

\* The current task if it is a zombie, and the zombies reap_zombies finds.
Dead == {t \in Slots : SavedState[t] = "ZOMBIE"}

\* sched_tick with several tasks.
sched_tick_switch ==
  /\ current_task # None
  /\ active_tasks > 1
  /\ LET st    == DestroyedState(SavedState, Dead)
         fr    == DestroyedField(SavedFrame, Dead)
         ready == {t \in Slots : st[t] = "READY"}
         next  == IF ready # {} THEN pick_next_task(ready)
                  ELSE IF current_task \in Dead THEN 0 ELSE current_task
     IN  /\ state' = [st EXCEPT ![next] = "RUNNING"]
         /\ frame' = IF fr[next] = NoStack THEN [fr EXCEPT ![next] = cpu] ELSE fr
         /\ cpu' = IF ready = {} \/ fr[next] = NoStack THEN cpu ELSE fr[next]
         /\ current_task' = next
         /\ current_index' = IF ready = {} THEN current_index ELSE next
         /\ waited' = [t \in Slots |-> IF state[t] = "READY" /\ t # next
                                       THEN waited[t] + 1 ELSE 0]
  /\ stack' = DestroyedField(stack, Dead)
  /\ heap' = heap \ DestroyedStacks(Dead)
  /\ active_tasks' = DestroyedCount(Dead)
  /\ UNCHANGED <<id, next_task_id>>

sched_tick == sched_tick_alone \/ sched_tick_switch

Next == \/ spawn_task
        \/ \E t \in Slots : sched_kill(t)
        \/ task_finished
        \/ sched_tick

\* The PIT raises IRQ 0 a hundred times a second and kernel threads run with
\* interrupts enabled.
Fairness == WF_vars(sched_tick)

Spec == Init /\ [][Next]_vars
FairSpec == Spec /\ Fairness
-----------------------------------------------------------------------------
Used == Slots \ Unused
Ready == {t \in Slots : state[t] = "READY"}
StackOf(t) == IF t = 0 THEN BootStack ELSE stack[t]

\* Types, and the bound on active_tasks.
TypeOK == /\ id \in [Slots -> Nat]
          /\ state \in [Slots -> {"UNUSED", "READY", "RUNNING", "ZOMBIE"}]
          /\ stack \in [Slots -> Stacks \cup {NoStack}]
          /\ frame \in [Slots -> Stacks \cup {BootStack, NoStack}]
          /\ current_task \in Slots \cup {None}
          /\ current_index \in Slots
          /\ next_task_id \in Nat
          /\ active_tasks \in 0 .. MAX_TASKS
          /\ heap \subseteq Stacks
          /\ cpu \in Stacks \cup {BootStack}
          /\ waited \in [Slots -> Nat]

\* The scheduler is never switched off: there is a current task, it is the one the
\* scan last stopped at, it alone is RUNNING or waits as a ZOMBIE for the next tick,
\* and a zombie is never left behind.
CurrentIsSound ==
  /\ current_task \in Slots
  /\ current_task = current_index
  /\ \A t \in Slots : state[t] \in {"RUNNING", "ZOMBIE"} <=> t = current_task

\* Task 0, the shell, is never destroyed, so a zombie always has a successor.
MainSurvives == state[0] \in {"RUNNING", "READY"}

\* Every task runs, and will be resumed, on its own stack: the processor is on the
\* stack of the current task, and a READY task's saved frame lies on its own one.
OwnStacks ==
  /\ cpu = StackOf(current_task)
  /\ \A t \in Ready : frame[t] = StackOf(t)
  /\ \A t \in Used \ {0} : /\ stack[t] \in heap
                           /\ \A u \in Used \ {0} : stack[t] = stack[u] => t = u

\* Stacks are not leaked: the allocated ones belong to tasks that exist.
NoStackLeak == heap = {stack[t] : t \in Used \ {0}}

\* active_tasks, which decides between the fast path and a switch, is the number of
\* tasks there are.
CountExact == active_tasks = Cardinality(Used)

\* An id names one task at most: kill hits the task that was meant.
UniqueIds ==
  /\ \A t, u \in Used : id[t] = id[u] => t = u
  /\ \A t \in Used : id[t] < next_task_id /\ (id[t] = 0 => t = 0)

\* Round robin: a READY task sees at most MAX_TASKS - 2 switches to other tasks,
\* whatever slots are freed and refilled in the meantime.
BoundedWait == \A t \in Ready : waited[t] <= MAX_TASKS - 2

\* Slots the scan has moved on since it stood at slot t.
Behind(t) == IF current_index >= t THEN current_index - t
             ELSE current_index - t + MAX_TASKS

\* Why the wait is bounded: every switch moves the scan towards a READY slot and
\* none moves it past one.
WaitedBehind == \A t \in Ready : waited[t] < Behind(t)

\* The inductive invariant.
SchedInv == /\ TypeOK /\ CurrentIsSound /\ MainSurvives /\ OwnStacks
            /\ NoStackLeak /\ CountExact /\ UniqueIds /\ WaitedBehind

\* A READY task runs or is killed.
ReadyRuns == \A t \in Slots : state[t] = "READY" ~> state[t] # "READY"

\* sched_tick does not free the stack it is running on.
NeverFreesCurrentStack == [][\A s \in heap \ heap' : s # cpu]_vars
=============================================================================
