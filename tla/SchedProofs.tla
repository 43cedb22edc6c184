---------------------------- MODULE SchedProofs -----------------------------
(***************************************************************************)
(* Proofs about Sched and SchedPreempt, for every number of slots and      *)
(* every set of stacks.                                                    *)
(***************************************************************************)
EXTENDS SchedPreempt, NumberLemmas, FiniteSetTheorems

\* pick_next_task's scan stops at the READY slot nearest after current_index.
LEMMA PickNext ==
  ASSUME NEW R \in SUBSET Slots, R # {}, current_index \in Slots
  PROVE  /\ pick_next_task(R) \in R
         /\ \A u \in R : Ahead(pick_next_task(R)) <= Ahead(u)
<1>1. MAX_TASKS \in Nat
  BY SchedAssumption, Zenon
<1>2. \A t \in R : Ahead(t) \in Nat
  BY <1>1 DEF Ahead, Slots
<1> DEFINE S == {Ahead(t) : t \in R}
<1>3. S \in SUBSET Nat /\ S # {}
  BY <1>2, Zenon
<1>4. PICK x \in S : \A y \in S : x <= y
  BY <1>3, LeastNat, Zenon
<1>5. \E t \in R : \A u \in R : Ahead(t) <= Ahead(u)
  BY <1>4, Zenon
<1> QED BY <1>5, Zenon DEF pick_next_task

\* Sets of slots are finite.
LEMMA SlotsFinite ==
  ASSUME NEW S \in SUBSET Slots
  PROVE  IsFiniteSet(S) /\ Cardinality(S) \in 0 .. MAX_TASKS
<1>1. MAX_TASKS \in Nat /\ MAX_TASKS >= 2
  BY SchedAssumption, Zenon
<1>2. IsFiniteSet(Slots) /\ Cardinality(Slots) = MAX_TASKS
  BY <1>1, FS_Interval DEF Slots
<1>3. IsFiniteSet(S) /\ Cardinality(S) <= Cardinality(Slots)
  BY <1>2, FS_Subset, Zenon
<1>4. Cardinality(S) \in Nat
  BY <1>3, FS_CardinalityType, Zenon
<1> QED BY <1>1, <1>2, <1>3, <1>4

\* sched_init establishes the invariant.
LEMMA SchedInitInv == Init => SchedInv
<1> SUFFICES ASSUME Init PROVE SchedInv
  BY Zenon
<1>1. MAX_TASKS \in Nat /\ MAX_TASKS >= 2 /\ 0 \in Slots
  BY SchedAssumption DEF Slots
<1>2. Used = {0} /\ Ready = {}
  BY <1>1, Zenon DEF Init, Used, Unused, Ready
<1>3. Cardinality(Used) = 1
  BY <1>2, FS_Singleton, Zenon
<1>4. TypeOK
  BY <1>1 DEF Init, TypeOK
<1>5. CurrentIsSound /\ MainSurvives
  BY <1>1, Zenon DEF Init, CurrentIsSound, MainSurvives
<1>6. OwnStacks /\ NoStackLeak /\ UniqueIds /\ WaitedBehind /\ CountExact
  BY <1>1, <1>2, <1>3
  DEF Init, OwnStacks, NoStackLeak, UniqueIds, WaitedBehind, CountExact, StackOf
<1> QED BY <1>4, <1>5, <1>6, Zenon DEF SchedInv
-----------------------------------------------------------------------------
\* spawn_task keeps the invariant.
LEMMA SpawnInv == SchedInv /\ spawn_task => SchedInv'
<1> SUFFICES ASSUME SchedInv, spawn_task PROVE SchedInv'
  BY Zenon
<1>0. MAX_TASKS \in Nat /\ MAX_TASKS >= 2 /\ 0 \in Slots
  BY SchedAssumption DEF Slots
<1>1. PICK t \in Unused : t = find_free_slot
  <2>1. Unused \in SUBSET Nat /\ Unused # {}
    BY <1>0 DEF spawn_task, Unused, Slots
  <2> QED BY <2>1, MinNat, Zenon DEF find_free_slot
<1>2. PICK s \in Stacks \ heap :
        /\ heap' = heap \cup {s}
        /\ id' = [id EXCEPT ![t] = next_task_id]
        /\ state' = [state EXCEPT ![t] = "READY"]
        /\ stack' = [stack EXCEPT ![t] = s]
        /\ frame' = [frame EXCEPT ![t] = s]
        /\ waited' = [waited EXCEPT ![t] = 0]
  BY <1>1, Zenon DEF spawn_task
<1>3. /\ current_task = 0 /\ next_task_id' = next_task_id + 1
      /\ active_tasks' = active_tasks + 1
      /\ UNCHANGED <<current_task, current_index, cpu>>
      /\ state[t] = "UNUSED" /\ t \in Slots
  BY <1>1, SchedAssumption, Zenon DEF spawn_task, IdAfterSpawn, Unused
<1>4. t # 0
  BY <1>3, Zenon DEF SchedInv, MainSurvives
<1>5. Used' = Used \cup {t} /\ t \notin Used /\ Ready' = Ready \cup {t}
  BY <1>2, <1>3, Zenon DEF Used, Unused, Ready, SchedInv, TypeOK
<1>6. CountExact' /\ active_tasks' \in 0 .. MAX_TASKS
  <2>1. Used \in SUBSET Slots /\ Used \cup {t} \in SUBSET Slots
    BY <1>3, Zenon DEF Used
  <2>2. Cardinality(Used \cup {t}) = Cardinality(Used) + 1
    BY <1>5, <2>1, SlotsFinite, FS_AddElement, Zenon
  <2> QED BY <1>3, <1>5, <2>1, <2>2, SlotsFinite, Zenon DEF SchedInv, CountExact
<1>7. TypeOK'
  BY <1>0, <1>2, <1>3, <1>6 DEF SchedInv, TypeOK
<1>8. CurrentIsSound' /\ MainSurvives'
  BY <1>0, <1>2, <1>3, <1>4, Zenon DEF SchedInv, TypeOK, CurrentIsSound, MainSurvives
<1>9. OwnStacks'
  BY <1>0, <1>2, <1>3, <1>4, <1>5
  DEF SchedInv, TypeOK, OwnStacks, StackOf
<1>10. NoStackLeak'
  BY <1>0, <1>2, <1>3, <1>4, <1>5 DEF SchedInv, TypeOK, NoStackLeak
<1>11. UniqueIds'
  <2>1. \A u \in Used : u \in Slots /\ id[u] \in Nat /\ id'[u] = id[u] /\ u # t
    BY <1>2, <1>3, <1>5, Zenon DEF SchedInv, TypeOK, Used
  <2>2. id'[t] = next_task_id /\ next_task_id \in Nat
    BY <1>2, <1>3, Zenon DEF SchedInv, TypeOK
  <2>3. 0 \in Used
    BY <1>0, Zenon DEF SchedInv, MainSurvives, Used, Unused
  <2>4. \A u \in Used : id[u] < next_task_id /\ (id[u] = 0 => u = 0)
    BY Zenon DEF SchedInv, UniqueIds
  <2>5. next_task_id > 0
    BY <2>1, <2>2, <2>3, <2>4
  <2>6. \A u, v \in Used' : id'[u] = id'[v] => u = v
    BY <1>5, <2>1, <2>2, <2>4 DEF SchedInv, UniqueIds
  <2>7. \A u \in Used' : id'[u] < next_task_id' /\ (id'[u] = 0 => u = 0)
    BY <1>3, <1>5, <2>1, <2>2, <2>4, <2>5
  <2> QED BY <2>6, <2>7, Zenon DEF UniqueIds
<1>12. WaitedBehind'
  <2>1. current_index = 0 /\ current_index' = 0 /\ t \in 1 .. MAX_TASKS - 1
    <3>1. t \in 1 .. MAX_TASKS - 1
      BY <1>0, <1>3, <1>4 DEF Slots
    <3> QED BY <1>3, <3>1, Zenon DEF SchedInv, CurrentIsSound
  <2>2. \A u \in Ready : waited'[u] = waited[u] /\ Behind(u)' = Behind(u)
    BY <1>2, <1>3, <1>5, <2>1, Zenon
    DEF SchedInv, TypeOK, Ready, Behind, Used, Unused
  <2>3. waited'[t] = 0 /\ Behind(t)' > 0
    BY <1>0, <1>2, <1>3, <2>1 DEF SchedInv, TypeOK, Behind
  <2> QED BY <1>5, <2>2, <2>3, Zenon DEF SchedInv, WaitedBehind
<1> QED BY <1>6, <1>7, <1>8, <1>9, <1>10, <1>11, <1>12, Zenon DEF SchedInv

\* The facts about destroying tasks other than task 0.
LEMMA DestroyCount ==
  ASSUME SchedInv, NEW D \in SUBSET (Used \ {0})
  PROVE  /\ DestroyedCount(D) = Cardinality(Used \ D)
         /\ DestroyedCount(D) \in 0 .. MAX_TASKS
<1>1. Used \in SUBSET Slots /\ D \in SUBSET Slots /\ Used \ D \in SUBSET Slots
  BY Zenon DEF Used
<1>2. /\ IsFiniteSet(Used) /\ Cardinality(Used) \in Nat
      /\ IsFiniteSet(D) /\ Cardinality(D) \in Nat
      /\ Cardinality(Used \ D) \in 0 .. MAX_TASKS
  BY <1>1, SlotsFinite
<1>3. Used \cap D = D
  BY Zenon
<1>4. Cardinality(Used \ D) = Cardinality(Used) - Cardinality(D)
  BY <1>2, <1>3, FS_Difference, Zenon
<1>5. DestroyedCount(D) = Max({Cardinality(Used) - Cardinality(D), 0})
  BY Zenon DEF DestroyedCount, SchedInv, CountExact
<1> QED BY <1>2, <1>4, <1>5, MaxPair, SchedAssumption

\* sched_kill keeps the invariant.
LEMMA KillInv == ASSUME SchedInv, NEW t \in Slots, sched_kill(t) PROVE SchedInv'
<1>0. MAX_TASKS \in Nat /\ MAX_TASKS >= 2 /\ 0 \in Slots
  BY SchedAssumption DEF Slots
<1>1. /\ state' = [u \in Slots |-> IF u = t THEN "UNUSED" ELSE state[u]]
      /\ stack' = [u \in Slots |-> IF u = t THEN NoStack ELSE stack[u]]
      /\ frame' = [u \in Slots |-> IF u = t THEN NoStack ELSE frame[u]]
      /\ heap' = heap \ {stack[t]}
      /\ active_tasks' = DestroyedCount({t})
      /\ waited' = [waited EXCEPT ![t] = 0]
      /\ UNCHANGED <<id, current_task, current_index, next_task_id, cpu>>
      /\ current_task = 0 /\ state[t] # "UNUSED" /\ t # 0
  BY Zenon DEF sched_kill, DestroyedState, DestroyedField, DestroyedStacks
<1>2. t \in Used /\ Used' = Used \ {t} /\ Ready' = Ready \ {t}
  BY <1>1, Zenon DEF Used, Unused, Ready
<1>3. CountExact' /\ active_tasks' \in 0 .. MAX_TASKS
  BY <1>1, <1>2, DestroyCount, Zenon DEF CountExact
<1>4. TypeOK'
  BY <1>0, <1>1, <1>3, Zenon DEF SchedInv, TypeOK
<1>5. CurrentIsSound' /\ MainSurvives'
  BY <1>0, <1>1, Zenon DEF SchedInv, CurrentIsSound, MainSurvives
<1>6. OwnStacks' /\ NoStackLeak'
  <2>1. \A u \in Used \ {t} : u \in Slots /\ stack'[u] = stack[u] /\ frame'[u] = frame[u]
    BY <1>1, Zenon DEF Used
  <2>2. \A u \in Used \ {0, t} : stack[u] # stack[t] /\ stack[u] \in heap
    BY <1>1, <1>2, Zenon DEF SchedInv, OwnStacks
  <2>3. Ready \ {t} \subseteq Used \ {t}
    BY Zenon DEF Ready, Used, Unused
  <2>4. OwnStacks'
    BY <1>1, <1>2, <2>1, <2>2, <2>3, Zenon DEF SchedInv, OwnStacks, StackOf
  <2>5. heap' = {stack'[u] : u \in Used' \ {0}}
    <3>1. heap = {stack[u] : u \in Used \ {0}}
      BY Zenon DEF SchedInv, NoStackLeak
    <3>2. heap \ {stack[t]} = {stack[u] : u \in Used \ {0, t}}
      BY <1>1, <1>2, <2>2, <3>1, Zenon
    <3> QED BY <1>1, <1>2, <2>1, <3>2, Zenon
  <2> QED BY <2>4, <2>5, Zenon DEF NoStackLeak
<1>7. UniqueIds' /\ WaitedBehind'
  BY <1>0, <1>1, <1>2, Zenon
  DEF SchedInv, TypeOK, UniqueIds, WaitedBehind, Behind, Used, Unused, Ready
<1> QED BY <1>3, <1>4, <1>5, <1>6, <1>7, Zenon DEF SchedInv

\* task_trampoline's last store keeps the invariant.
LEMMA FinishedInv == SchedInv /\ task_finished => SchedInv'
<1> SUFFICES ASSUME SchedInv, task_finished PROVE SchedInv'
  BY Zenon
<1>1. /\ current_task \in Slots /\ current_task # 0
      /\ state[current_task] = "RUNNING"
      /\ state' = [state EXCEPT ![current_task] = "ZOMBIE"]
      /\ UNCHANGED <<id, stack, frame, current_task, current_index, next_task_id,
                     active_tasks, heap, cpu, waited>>
  BY Zenon DEF task_finished, SchedInv, CurrentIsSound
<1>2. Used' = Used /\ Ready' = Ready
  BY <1>1, Zenon DEF Used, Unused, Ready, SchedInv, TypeOK
<1>3. TypeOK' /\ CurrentIsSound' /\ MainSurvives'
  BY <1>1 DEF SchedInv, TypeOK, CurrentIsSound, MainSurvives
<1>4. OwnStacks' /\ NoStackLeak' /\ CountExact' /\ UniqueIds' /\ WaitedBehind'
  BY <1>1, <1>2, Zenon DEF SchedInv, OwnStacks, StackOf, NoStackLeak, CountExact, UniqueIds,
                    WaitedBehind, Behind
<1> QED BY <1>3, <1>4, Zenon DEF SchedInv
-----------------------------------------------------------------------------
\* With active_tasks <= 1 only task 0 is left, so the fast path never meets a zombie.
LEMMA TickAloneInv == SchedInv /\ sched_tick_alone => SchedInv'
<1> SUFFICES ASSUME SchedInv, sched_tick_alone PROVE SchedInv'
  BY Zenon
<1>0. MAX_TASKS \in Nat /\ MAX_TASKS >= 2 /\ 0 \in Slots
  BY SchedAssumption DEF Slots
<1>1. current_task = 0
  <2>1. 0 \in Used /\ current_task \in Used /\ Used \in SUBSET Slots
    BY <1>0, Zenon DEF SchedInv, MainSurvives, CurrentIsSound, Used, Unused
  <2>2. IsFiniteSet(Used) /\ Cardinality(Used) \in Nat /\ Cardinality(Used) <= 1
    BY <2>1, SlotsFinite DEF SchedInv, CountExact, sched_tick_alone
  <2>3. Cardinality(Used) # 0
    BY <2>1, <2>2, FS_EmptySet, Zenon
  <2>4. Cardinality(Used) = 1
    BY <2>2, <2>3
  <2>5. PICK x : Used = {x}
    BY <2>2, <2>4, FS_Singleton, Zenon
  <2> QED BY <2>1, <2>5, Zenon
<1>2. state[0] = "RUNNING"
  BY <1>0, <1>1, Zenon DEF SchedInv, CurrentIsSound, MainSurvives
<1>3. /\ frame' = [frame EXCEPT ![0] = cpu]
      /\ state' = state
      /\ UNCHANGED <<id, stack, heap, active_tasks, current_task, current_index,
                     next_task_id, cpu, waited>>
  BY <1>0, <1>1, <1>2, Zenon DEF sched_tick_alone, SchedInv, TypeOK
<1>4. Used' = Used /\ Ready' = Ready /\ 0 \notin Ready
  BY <1>2, <1>3, Zenon DEF Used, Unused, Ready
<1>5. OwnStacks'
  BY <1>3, <1>4, Zenon DEF SchedInv, TypeOK, OwnStacks, StackOf, Ready
<1>6. TypeOK'
  BY <1>0, <1>3, Zenon DEF SchedInv, TypeOK
<1> QED BY <1>3, <1>4, <1>5, <1>6, Zenon
        DEF SchedInv, CurrentIsSound, MainSurvives, NoStackLeak, CountExact, UniqueIds,
            WaitedBehind, Behind

\* A switch: the zombie, if any, is gone, task 0 is among the READY ones, and the
\* scan stops at the nearest of them.
LEMMA TickSwitchInv == SchedInv /\ sched_tick_switch => SchedInv'
<1> SUFFICES ASSUME SchedInv, sched_tick_switch PROVE SchedInv'
  BY Zenon
<1>0. MAX_TASKS \in Nat /\ MAX_TASKS >= 2 /\ 0 \in Slots
  BY SchedAssumption DEF Slots
<1>1. PICK c \in Slots : /\ c = current_task /\ c = current_index
                         /\ \A t \in Slots : state[t] \in {"RUNNING", "ZOMBIE"} <=> t = c
  BY Zenon DEF SchedInv, CurrentIsSound
<1> DEFINE D == Dead
           st == DestroyedState(SavedState, D)
           fr == DestroyedField(SavedFrame, D)
           R == {t \in Slots : st[t] = "READY"}
           n == pick_next_task(R)
<1>2. /\ D \in SUBSET Slots
      /\ D = IF state[c] = "ZOMBIE" THEN {c} ELSE {}
      /\ 0 \notin D
  <2>1. D = IF state[c] = "ZOMBIE" THEN {c} ELSE {}
    BY <1>1, Zenon DEF Dead, SavedState, SchedInv, TypeOK
  <2>2. 0 \notin D
    BY <1>0, <2>1, Zenon DEF SchedInv, MainSurvives
  <2> QED BY <2>1, <2>2, Zenon DEF Dead
<1> HIDE DEF D
<1>3. /\ \A t \in Slots \ {c} : st[t] = state[t] /\ fr[t] = frame[t]
      /\ state[c] = "RUNNING" => st[c] = "READY" /\ fr[c] = cpu
      /\ state[c] # "RUNNING" => st[c] = "UNUSED"
      /\ state[c] \in {"RUNNING", "ZOMBIE"}
  BY <1>1, <1>2, Zenon
  DEF DestroyedState, DestroyedField, SavedState, SavedFrame, SchedInv, TypeOK
<1>4. st \in [Slots -> {"UNUSED", "READY", "RUNNING", "ZOMBIE"}] /\ DOMAIN fr = Slots
  BY <1>1, <1>2, Zenon DEF DestroyedState, DestroyedField, SavedState, SchedInv, TypeOK
<1> HIDE DEF st, fr
<1>5. /\ R \in SUBSET Slots /\ 0 \in R
      /\ R = Ready \cup (IF state[c] = "RUNNING" THEN {c} ELSE {})
  <2>1. R = Ready \cup (IF state[c] = "RUNNING" THEN {c} ELSE {})
    BY <1>1, <1>3, Zenon DEF Ready
  <2>2. 0 \in R
    BY <1>0, <1>1, <2>1, Zenon DEF SchedInv, MainSurvives, Ready
  <2> QED BY <2>1, <2>2, Zenon
<1> HIDE DEF R
<1>6. PICK next \in R : next = n /\ \A u \in R : Ahead(next) <= Ahead(u)
  BY <1>1, <1>5, PickNext, Zenon
<1>7. fr[next] = StackOf(next) /\ fr[next] # NoStack
  <2>1. CASE next = c
    <3>1. state[c] = "RUNNING"
      BY <1>1, <1>3, <1>5, <2>1, Zenon DEF Ready
    <3> QED BY <1>1, <1>3, <2>1, <3>1, SchedAssumption, Zenon DEF SchedInv, OwnStacks, TypeOK
  <2>2. CASE next # c
    <3>1. next \in Ready /\ next \in Slots
      BY <1>5, <2>2, Zenon
    <3>2. fr[next] = StackOf(next)
      BY <1>3, <2>2, <3>1, Zenon DEF SchedInv, OwnStacks
    <3>3. next # 0 => stack[next] \in heap
      BY <3>1, Zenon DEF SchedInv, OwnStacks, Ready, Used, Unused
    <3> QED BY <3>2, <3>3, SchedAssumption, Zenon DEF StackOf, SchedInv, TypeOK
  <2> QED BY <2>1, <2>2, Zenon
<1>8. /\ state' = [st EXCEPT ![next] = "RUNNING"]
      /\ frame' = fr
      /\ cpu' = fr[next]
      /\ current_task' = next
      /\ current_index' = next
      /\ waited' = [t \in Slots |-> IF state[t] = "READY" /\ t # next
                                    THEN waited[t] + 1 ELSE 0]
      /\ stack' = DestroyedField(stack, D)
      /\ heap' = heap \ DestroyedStacks(D)
      /\ active_tasks' = DestroyedCount(D)
      /\ UNCHANGED <<id, next_task_id>>
  <2>1. R # {}
    BY <1>5, Zenon
  <2> QED BY <1>6, <1>7, <2>1, Zenon DEF sched_tick_switch, st, fr, R, D
<1>9. /\ \A t \in Slots : t # c /\ t # next => state'[t] = state[t]
      /\ state'[next] = "RUNNING"
      /\ c # next => state'[c] = IF state[c] = "RUNNING" THEN "READY" ELSE "UNUSED"
      /\ next \in Slots
  BY <1>1, <1>3, <1>4, <1>5, <1>6, <1>8, Zenon
<1>10. /\ Used' = Used \ D
       /\ D \in SUBSET (Used \ {0})
       /\ Ready' = R \ {next}
       /\ next \in Used \ D
  BY <1>1, <1>2, <1>3, <1>4, <1>5, <1>6, <1>8, <1>9
  DEF Used, Unused, Ready, SchedInv, TypeOK
<1>11. CountExact' /\ active_tasks' \in 0 .. MAX_TASKS
  BY <1>8, <1>10, DestroyCount, Zenon DEF CountExact
<1>12. \A t \in Slots \ D : stack'[t] = stack[t]
  BY <1>8, Zenon DEF DestroyedField
<1>13. TypeOK'
  <2>1. fr \in [Slots -> Stacks \cup {BootStack, NoStack}]
    BY <1>1, Zenon DEF fr, DestroyedField, SavedFrame, SchedInv, TypeOK
  <2>2. stack' \in [Slots -> Stacks \cup {NoStack}]
    BY <1>8, Zenon DEF DestroyedField, SchedInv, TypeOK
  <2>3. fr[next] \in Stacks \cup {BootStack}
    BY <1>7, <1>9, <2>1, Zenon
  <2>4. waited' \in [Slots -> Nat]
    BY <1>8 DEF SchedInv, TypeOK
  <2>5. heap' \subseteq Stacks
    BY <1>8, Zenon DEF SchedInv, TypeOK
  <2> QED BY <1>4, <1>8, <1>9, <1>11, <2>1, <2>2, <2>3, <2>4, <2>5, Zenon DEF SchedInv, TypeOK
<1>14. CurrentIsSound' /\ MainSurvives'
  <2>1. CurrentIsSound'
    <3>1. \A t \in Slots : t # c => state[t] \notin {"RUNNING", "ZOMBIE"}
      BY <1>1, Zenon DEF SchedInv, CurrentIsSound
    <3>2. \A t \in Slots : state'[t] \in {"RUNNING", "ZOMBIE"} <=> t = next
      BY <1>9, <3>1, Zenon
    <3>3. next \in Slots /\ current_task' = next /\ current_index' = next
      BY <1>8, <1>9, Zenon
    <3> QED BY <3>2, <3>3, Zenon DEF CurrentIsSound
  <2>2. MainSurvives'
    BY <1>0, <1>1, <1>3, <1>9, Zenon DEF SchedInv, MainSurvives
  <2> QED BY <2>1, <2>2, Zenon
<1>15. OwnStacks'
  <2>1. cpu' = StackOf(next)'
    BY <1>7, <1>8, <1>9, <1>10, <1>12, Zenon DEF StackOf
  <2>2. \A t \in Ready' : frame'[t] = StackOf(t)'
    <3> SUFFICES ASSUME NEW t \in R, t # next PROVE fr[t] = StackOf(t)'
      BY <1>8, <1>10, Zenon
    <3>1. t \in Slots \ D
      BY <1>1, <1>2, <1>5, Zenon DEF Ready
    <3>2. CASE t = c
      BY <1>1, <1>3, <1>5, <1>12, <3>1, <3>2, Zenon DEF SchedInv, OwnStacks, StackOf, Ready
    <3>3. CASE t # c
      BY <1>3, <1>5, <1>12, <3>1, <3>3, Zenon DEF SchedInv, OwnStacks, StackOf
    <3> QED BY <3>2, <3>3, Zenon
  <2>3. \A t \in Used' \ {0} :
          /\ stack'[t] \in heap'
          /\ \A u \in Used' \ {0} : stack'[t] = stack'[u] => t = u
    <3> SUFFICES ASSUME NEW t \in (Used \ D) \ {0}
                 PROVE  /\ stack[t] \in heap \ DestroyedStacks(D)
                        /\ \A u \in (Used \ D) \ {0} : stack[t] = stack[u] => t = u
      BY <1>8, <1>10, <1>12, Zenon DEF Used
    <3>1. \A u \in D : stack[t] # stack[u]
      BY <1>10, Zenon DEF SchedInv, OwnStacks
    <3> QED BY <3>1, Zenon DEF SchedInv, OwnStacks, DestroyedStacks
  <2> QED BY <1>8, <2>1, <2>2, <2>3, Zenon DEF OwnStacks
<1>16. NoStackLeak'
  <2>1. heap = {stack[t] : t \in Used \ {0}}
    BY Zenon DEF SchedInv, NoStackLeak
  <2>2. \A t \in Used \ {0}, u \in D : stack[t] = stack[u] => t = u
    BY <1>10, Zenon DEF SchedInv, OwnStacks
  <2>3. heap \ DestroyedStacks(D) = {stack[t] : t \in (Used \ D) \ {0}}
    BY <1>10, <2>1, <2>2, Zenon DEF DestroyedStacks
  <2> QED BY <1>8, <1>10, <1>12, <2>3, Zenon DEF NoStackLeak, Used
<1>17. UniqueIds'
  BY <1>8, <1>10, Zenon DEF SchedInv, UniqueIds
<1>18. WaitedBehind'
  <2> SUFFICES ASSUME NEW t \in R, t # next PROVE waited'[t] < Behind(t)'
    BY <1>10, Zenon DEF WaitedBehind
  <2>1. t \in 0 .. MAX_TASKS - 1 /\ c \in 0 .. MAX_TASKS - 1 /\ next \in 0 .. MAX_TASKS - 1
    BY <1>5, <1>9, Zenon DEF Slots
  <2>2. Behind(t)' = IF next >= t THEN next - t ELSE next - t + MAX_TASKS
    BY <1>8, Zenon DEF Behind
  <2>3. Ahead(next) <= Ahead(t)
    BY <1>6, Zenon
  <2>4. CASE t = c
    <3>1. waited'[t] = 0
      BY <1>1, <1>3, <1>8, <2>4, Zenon DEF Slots
    <3> QED BY <1>0, <2>1, <2>2, <3>1
  <2>5. CASE t # c
    <3>1. t \in Ready
      BY <1>5, <2>5, Zenon
    <3>2. waited'[t] = waited[t] + 1 /\ waited[t] \in Nat
      BY <1>5, <1>8, <3>1, Zenon DEF Ready, SchedInv, TypeOK
    <3>3. waited[t] < (IF c >= t THEN c - t ELSE c - t + MAX_TASKS)
      BY <1>1, <3>1, Zenon DEF SchedInv, WaitedBehind, Behind
    <3>4. (IF next > c THEN next - c ELSE next - c + MAX_TASKS)
            <= (IF t > c THEN t - c ELSE t - c + MAX_TASKS)
      BY <1>1, <2>3, Zenon DEF Ahead
    <3> QED BY <1>0, <2>1, <2>2, <2>5, <3>2, <3>3, <3>4
  <2> QED BY <2>4, <2>5, Zenon
<1> QED BY <1>11, <1>13, <1>14, <1>15, <1>16, <1>17, <1>18, Zenon DEF SchedInv
-----------------------------------------------------------------------------
\* Every operation of the scheduler keeps the invariant.
LEMMA SchedNextInv == SchedInv /\ [Next]_vars => SchedInv'
<1> SUFFICES ASSUME SchedInv, [Next]_vars PROVE SchedInv'
  BY Zenon
<1>1. CASE UNCHANGED vars
  <2>1. /\ UNCHANGED <<id, state, stack, frame, current_task, current_index, next_task_id,
                       active_tasks, heap, cpu, waited, Ready, Used>>
    BY <1>1, Zenon DEF vars, Ready, Used, Unused
  <2>2. TypeOK' /\ CurrentIsSound' /\ MainSurvives'
    BY <2>1, Zenon DEF SchedInv, TypeOK, CurrentIsSound, MainSurvives
  <2>3. OwnStacks' /\ NoStackLeak' /\ CountExact'
    BY <2>1, Zenon DEF SchedInv, OwnStacks, StackOf, NoStackLeak, CountExact
  <2>4. UniqueIds' /\ WaitedBehind'
    BY <2>1, Zenon DEF SchedInv, UniqueIds, WaitedBehind, Behind
  <2> QED BY <2>2, <2>3, <2>4, Zenon DEF SchedInv
<1> QED BY <1>1, SpawnInv, KillInv, FinishedInv, TickAloneInv, TickSwitchInv, Zenon
        DEF Next, sched_tick

\* The scheduler's tables are consistent at every point between two of its
\* operations.
THEOREM SchedInvariant == Spec => []SchedInv
BY SchedInitInv, SchedNextInv, PTL DEF Spec

\* Every variable of the scheduler keeps its type.
THEOREM SchedTypeCorrect == Spec => []TypeOK
<1>1. SchedInv => TypeOK
  BY Zenon DEF SchedInv
<1> QED BY <1>1, SchedInvariant, PTL

\* sched_tick never leaves the machine without a current task, never leaves two
\* RUNNING and never forgets a zombie.
THEOREM SchedCurrentIsSound == Spec => []CurrentIsSound
<1>1. SchedInv => CurrentIsSound
  BY Zenon DEF SchedInv
<1> QED BY <1>1, SchedInvariant, PTL

\* Every task runs and is resumed on its own stack.
THEOREM SchedOwnStacks == Spec => []OwnStacks
<1>1. SchedInv => OwnStacks
  BY Zenon DEF SchedInv
<1> QED BY <1>1, SchedInvariant, PTL

\* The stacks allocated are those of the tasks that exist, however these ended.
THEOREM SchedNoStackLeak == Spec => []NoStackLeak
<1>1. SchedInv => NoStackLeak
  BY Zenon DEF SchedInv
<1> QED BY <1>1, SchedInvariant, PTL

\* No two tasks have the same id, even when slots are reused.
THEOREM SchedUniqueIds == Spec => []UniqueIds
<1>1. SchedInv => UniqueIds
  BY Zenon DEF SchedInv
<1> QED BY <1>1, SchedInvariant, PTL

\* active_tasks counts the tasks.
THEOREM SchedCountExact == Spec => []CountExact
<1>1. SchedInv => CountExact
  BY Zenon DEF SchedInv
<1> QED BY <1>1, SchedInvariant, PTL

\* The round robin passes a READY task over at most MAX_TASKS - 2 times.
THEOREM SchedBoundedWait == Spec => []BoundedWait
<1>1. SchedInv => BoundedWait
  <2> SUFFICES ASSUME SchedInv, NEW t \in Ready PROVE waited[t] <= MAX_TASKS - 2
    BY Zenon DEF BoundedWait
  <2>1. /\ t \in Slots /\ current_index \in Slots /\ waited[t] \in Nat
        /\ MAX_TASKS \in Nat
    BY SchedAssumption, Zenon DEF Ready, SchedInv, TypeOK
  <2>2. waited[t] < Behind(t)
    BY Zenon DEF SchedInv, WaitedBehind
  <2>3. Behind(t) <= MAX_TASKS - 1
    BY <2>1 DEF Behind, Slots
  <2> QED BY <2>1, <2>2, <2>3 DEF Behind, Slots
<1> QED BY <1>1, SchedInvariant, PTL
-----------------------------------------------------------------------------
(***************************************************************************)
(* SchedPreempt with at most one thread beside the shell.                  *)
(***************************************************************************)
\* A step that leaves the processor and every slot but the one in hand alone.
Kept == /\ slot' = slot /\ UNCHANGED <<current_task, current_index, cpu>>
        /\ \A t \in Slots \ {slot} : /\ state'[t] = state[t] /\ stack'[t] = stack[t]
                                     /\ frame'[t] = frame[t] /\ waited'[t] = waited[t]

LEMMA KeptOthers ==
  ASSUME slot \in Slots \ {0}, Kept
  PROVE  /\ Alone => Alone'
         /\ EmptyBut({0, slot}) => EmptyBut({0, slot})'
         /\ /\ Paired(slot, ptr) /\ ptr' = ptr /\ state'[slot] = state[slot]
            /\ frame'[slot] = frame[slot] /\ waited'[slot] = waited[slot]
            => Paired(slot, ptr)'
<1>1. 0 \in Slots \ {slot}
  BY SchedAssumption DEF Slots
<1>2. Alone => Alone'
  BY <1>1, Zenon DEF Kept, Alone
<1>3. EmptyBut({0, slot}) => EmptyBut({0, slot})'
  BY Zenon DEF Kept, EmptyBut, Empty
<1>4. ASSUME Paired(slot, ptr), ptr' = ptr, state'[slot] = state[slot],
             frame'[slot] = frame[slot], waited'[slot] = waited[slot]
      PROVE  Paired(slot, ptr)'
  BY <1>1, <1>4, Zenon DEF Kept, Paired
<1> QED BY <1>2, <1>3, <1>4, Zenon

\* Each part of the invariant is about one phase of the shell.
LEMMA OtherModes ==
  /\ pc # "prompt" => PromptInv
  /\ ~Spawning => FillInv
  /\ ~KillBefore /\ ~KillAfter => DestroyInv
  /\ pc' # "prompt" => PromptInv'
  /\ ~Spawning' => FillInv'
  /\ ~KillBefore' /\ ~KillAfter' => DestroyInv'
<1>1. /\ pc # "prompt" => PromptInv
      /\ pc' # "prompt" => PromptInv'
  BY Zenon DEF PromptInv
<1>2. /\ ~Spawning => FillInv
      /\ ~Spawning' => FillInv'
  BY Zenon DEF FillInv
<1>3. /\ ~KillBefore /\ ~KillAfter => DestroyInv
      /\ ~KillBefore' /\ ~KillAfter' => DestroyInv'
  BY Zenon DEF DestroyInv
<1> QED BY <1>1, <1>2, <1>3, Zenon

\* At boot the shell is alone.
LEMMA PreemptStart == PInit => PreemptInv
<1> SUFFICES ASSUME PInit PROVE PreemptInv
  BY Zenon
<1>1. 0 \in Slots
  BY SchedAssumption DEF Slots
<1>2. pc = "prompt" /\ ~Spawning /\ ~KillBefore /\ ~KillAfter
  BY Zenon DEF PInit, Spawning, KillBefore, KillAfter
<1>3. PreemptTypes
  BY <1>1, <1>2, Zenon DEF PInit, Init, PreemptTypes
<1>4. active_tasks = 1 /\ Alone /\ EmptyBut({0})
  BY <1>1, Zenon DEF PInit, Init, Alone, EmptyBut, Empty
<1>5. PromptInv
  BY <1>4, Zenon DEF PromptInv
<1> QED BY <1>2, <1>3, <1>5, OtherModes, Zenon DEF PreemptInv

\* What holds while a slot is being filled, without the slot itself.
LEMMA Filling ==
  ASSUME PreemptInv, Spawning
  PROVE  slot \in Slots \ {0} /\ Alone /\ EmptyBut({0, slot}) /\ active_tasks = 1
BY Zenon DEF PreemptInv, PreemptTypes, FillInv

\* The stores of spawn_task, one after the other.
LEMMA SpawnKmalloc == PreemptInv /\ spawn_kmalloc => PreemptInv'
<1> SUFFICES ASSUME PreemptInv, spawn_kmalloc PROVE PreemptInv'
  BY Zenon
<1>1. /\ pc = "spawn_kmalloc" /\ pc' = "spawn_memset" /\ slot' = slot
      /\ Spawning /\ Spawning' /\ ~KillBefore' /\ ~KillAfter'
  BY Zenon DEF spawn_kmalloc, At, locals, Spawning, KillBefore, KillAfter
<1>2. Kept
  BY <1>1, Zenon DEF PreemptInv, PreemptTypes, spawn_kmalloc, vars, switch, locals, Kept
<1>3. Alone' /\ EmptyBut({0, slot})' /\ slot \in Slots \ {0}
  BY <1>1, <1>2, Filling, KeptOthers, Zenon
<1>4. PreemptTypes'
  BY <1>1, Zenon DEF PreemptInv, PreemptTypes, spawn_kmalloc, vars, locals, FillInv
<1>5. FillInv'
  BY <1>1, <1>3, Zenon DEF PreemptInv, PreemptTypes, FillInv, spawn_kmalloc, vars, locals,
     seen_next_id
<1> QED BY <1>1, <1>4, <1>5, OtherModes, Zenon DEF PreemptInv

LEMMA SpawnMemset == PreemptInv /\ spawn_memset => PreemptInv'
<1> SUFFICES ASSUME PreemptInv, spawn_memset PROVE PreemptInv'
  BY Zenon
<1>1. /\ pc = "spawn_memset" /\ pc' = "spawn_id" /\ slot' = slot
      /\ Spawning /\ Spawning' /\ ~KillBefore' /\ ~KillAfter'
  BY Zenon DEF spawn_memset, At, locals, Spawning, KillBefore, KillAfter
<1>2. Kept
  BY <1>1, Zenon DEF PreemptInv, PreemptTypes, spawn_memset, vars, switch, locals, Kept
<1>3. Alone' /\ EmptyBut({0, slot})' /\ slot \in Slots \ {0}
  BY <1>1, <1>2, Filling, KeptOthers, Zenon
<1>4. PreemptTypes'
  BY <1>1, Zenon DEF PreemptInv, PreemptTypes, spawn_memset, vars, locals, FillInv
<1>5. FillInv'
  BY <1>1, <1>3, Zenon DEF PreemptInv, PreemptTypes, FillInv, spawn_memset, vars, locals,
     seen_next_id
<1> QED BY <1>1, <1>4, <1>5, OtherModes, Zenon DEF PreemptInv

LEMMA SpawnId == PreemptInv /\ spawn_id => PreemptInv'
<1> SUFFICES ASSUME PreemptInv, spawn_id PROVE PreemptInv'
  BY Zenon
<1>1. /\ pc = "spawn_id" /\ pc' = "spawn_ready" /\ slot' = slot
      /\ Spawning /\ Spawning' /\ ~KillBefore' /\ ~KillAfter'
  BY Zenon DEF spawn_id, At, locals, Spawning, KillBefore, KillAfter
<1>2. Kept
  BY <1>1, Zenon DEF PreemptInv, PreemptTypes, spawn_id, vars, switch, locals, Kept
<1>3. Alone' /\ EmptyBut({0, slot})' /\ slot \in Slots \ {0}
  BY <1>1, <1>2, Filling, KeptOthers, Zenon
<1>4. PreemptTypes'
  BY <1>1 DEF PreemptInv, PreemptTypes, spawn_id, vars, locals, FillInv
<1>5. FillInv'
  BY <1>1, <1>3 DEF PreemptInv, PreemptTypes, FillInv, spawn_id, vars, locals, seen_next_id
<1> QED BY <1>1, <1>4, <1>5, OtherModes, Zenon DEF PreemptInv

LEMMA SpawnReady == PreemptInv /\ spawn_ready => PreemptInv'
<1> SUFFICES ASSUME PreemptInv, spawn_ready PROVE PreemptInv'
  BY Zenon
<1>1. /\ pc = "spawn_ready" /\ pc' = "spawn_stack" /\ slot' = slot
      /\ Spawning /\ Spawning' /\ ~KillBefore' /\ ~KillAfter'
  BY Zenon DEF spawn_ready, At, locals, Spawning, KillBefore, KillAfter
<1>2. Kept
  BY <1>1, Zenon DEF PreemptInv, PreemptTypes, spawn_ready, vars, switch, locals, Kept
<1>3. Alone' /\ EmptyBut({0, slot})' /\ slot \in Slots \ {0}
  BY <1>1, <1>2, Filling, KeptOthers, Zenon
<1>4. PreemptTypes'
  BY <1>1, Zenon DEF PreemptInv, PreemptTypes, spawn_ready, vars, locals, FillInv
<1>5. FillInv'
  BY <1>1, <1>3, Zenon DEF PreemptInv, PreemptTypes, FillInv, spawn_ready, vars, locals,
     seen_next_id
<1> QED BY <1>1, <1>4, <1>5, OtherModes, Zenon DEF PreemptInv

LEMMA SpawnStack == PreemptInv /\ spawn_stack => PreemptInv'
<1> SUFFICES ASSUME PreemptInv, spawn_stack PROVE PreemptInv'
  BY Zenon
<1>1. /\ pc = "spawn_stack" /\ pc' = "spawn_frame" /\ slot' = slot
      /\ Spawning /\ Spawning' /\ ~KillBefore' /\ ~KillAfter'
  BY Zenon DEF spawn_stack, At, locals, Spawning, KillBefore, KillAfter
<1>2. Kept
  BY <1>1, Zenon DEF PreemptInv, PreemptTypes, spawn_stack, vars, switch, locals, Kept
<1>3. Alone' /\ EmptyBut({0, slot})' /\ slot \in Slots \ {0}
  BY <1>1, <1>2, Filling, KeptOthers, Zenon
<1>4. PreemptTypes'
  BY <1>1, Zenon DEF PreemptInv, PreemptTypes, spawn_stack, vars, locals, FillInv
<1>5. FillInv'
  BY <1>1, <1>3, Zenon DEF PreemptInv, PreemptTypes, FillInv, spawn_stack, vars, locals,
     seen_next_id
<1> QED BY <1>1, <1>4, <1>5, OtherModes, Zenon DEF PreemptInv

LEMMA SpawnFrame == PreemptInv /\ spawn_frame => PreemptInv'
<1> SUFFICES ASSUME PreemptInv, spawn_frame PROVE PreemptInv'
  BY Zenon
<1>1. /\ pc = "spawn_frame" /\ pc' = "spawn_load" /\ slot' = slot
      /\ Spawning /\ Spawning' /\ ~KillBefore' /\ ~KillAfter'
  BY Zenon DEF spawn_frame, At, locals, Spawning, KillBefore, KillAfter
<1>2. Kept
  BY <1>1, Zenon DEF PreemptInv, PreemptTypes, spawn_frame, vars, switch, locals, Kept
<1>3. Alone' /\ EmptyBut({0, slot})' /\ slot \in Slots \ {0}
  BY <1>1, <1>2, Filling, KeptOthers, Zenon
<1>4. PreemptTypes'
  BY <1>1, Zenon DEF PreemptInv, PreemptTypes, spawn_frame, vars, locals, FillInv
<1>5. FillInv'
  BY <1>1, <1>3, Zenon DEF PreemptInv, PreemptTypes, FillInv, spawn_frame, vars, locals,
     seen_next_id
<1> QED BY <1>1, <1>4, <1>5, OtherModes, Zenon DEF PreemptInv

LEMMA SpawnLoad == PreemptInv /\ spawn_load => PreemptInv'
<1> SUFFICES ASSUME PreemptInv, spawn_load PROVE PreemptInv'
  BY Zenon
<1>1. /\ pc = "spawn_load" /\ pc' = "spawn_store" /\ slot' = slot
      /\ Spawning /\ Spawning' /\ ~KillBefore' /\ ~KillAfter'
  BY Zenon DEF spawn_load, At, locals, Spawning, KillBefore, KillAfter
<1>2. Kept
  BY <1>1, Zenon DEF PreemptInv, PreemptTypes, spawn_load, vars, switch, locals, Kept
<1>3. Alone' /\ EmptyBut({0, slot})' /\ slot \in Slots \ {0}
  BY <1>1, <1>2, Filling, KeptOthers, Zenon
<1>4. PreemptTypes'
  BY <1>1, Zenon DEF PreemptInv, PreemptTypes, spawn_load, vars, locals, FillInv
<1>5. FillInv'
  BY <1>1, <1>3, Zenon DEF PreemptInv, PreemptTypes, FillInv, spawn_load, vars, locals,
     seen_next_id
<1> QED BY <1>1, <1>4, <1>5, OtherModes, Zenon DEF PreemptInv

\* find_free_slot finds slot 1, the others being unused as well.
LEMMA SpawnSlot ==
  ASSUME LIVE_BOUND \in 0 .. 2, PreemptInv, spawn_slot
  PROVE  PreemptInv' /\ Unused = Slots \ {0}
<1>1. /\ pc = "prompt" /\ pc' = "spawn_kmalloc" /\ UNCHANGED vars
      /\ active_tasks < LIVE_BOUND /\ next_task_id < ID_BOUND
      /\ slot' = find_free_slot /\ was' = id[slot']
      /\ Spawning' /\ ~KillBefore' /\ ~KillAfter'
  BY Zenon DEF spawn_slot, At, Spawning, KillBefore, KillAfter
<1>2. active_tasks = 1 /\ Alone /\ EmptyBut({0})
  BY <1>1 DEF PreemptInv, PromptInv
<1>3. 0 \in Slots /\ 1 \in Slots \ {0} /\ Slots \ {0} \in SUBSET Nat
  BY SchedAssumption DEF Slots
<1>4. Unused = Slots \ {0}
  BY <1>2, <1>3, Zenon DEF Unused, EmptyBut, Empty, Alone
<1>5. slot' = Min(Slots \ {0}) /\ slot' \in Slots \ {0}
  <2>1. Slots \ {0} # {}
    BY <1>3, Zenon
  <2> QED BY <1>1, <1>3, <1>4, <2>1, MinNat, Zenon DEF find_free_slot
<1>6. Alone'
  BY <1>1, <1>2, Zenon DEF Alone, vars
<1>7. EmptyBut({0, slot})' /\ Empty(slot)'
  BY <1>1, <1>2, <1>5, Zenon DEF EmptyBut, Empty, vars
<1>8. PreemptTypes'
  BY <1>1, <1>5, Zenon DEF PreemptInv, PreemptTypes, vars
<1>9. seen_next_id' \in Nat /\ seen_next_id' < ID_BOUND
  BY <1>1, Zenon DEF seen_next_id, vars, PreemptInv, PreemptTypes
<1>10. FillInv'
  BY <1>1, <1>2, <1>5, <1>6, <1>7, <1>9, Zenon DEF FillInv, Empty, vars
<1> QED BY <1>1, <1>4, <1>8, <1>10, OtherModes, Zenon DEF PreemptInv

\* kmalloc failed: the slot is as it was.
LEMMA SpawnNoMemory == PreemptInv /\ spawn_no_memory => PreemptInv'
<1> SUFFICES ASSUME PreemptInv, spawn_no_memory PROVE PreemptInv'
  BY Zenon
<1>1. /\ pc = "spawn_kmalloc" /\ pc' = "prompt" /\ UNCHANGED <<vars, locals>>
      /\ Spawning /\ ~Spawning' /\ ~KillBefore' /\ ~KillAfter'
  BY Zenon DEF spawn_no_memory, At, Spawning, KillBefore, KillAfter
<1>2. Empty(slot)
  BY <1>1, Zenon DEF PreemptInv, FillInv, Empty
<1>3. EmptyBut({0})'
  BY <1>1, <1>2, Filling, Zenon DEF EmptyBut, Empty, vars
<1>4. Alone' /\ active_tasks' = 1
  BY <1>1, Filling, Zenon DEF Alone, vars
<1>5. PreemptTypes'
  BY <1>1, Zenon DEF PreemptInv, PreemptTypes, vars, locals
<1>6. PromptInv'
  BY <1>3, <1>4, Zenon DEF PromptInv
<1> QED BY <1>1, <1>5, <1>6, OtherModes, Zenon DEF PreemptInv

\* The task is counted, and is there.
LEMMA SpawnStore == PreemptInv /\ spawn_store => PreemptInv'
<1> SUFFICES ASSUME PreemptInv, spawn_store PROVE PreemptInv'
  BY Zenon
<1>1. /\ pc = "spawn_store" /\ pc' = "prompt"
      /\ Spawning /\ ~Spawning' /\ ~KillBefore' /\ ~KillAfter'
  BY Zenon DEF spawn_store, At, Spawning, KillBefore, KillAfter
<1>2. /\ active_tasks' = reg + 1
      /\ UNCHANGED <<id, state, stack, frame, next_task_id, heap, waited, current_task,
                     current_index, cpu, slot>>
  BY Zenon DEF spawn_store, switch, locals
<1>3. /\ reg = 1 /\ ptr \in heap /\ state[slot] = "READY" /\ stack[slot] = ptr
      /\ frame[slot] = ptr
  BY <1>1, Zenon DEF PreemptInv, FillInv
<1>4. heap \subseteq Stacks
  BY Zenon DEF PreemptInv, PreemptTypes
<1>5. Paired(slot, stack[slot])'
  BY <1>2, <1>3, <1>4, <1>1, Filling, Zenon DEF Paired, Alone
<1>6. EmptyBut({0, slot})'
  BY <1>1, <1>2, Filling, Zenon DEF EmptyBut, Empty
<1>7. PreemptTypes'
  BY <1>1, <1>2, Zenon DEF PreemptInv, PreemptTypes
<1>8. active_tasks' = 2 /\ slot' \in Slots /\ stack'[slot'] \in heap'
  BY <1>1, <1>2, <1>3, Filling
<1>9. PromptInv'
  BY <1>5, <1>6, <1>8, Zenon DEF PromptInv
<1> QED BY <1>1, <1>7, <1>9, OtherModes, Zenon DEF PreemptInv

\* The shell finds the one other task, which does not run meanwhile.
LEMMA KillFind == ASSUME PreemptInv, NEW t \in Slots, kill_find(t) PROVE PreemptInv'
<1>1. /\ pc = "prompt" /\ pc' = "kill_kfree" /\ slot' = t /\ ptr' = stack[t]
      /\ UNCHANGED vars /\ state[t] # "UNUSED" /\ id[t] # 0 /\ t # current_task
      /\ cpu = BootStack /\ ~Spawning' /\ KillBefore' /\ ~KillAfter'
  BY Zenon DEF kill_find, At, Spawning, KillBefore, KillAfter
<1>2. ~EmptyBut({0}) \/ t = 0
  BY <1>1, Zenon DEF EmptyBut, Empty
<1>3. ~Alone \/ t # 0
  BY <1>1, Zenon DEF Alone
<1>4. PICK u \in Slots : /\ active_tasks = 2 /\ Paired(u, stack[u]) /\ stack[u] \in heap
                         /\ EmptyBut({0, u})
  BY <1>1, <1>2, <1>3, Zenon DEF PreemptInv, PromptInv
<1>5. u = t /\ u # 0
  BY <1>1, <1>4, SchedAssumption, Zenon DEF Paired, EmptyBut, Empty
<1>6. Paired(slot, ptr)' /\ EmptyBut({0, slot})'
  BY <1>1, <1>4, <1>5, Zenon DEF Paired, EmptyBut, Empty, vars
<1>7. PreemptTypes'
  BY <1>1, Zenon DEF PreemptInv, PreemptTypes, vars
<1>8. DestroyInv'
  <2>1. /\ active_tasks' = 2 /\ id'[slot'] # 0 /\ ptr' \in heap' /\ stack'[slot'] = ptr'
    BY <1>1, <1>4, <1>5, Zenon DEF vars
  <2> QED BY <1>1, <1>6, <2>1, Zenon DEF DestroyInv
<1> QED BY <1>1, <1>7, <1>8, OtherModes, Zenon DEF PreemptInv

\* What holds while a slot is being destroyed, without the slot itself.
LEMMA Destroying ==
  ASSUME PreemptInv
  PROVE  /\ KillBefore => /\ slot \in Slots \ {0} /\ Paired(slot, ptr)
                          /\ EmptyBut({0, slot}) /\ active_tasks = 2
         /\ KillAfter => /\ slot \in Slots \ {0} /\ Alone
                         /\ EmptyBut({0, slot}) /\ active_tasks = 2
BY Zenon DEF PreemptInv, PreemptTypes, DestroyInv, Paired

\* The stores of destroy_task that leave the task READY ...
LEMMA KillKfree == PreemptInv /\ kill_kfree => PreemptInv'
<1> SUFFICES ASSUME PreemptInv, kill_kfree PROVE PreemptInv'
  BY Zenon
<1>1. /\ pc = "kill_kfree" /\ pc' = "kill_null" /\ KillBefore /\ KillBefore'
      /\ ~Spawning' /\ ~KillAfter'
  BY Zenon DEF kill_kfree, At, Spawning, KillBefore, KillAfter
<1>2. Kept /\ ptr' = ptr /\ UNCHANGED <<id, state, stack, frame, waited, active_tasks>>
  BY Zenon DEF kill_kfree, switch, locals, Kept
<1>3. Paired(slot, ptr)' /\ EmptyBut({0, slot})'
  BY <1>1, <1>2, Destroying, KeptOthers, Zenon
<1>4. stack[slot] = ptr /\ id[slot] # 0 /\ active_tasks = 2
  BY <1>1, Zenon DEF PreemptInv, DestroyInv
<1>7. heap' = heap \ {ptr} /\ slot' = slot
  BY <1>2, <1>4, Zenon DEF kill_kfree, Kept
<1>5. PreemptTypes'
  BY <1>1, Zenon DEF PreemptInv, PreemptTypes, kill_kfree, locals
<1>6. DestroyInv'
  BY <1>1, <1>2, <1>3, <1>4, <1>7, Zenon DEF DestroyInv
<1> QED BY <1>1, <1>5, <1>6, OtherModes, Zenon DEF PreemptInv

LEMMA KillNull == PreemptInv /\ kill_null => PreemptInv'
<1> SUFFICES ASSUME PreemptInv, kill_null PROVE PreemptInv'
  BY Zenon
<1>1. /\ pc = "kill_null" /\ pc' = "kill_unused" /\ KillBefore /\ KillBefore'
      /\ ~Spawning' /\ ~KillAfter'
  BY Zenon DEF kill_null, At, Spawning, KillBefore, KillAfter
<1>2. /\ Kept /\ ptr' = ptr /\ slot' = slot
      /\ UNCHANGED <<id, state, frame, heap, waited, active_tasks>>
  BY Zenon DEF kill_null, switch, locals, Kept, PreemptInv, PreemptTypes
<1>3. Paired(slot, ptr)' /\ EmptyBut({0, slot})'
  BY <1>1, <1>2, Destroying, KeptOthers, Zenon
<1>4. stack'[slot] = NoStack
  BY Zenon DEF kill_null, PreemptInv, PreemptTypes
<1>7. ptr \notin heap /\ id[slot] # 0 /\ active_tasks = 2
  BY <1>1, Zenon DEF PreemptInv, DestroyInv
<1>5. PreemptTypes'
  BY <1>1, Zenon DEF PreemptInv, PreemptTypes, kill_null, locals
<1>6. DestroyInv'
  BY <1>1, <1>2, <1>3, <1>4, <1>7, Zenon DEF DestroyInv
<1> QED BY <1>1, <1>5, <1>6, OtherModes, Zenon DEF PreemptInv

\* ... the one that takes it off, ...
LEMMA KillUnused == PreemptInv /\ kill_unused => PreemptInv' /\ Alone
<1> SUFFICES ASSUME PreemptInv, kill_unused PROVE PreemptInv' /\ Alone
  BY Zenon
<1>1. /\ pc = "kill_unused" /\ pc' = "kill_frame" /\ KillBefore /\ ~KillBefore'
      /\ ~Spawning' /\ KillAfter' /\ cpu = BootStack
  BY Zenon DEF kill_unused, At, Spawning, KillBefore, KillAfter
<1>2. Kept /\ slot' = slot /\ UNCHANGED <<id, stack, frame, heap, active_tasks>>
  BY Zenon DEF kill_unused, switch, locals, Kept, PreemptInv, PreemptTypes
<1>3. Alone
  BY <1>1, Destroying, SchedAssumption, Zenon DEF Paired, Alone
<1>4. Alone' /\ EmptyBut({0, slot})'
  BY <1>1, <1>2, <1>3, Destroying, KeptOthers, Zenon
<1>5. state'[slot] = "UNUSED" /\ waited'[slot] = 0
  BY Zenon DEF kill_unused, PreemptInv, PreemptTypes
<1>6. PreemptTypes'
  BY <1>1, Zenon DEF PreemptInv, PreemptTypes, kill_unused, locals
<1>7. DestroyInv'
  <2>1. stack[slot] = NoStack /\ slot # 0 /\ active_tasks = 2
    BY <1>1, Destroying, Zenon DEF PreemptInv, DestroyInv
  <2> QED BY <1>1, <1>2, <1>4, <1>5, <2>1, Zenon DEF DestroyInv
<1> QED BY <1>1, <1>3, <1>6, <1>7, OtherModes, Zenon DEF PreemptInv

\* ... and those that are left.
LEMMA KillFrame == PreemptInv /\ kill_frame => PreemptInv'
<1> SUFFICES ASSUME PreemptInv, kill_frame PROVE PreemptInv'
  BY Zenon
<1>1. /\ pc = "kill_frame" /\ pc' = "kill_load" /\ KillAfter /\ KillAfter'
      /\ ~Spawning' /\ ~KillBefore'
  BY Zenon DEF kill_frame, At, Spawning, KillBefore, KillAfter
<1>2. Kept /\ slot' = slot /\ UNCHANGED <<id, state, stack, heap, waited, active_tasks>>
  BY Zenon DEF kill_frame, switch, locals, Kept, PreemptInv, PreemptTypes
<1>3. Alone' /\ EmptyBut({0, slot})'
  BY <1>1, <1>2, Destroying, KeptOthers, Zenon
<1>4. frame'[slot] = NoStack
  BY Zenon DEF kill_frame, PreemptInv, PreemptTypes
<1>5. PreemptTypes'
  BY <1>1, Zenon DEF PreemptInv, PreemptTypes, kill_frame, locals
<1>6. DestroyInv'
  <2>1. /\ state[slot] = "UNUSED" /\ waited[slot] = 0 /\ stack[slot] = NoStack
        /\ slot # 0 /\ active_tasks = 2
    BY <1>1, Zenon DEF PreemptInv, DestroyInv
  <2> QED BY <1>1, <1>2, <1>3, <1>4, <2>1, Zenon DEF DestroyInv
<1> QED BY <1>1, <1>5, <1>6, OtherModes, Zenon DEF PreemptInv

LEMMA KillLoad == PreemptInv /\ kill_load => PreemptInv'
<1> SUFFICES ASSUME PreemptInv, kill_load PROVE PreemptInv'
  BY Zenon
<1>1. /\ pc = "kill_load" /\ pc' = "kill_store" /\ KillAfter /\ KillAfter'
      /\ ~Spawning' /\ ~KillBefore'
  BY Zenon DEF kill_load, At, Spawning, KillBefore, KillAfter
<1>2. Kept /\ slot' = slot /\ UNCHANGED vars /\ reg' = active_tasks
  BY Zenon DEF kill_load, vars, Kept
<1>3. Alone' /\ EmptyBut({0, slot})'
  BY <1>1, <1>2, Destroying, KeptOthers, Zenon
<1>4. PreemptTypes'
  BY <1>1, <1>2, Zenon DEF PreemptInv, PreemptTypes, vars
<1>5. DestroyInv'
  <2>1. /\ state[slot] = "UNUSED" /\ waited[slot] = 0 /\ stack[slot] = NoStack
        /\ frame[slot] = NoStack /\ slot # 0 /\ active_tasks = 2
    BY <1>1, Zenon DEF PreemptInv, DestroyInv
  <2>2. UNCHANGED <<state, waited, stack, frame, active_tasks>>
    BY <1>2, Zenon DEF vars
  <2> QED BY <1>1, <1>2, <1>3, <2>1, <2>2, Zenon DEF DestroyInv
<1> QED BY <1>1, <1>4, <1>5, OtherModes, Zenon DEF PreemptInv

LEMMA KillStore == PreemptInv /\ kill_store => PreemptInv'
<1> SUFFICES ASSUME PreemptInv, kill_store PROVE PreemptInv'
  BY Zenon
<1>1. /\ pc = "kill_store" /\ pc' = "prompt" /\ KillAfter
      /\ ~KillAfter' /\ ~Spawning' /\ ~KillBefore'
  BY Zenon DEF kill_store, At, Spawning, KillBefore, KillAfter
<1>2. /\ Kept /\ slot' = slot /\ active_tasks' = reg - 1
      /\ UNCHANGED <<id, state, stack, frame, next_task_id, heap, waited>>
  BY Zenon DEF kill_store, switch, locals, Kept
<1>3. Alone' /\ EmptyBut({0, slot})'
  BY <1>1, <1>2, Destroying, KeptOthers, Zenon
<1>4. Empty(slot) /\ reg = 2
  BY <1>1, Zenon DEF PreemptInv, DestroyInv, Empty
<1>5. EmptyBut({0})'
  BY <1>2, <1>3, <1>4, Zenon DEF EmptyBut, Empty
<1>6. PreemptTypes'
  BY <1>1, <1>2, Zenon DEF PreemptInv, PreemptTypes
<1>7. PromptInv'
  <2>1. active_tasks' = 1
    BY <1>2, <1>4
  <2> QED BY <1>3, <1>5, <2>1, Zenon DEF PromptInv
<1> QED BY <1>1, <1>6, <1>7, OtherModes, Zenon DEF PreemptInv

\* A tick while task 0 is alone: it is saved and resumed.
Resumed == /\ frame' = [frame EXCEPT ![0] = BootStack]
           /\ UNCHANGED <<id, state, stack, current_task, current_index, next_task_id,
                          active_tasks, heap, cpu, waited>>

LEMMA TickAlone ==
  ASSUME PreemptTypes, Alone, active_tasks = 1, sched_tick
  PROVE  Resumed
<1>1. 0 \in Slots
  BY SchedAssumption DEF Slots
<1>2. sched_tick_alone
  <2>1. sched_tick_switch => active_tasks > 1
    BY Zenon DEF sched_tick_switch
  <2> QED BY <2>1 DEF sched_tick
<1>3. [state EXCEPT ![0] = "RUNNING"] = state
  BY <1>1, Zenon DEF Alone, PreemptTypes
<1> QED BY <1>2, <1>3, Zenon DEF sched_tick_alone, Alone, Resumed

\* A tick with two tasks counted: no zombies are found, and a READY task or the current
\* one goes on.
Waits(n) == [t \in Slots |-> IF state[t] = "READY" /\ t # n THEN waited[t] + 1 ELSE 0]
SavedCpu == [frame EXCEPT ![current_task] = cpu]

LEMMA TickSwitch ==
  ASSUME PreemptTypes, active_tasks = 2, sched_tick, current_task \in Slots,
         current_index = current_task, state[current_task] = "RUNNING"
  PROVE  /\ UNCHANGED <<id, stack, next_task_id, active_tasks, heap>>
         /\ \E n \in Ready \cup {current_task} :
              /\ state' = [t \in Slots |-> IF t = n THEN "RUNNING"
                                           ELSE IF t = current_task THEN "READY" ELSE state[t]]
              /\ SavedCpu[n] # NoStack => frame' = SavedCpu /\ cpu' = SavedCpu[n]
              /\ current_task' = n /\ current_index' = n /\ waited' = Waits(n)
<1>1. sched_tick_switch
  BY DEF sched_tick, sched_tick_alone
<1> DEFINE saved == [state EXCEPT ![current_task] = "READY"]
<1>2. SavedState = saved /\ SavedFrame = SavedCpu
  BY Zenon DEF SavedState, SavedFrame, SavedCpu
<1>3. /\ saved \in [Slots -> {"UNUSED", "READY", "RUNNING"}]
      /\ SavedCpu \in [Slots -> Stacks \cup {BootStack, NoStack, cpu}]
  BY Zenon DEF PreemptTypes, SavedCpu
<1>4. Dead = {}
  BY <1>2, <1>3, Zenon DEF Dead
<1>5. /\ DestroyedState(SavedState, Dead) = saved
      /\ DestroyedField(SavedFrame, Dead) = SavedCpu
  BY <1>2, <1>3, <1>4, Zenon DEF DestroyedState, DestroyedField
<1>6. DestroyedField(stack, Dead) = stack /\ heap \ DestroyedStacks(Dead) = heap
  BY <1>4, Zenon DEF DestroyedField, DestroyedStacks, PreemptTypes
<1>7. DestroyedCount(Dead) = 2
  <2>1. Cardinality({}) = 0
    BY FS_EmptySet, Zenon
  <2>2. DestroyedCount(Dead) = Max({2 - 0, 0})
    BY <1>4, <2>1, Zenon DEF DestroyedCount
  <2> QED BY <2>2, MaxPair
<1>8. UNCHANGED <<id, stack, next_task_id, active_tasks, heap>>
  BY <1>1, <1>6, <1>7, Zenon DEF sched_tick_switch
<1> DEFINE R == {t \in Slots : saved[t] = "READY"}
<1>9. R = Ready \cup {current_task} /\ R \in SUBSET Slots
  BY Zenon DEF PreemptTypes, Ready
<1> DEFINE n == pick_next_task(R)
<1>10. n \in R /\ R # {}
  BY <1>9, PickNext, Zenon
<1>11. /\ state' = [saved EXCEPT ![n] = "RUNNING"]
       /\ frame' = IF SavedCpu[n] = NoStack THEN [SavedCpu EXCEPT ![n] = cpu] ELSE SavedCpu
       /\ cpu' = IF R = {} \/ SavedCpu[n] = NoStack THEN cpu ELSE SavedCpu[n]
       /\ current_task' = n
       /\ current_index' = IF R = {} THEN current_index ELSE n
       /\ waited' = [t \in Slots |-> IF state[t] = "READY" /\ t # n
                                     THEN waited[t] + 1 ELSE 0]
  <2> HIDE DEF saved
  <2> QED BY <1>1, <1>5, <1>10, Zenon DEF sched_tick_switch
<1> HIDE DEF n
<1>12. state' = [t \in Slots |-> IF t = n THEN "RUNNING"
                                 ELSE IF t = current_task THEN "READY" ELSE state[t]]
  BY <1>11, Zenon DEF PreemptTypes
<1> HIDE DEF R
<1> QED BY <1>8, <1>9, <1>10, <1>11, <1>12, Zenon DEF Waits

\* After a kill, and before it is counted, the tick finds task 0 only.
LEMMA TickGone ==
  ASSUME PreemptTypes, Alone, active_tasks = 2, sched_tick, slot \in Slots,
         EmptyBut({0, slot}), state[slot] = "UNUSED", waited[slot] = 0
  PROVE  Resumed
<1>1. 0 \in Slots
  BY SchedAssumption DEF Slots
<1>2. Ready = {}
  BY Zenon DEF Ready, Alone, EmptyBut, Empty
<1>3. /\ current_task \in Slots /\ current_index = current_task
      /\ state[current_task] = "RUNNING"
  BY <1>1, Zenon DEF Alone
<1>4. /\ UNCHANGED <<id, stack, next_task_id, active_tasks, heap>>
      /\ \E n \in Ready \cup {current_task} :
           /\ state' = [t \in Slots |-> IF t = n THEN "RUNNING"
                                        ELSE IF t = current_task THEN "READY" ELSE state[t]]
           /\ SavedCpu[n] # NoStack => frame' = SavedCpu /\ cpu' = SavedCpu[n]
           /\ current_task' = n /\ current_index' = n /\ waited' = Waits(n)
  BY <1>3, TickSwitch, Zenon
<1>5. SavedCpu = [frame EXCEPT ![0] = BootStack] /\ SavedCpu[0] = BootStack
  BY <1>1, Zenon DEF SavedCpu, Alone, PreemptTypes
<1>6. Waits(0) = waited
  <2>1. \A t \in Slots : waited[t] = 0 /\ state[t] # "READY"
    <3>1. TAKE t \in Slots
    <3>2. CASE t = 0
      BY <3>2, Zenon DEF Alone
    <3>3. CASE t # 0 /\ t # slot
      BY <3>3, Zenon DEF EmptyBut, Empty
    <3> QED BY <3>2, <3>3, Zenon
  <2> QED BY <2>1, Zenon DEF Waits, PreemptTypes
<1>7. [t \in Slots |-> IF t = 0 THEN "RUNNING"
                       ELSE IF t = current_task THEN "READY" ELSE state[t]] = state
  BY Zenon DEF Alone, PreemptTypes
<1> QED BY <1>2, <1>4, <1>5, <1>6, <1>7, SchedAssumption DEF Resumed, Alone

\* With two tasks the tick switches between them, each on its stack.
LEMMA TickPaired ==
  ASSUME NEW u, NEW s, PreemptTypes, Paired(u, s), EmptyBut({0, u}), active_tasks = 2,
         sched_tick
  PROVE  /\ UNCHANGED <<id, stack, next_task_id, active_tasks, heap>>
         /\ Paired(u, s)' /\ EmptyBut({0, u})'
         /\ UNCHANGED <<pc, slot>> => PreemptTypes'
<1>1. 0 \in Slots /\ u \in Slots \ {0} /\ s \in Stacks
  BY SchedAssumption DEF Slots, Paired
<1>2. /\ current_task \in {0, u} /\ current_index = current_task
      /\ state[current_task] = "RUNNING"
  BY Zenon DEF Paired
<1>3. Ready \cup {current_task} = {0, u}
  BY <1>1, Zenon DEF Ready, Paired, EmptyBut, Empty
<1>4. UNCHANGED <<id, stack, next_task_id, active_tasks, heap>>
  BY <1>1, <1>2, TickSwitch, Zenon
<1>5. PICK n \in {0, u} :
           /\ state' = [t \in Slots |-> IF t = n THEN "RUNNING"
                                        ELSE IF t = current_task THEN "READY" ELSE state[t]]
           /\ SavedCpu[n] # NoStack => frame' = SavedCpu /\ cpu' = SavedCpu[n]
           /\ current_task' = n /\ current_index' = n /\ waited' = Waits(n)
  BY <1>1, <1>2, <1>3, TickSwitch, Zenon
<1>6. /\ SavedCpu[0] = BootStack /\ SavedCpu[u] = s
      /\ \A t \in Slots \ {0, u} : SavedCpu[t] = frame[t]
      /\ SavedCpu \in [Slots -> Stacks \cup {BootStack, NoStack}]
  BY <1>1, Zenon DEF SavedCpu, Paired, PreemptTypes
<1>7. frame' = SavedCpu /\ cpu' = SavedCpu[n]
  BY <1>1, <1>5, <1>6, SchedAssumption, Zenon
<1>8. waited' \in [Slots -> Nat] /\ waited'[n] = 0
  BY <1>1, <1>5 DEF Waits, PreemptTypes
<1>9. /\ state'[n] = "RUNNING" /\ \A t \in {0, u} : t # n => state'[t] = "READY"
      /\ \A t \in Slots \ {0, u} : state'[t] = state[t]
      /\ state' \in [Slots -> {"UNUSED", "READY", "RUNNING"}]
  BY <1>1, <1>2, <1>5, Zenon DEF Paired, PreemptTypes
<1>10. Paired(u, s)'
  BY <1>1, <1>4, <1>5, <1>6, <1>7, <1>8, <1>9, Zenon DEF Paired
<1>11. EmptyBut({0, u})'
  <2>1. \A t \in Slots \ {0, u} : state[t] = "UNUSED" /\ waited'[t] = 0
    BY <1>5, Zenon DEF EmptyBut, Empty, Waits
  <2> QED BY <1>4, <1>6, <1>7, <1>9, <2>1, Zenon DEF EmptyBut, Empty
<1>12. UNCHANGED <<pc, slot>> => PreemptTypes'
  BY <1>4, <1>6, <1>7, <1>8, <1>9, Zenon DEF PreemptTypes, Spawning, KillBefore, KillAfter
<1> QED BY <1>4, <1>10, <1>11, <1>12, Zenon

\* Ticks keep the invariant.
LEMMA ResumedKeeps == PreemptInv /\ Alone /\ Resumed /\ UNCHANGED shell => PreemptInv'
<1> SUFFICES ASSUME PreemptInv, Alone, Resumed, UNCHANGED shell PROVE PreemptInv'
  BY Zenon
<1>1. 0 \in Slots
  BY SchedAssumption DEF Slots
<1>2. /\ UNCHANGED <<pc, slot, ptr, reg, was>> /\ Spawning' = Spawning
      /\ KillBefore' = KillBefore /\ KillAfter' = KillAfter
  BY Zenon DEF shell, Spawning, KillBefore, KillAfter
<1>3. PreemptTypes'
  BY <1>1, <1>2, Zenon DEF PreemptInv, PreemptTypes, Resumed
<1>4. Alone'
  BY Zenon DEF Alone, Resumed
<1>5. \A t \in Slots \ {0} : frame'[t] = frame[t]
  BY Zenon DEF Resumed, PreemptInv, PreemptTypes
<1>6. EmptyBut({0}) => EmptyBut({0})'
  BY <1>5, Zenon DEF EmptyBut, Empty, Resumed
<1>7. EmptyBut({0, slot}) => EmptyBut({0, slot})'
  BY <1>2, <1>5, Zenon DEF EmptyBut, Empty, Resumed
<1>8. PromptInv'
  <2>1. SUFFICES ASSUME pc = "prompt" PROVE PromptInv'
    BY <1>2, Zenon DEF PromptInv
  <2>2. \A u \in Slots : ~Paired(u, stack[u]) \/ ~EmptyBut({0})
    BY Zenon DEF Paired, EmptyBut, Empty
  <2>3. CASE active_tasks = 1
    BY <1>2, <1>4, <1>6, <2>1, <2>3 DEF PreemptInv, PromptInv, Resumed
  <2>4. ASSUME NEW u \in Slots, active_tasks = 2, Paired(u, stack[u]), stack[u] \in heap,
               EmptyBut({0, u})
        PROVE  PromptInv'
    <3>1. Paired(u, stack[u])' /\ EmptyBut({0, u})'
      BY <1>5, <2>4, Zenon DEF Paired, EmptyBut, Empty, Resumed, Alone
    <3> QED BY <2>4, <3>1, Zenon DEF PromptInv, Resumed
  <2> QED BY <2>1, <2>3, <2>4, Zenon DEF PreemptInv, PromptInv
<1>9. FillInv'
  <2>1. FillInv /\ slot \in Slots
    BY Zenon DEF PreemptInv, PreemptTypes
  <2>2. /\ UNCHANGED <<id, state, stack, heap, active_tasks, next_task_id, waited>>
        /\ seen_next_id' = seen_next_id
    BY <1>2, Zenon DEF Resumed, seen_next_id
  <2>3. slot # 0 => frame'[slot] = frame[slot]
    BY <1>5, <2>1, Zenon
  <2> QED BY <1>2, <1>4, <1>7, <2>1, <2>2, <2>3, Zenon DEF FillInv
<1>10. DestroyInv'
  <2>1. KillBefore => Paired(slot, ptr)'
    BY <1>2, <1>5, Destroying, Zenon DEF Paired, Resumed, Alone
  <2>2. DestroyInv /\ slot \in Slots
    BY Zenon DEF PreemptInv, PreemptTypes
  <2>3. UNCHANGED <<id, state, stack, heap, active_tasks, waited>>
    BY Zenon DEF Resumed
  <2>4. slot # 0 => frame'[slot] = frame[slot]
    BY <1>5, <2>2, Zenon
  <2> QED BY <1>2, <1>4, <1>7, <2>1, <2>2, <2>3, <2>4, Zenon DEF DestroyInv
<1> QED BY <1>3, <1>8, <1>9, <1>10, Zenon DEF PreemptInv

\* The tick finds one of three situations.
LEMMA TickCases ==
  ASSUME PreemptInv, tick
  PROVE  \/ active_tasks = 1 /\ Alone /\ ~KillAfter /\ Resumed
         \/ KillAfter /\ Alone /\ Resumed
         \/ /\ pc = "prompt" \/ KillBefore
            /\ \E u \in Slots : /\ active_tasks = 2 /\ EmptyBut({0, u})
                                /\ Paired(u, IF KillBefore THEN ptr ELSE stack[u])
                                /\ KillBefore => u = slot
<1>1. sched_tick /\ PreemptTypes
  BY Zenon DEF tick, PreemptInv
<1>2. pc = "prompt" \/ Spawning \/ KillBefore \/ KillAfter
  BY Zenon DEF PreemptInv, PreemptTypes
<1>3. CASE KillAfter
  BY <1>1, <1>3, TickGone, Zenon DEF PreemptInv, DestroyInv, PreemptTypes
<1>4. CASE Spawning
  <2>1. ~KillAfter
    BY <1>4, Zenon DEF Spawning, KillAfter
  <2> QED BY <1>1, <1>4, <2>1, Filling, TickAlone, Zenon
<1>5. CASE KillBefore
  BY <1>5, Destroying, Zenon
<1>6. CASE pc = "prompt"
  <2>1. ~KillAfter /\ ~KillBefore
    BY <1>6, Zenon DEF KillAfter, KillBefore
  <2>2. CASE active_tasks = 1 /\ Alone
    BY <1>1, <2>1, <2>2, TickAlone, Zenon
  <2>3. CASE \E u \in Slots : /\ active_tasks = 2 /\ Paired(u, stack[u])
                              /\ EmptyBut({0, u})
    BY <1>6, <2>1, <2>3, Zenon
  <2> QED BY <1>6, <2>2, <2>3, Zenon DEF PreemptInv, PromptInv
<1> QED BY <1>2, <1>3, <1>4, <1>5, <1>6, Zenon

LEMMA PreemptTick == PreemptInv /\ tick => PreemptInv'
<1> SUFFICES ASSUME PreemptInv, tick PROVE PreemptInv'
  BY Zenon
<1>1. /\ UNCHANGED shell /\ UNCHANGED <<pc, slot, ptr, reg, was>> /\ sched_tick
      /\ Spawning' = Spawning /\ KillBefore' = KillBefore /\ KillAfter' = KillAfter
  BY Zenon DEF tick, shell, Spawning, KillBefore, KillAfter
<1>2. ASSUME pc = "prompt"
      PROVE  ~Spawning /\ ~KillBefore /\ ~KillAfter
  BY <1>2, Zenon DEF Spawning, KillBefore, KillAfter
<1>3. ASSUME KillBefore
      PROVE  ~Spawning /\ pc # "prompt" /\ ~KillAfter
  BY <1>3, Zenon DEF Spawning, KillBefore, KillAfter
<1>4. CASE Alone /\ Resumed
  BY <1>1, <1>4, ResumedKeeps, Zenon
<1>5. CASE pc = "prompt" /\ ~(Alone /\ Resumed)
  <2>1. PICK u \in Slots : /\ active_tasks = 2 /\ EmptyBut({0, u})
                           /\ Paired(u, stack[u]) /\ stack[u] \in heap
    <3>1. ~(active_tasks = 1 /\ Alone)
      BY <1>1, <1>5, TickAlone, Zenon DEF PreemptInv
    <3>2. PromptInv
      BY Zenon DEF PreemptInv
    <3> QED BY <1>5, <3>1, <3>2, Zenon DEF PromptInv
  <2>2. PICK s : s = stack[u]
    BY Zenon
  <2>3. /\ UNCHANGED <<id, stack, next_task_id, active_tasks, heap>>
        /\ Paired(u, s)' /\ EmptyBut({0, u})' /\ PreemptTypes'
    BY <1>1, <2>1, <2>2, TickPaired, Zenon DEF PreemptInv
  <2>4. Paired(u, stack[u])'
    BY <2>2, <2>3, Zenon DEF Paired
  <2>5. PromptInv'
    BY <2>1, <2>3, <2>4, Zenon DEF PromptInv
  <2> QED BY <1>1, <1>2, <1>5, <2>3, <2>5, OtherModes, Zenon DEF PreemptInv
<1>6. CASE KillBefore /\ ~(Alone /\ Resumed)
  <2>1. PICK u, s : u = slot /\ s = ptr
    BY Zenon
  <2>2. Paired(u, s) /\ EmptyBut({0, u}) /\ active_tasks = 2
    BY <1>6, <2>1, Destroying, Zenon
  <2>3. /\ UNCHANGED <<id, stack, next_task_id, active_tasks, heap>>
        /\ Paired(u, s)' /\ EmptyBut({0, u})' /\ PreemptTypes'
    BY <1>1, <2>2, TickPaired, Zenon DEF PreemptInv
  <2>4. Paired(slot, ptr)' /\ EmptyBut({0, slot})'
    BY <1>1, <2>1, <2>3, Zenon DEF Paired, EmptyBut, Empty
  <2>5. /\ active_tasks = 2 /\ id[slot] # 0 /\ (pc = "kill_kfree" <=> ptr \in heap)
        /\ stack[slot] = IF pc = "kill_unused" THEN NoStack ELSE ptr
    BY <1>6, Zenon DEF PreemptInv, DestroyInv
  <2>6. DestroyInv'
    BY <1>1, <1>3, <1>6, <2>3, <2>4, <2>5, Zenon DEF DestroyInv
  <2> QED BY <1>1, <1>3, <1>6, <2>3, <2>6, OtherModes, Zenon DEF PreemptInv
<1> QED BY <1>4, <1>5, <1>6, TickCases, Zenon

LEMMA PreemptStep ==
  ASSUME LIVE_BOUND \in 0 .. 2, PreemptInv, [PNext]_pvars
  PROVE  PreemptInv'
<1>1. CASE spawn
  BY <1>1, SpawnSlot, SpawnKmalloc, SpawnNoMemory, SpawnMemset, SpawnId, SpawnReady,
     SpawnStack, SpawnFrame, SpawnLoad, SpawnStore, Zenon DEF spawn
<1>2. CASE kill
  BY <1>2, KillFind, KillKfree, KillNull, KillUnused, KillFrame, KillLoad,
     KillStore, Zenon DEF kill
<1>3. CASE UNCHANGED pvars
  <2>1. /\ UNCHANGED <<id, state, stack, frame, current_task, current_index, next_task_id,
                       active_tasks, heap, cpu, waited, pc, slot, ptr, reg, was>>
    BY <1>3, Zenon DEF pvars, vars, shell
  <2>2. Spawning' = Spawning /\ KillBefore' = KillBefore /\ KillAfter' = KillAfter
    BY <2>1, Zenon DEF Spawning, KillBefore, KillAfter
  <2>3. PreemptTypes => PreemptTypes'
    BY <2>1, <2>2, Zenon DEF PreemptTypes
  <2>4. PromptInv => PromptInv'
    BY <2>1, Zenon DEF PromptInv, Alone, Paired, EmptyBut, Empty
  <2>5. FillInv => FillInv'
    BY <2>1, <2>2, Zenon DEF FillInv, Alone, EmptyBut, Empty, seen_next_id
  <2>6. DestroyInv => DestroyInv'
    BY <2>1, <2>2, Zenon DEF DestroyInv, Alone, Paired, EmptyBut, Empty
  <2> QED BY <2>3, <2>4, <2>5, <2>6, Zenon DEF PreemptInv
<1> QED BY <1>1, <1>2, <1>3, PreemptTick, Zenon DEF PNext

\* Between any two stores of spawn_task and destroy_task the task table is in one of the
\* shapes PreemptInv lists, and a tick keeps it there.
THEOREM PreemptInvariant == ASSUME LIVE_BOUND \in 0 .. 2 PROVE PSpec => []PreemptInv
<1>1. PreemptInv /\ [PNext]_pvars => PreemptInv'
  BY PreemptStep, Zenon
<1> QED BY <1>1, PreemptStart, PTL DEF PSpec

\* With at most one thread beside the shell every task is on its own stack, wherever in
\* spawn_task and sched_kill the ticks fall.
THEOREM PreemptRunsAtHome == ASSUME LIVE_BOUND \in 0 .. 2 PROVE PSpec => []RunsAtHome
<1>1. PreemptInv => RunsAtHome
  <2> SUFFICES ASSUME PreemptInv PROVE RunsAtHome
    BY Zenon
  <2>1. CASE Spawning
    <3>1. pc # "prompt" /\ frame[slot] \in {ptr, NoStack}
      BY <2>1, Zenon DEF PreemptInv, FillInv, Spawning
    <3>2. Alone /\ EmptyBut({0, slot}) /\ slot # 0
      BY <2>1, Filling, Zenon
    <3>3. Ready \subseteq {slot}
      BY <3>2, Zenon DEF Ready, Alone, EmptyBut, Empty
    <3> QED BY <3>1, <3>2, <3>3, Zenon DEF RunsAtHome, Home, Alone
  <2>2. CASE KillAfter
    <3>1. state[slot] = "UNUSED"
      BY <2>2, Zenon DEF PreemptInv, DestroyInv
    <3>2. Alone /\ EmptyBut({0, slot})
      BY <2>2, Destroying, Zenon
    <3>3. Ready = {}
      BY <3>1, <3>2, Zenon DEF Ready, Alone, EmptyBut, Empty
    <3> QED BY <3>2, <3>3, Zenon DEF RunsAtHome, Home, Alone
  <2>3. CASE KillBefore
    <3>1. pc # "prompt"
      BY <2>3, Zenon DEF KillBefore
    <3>2. Paired(slot, ptr) /\ EmptyBut({0, slot})
      BY <2>3, Destroying, Zenon
    <3>3. Ready \subseteq {0, slot}
      BY <3>2, Zenon DEF Ready, EmptyBut, Empty
    <3> QED BY <3>1, <3>2, <3>3, Zenon DEF RunsAtHome, Home, Paired, Ready
  <2>4. CASE pc = "prompt"
    BY <2>4, Zenon DEF PreemptInv, PromptInv, RunsAtHome, Home, Alone, Paired, EmptyBut, Empty,
       Ready
  <2> QED BY <2>1, <2>2, <2>3, <2>4, Zenon DEF PreemptInv, PreemptTypes
<1> QED BY <1>1, PreemptInvariant, PTL

-----------------------------------------------------------------------------
\* A step the atomic operations do not show.
Unseen == UNCHANGED <<seen_id, seen_state, seen_stack, seen_frame, current_task,
                      current_index, seen_next_id, seen_active, seen_heap, cpu, waited>>

\* What is seen in each situation.
LEMMA Seen ==
  /\ Spawning => /\ seen_id = [id EXCEPT ![slot] = was]
                 /\ seen_state = [state EXCEPT ![slot] = "UNUSED"]
                 /\ seen_stack = [stack EXCEPT ![slot] = NoStack]
                 /\ seen_frame = [frame EXCEPT ![slot] = NoStack]
                 /\ seen_active = active_tasks
  /\ pc = "prompt" \/ KillBefore \/ KillAfter =>
        /\ seen_id = id /\ seen_state = state /\ seen_next_id = next_task_id
        /\ seen_frame = IF KillAfter THEN [frame EXCEPT ![slot] = NoStack] ELSE frame
        /\ seen_stack = IF KillBefore THEN [stack EXCEPT ![slot] = ptr] ELSE stack
        /\ seen_active = IF KillAfter THEN active_tasks - 1 ELSE active_tasks
        /\ seen_heap = IF KillBefore THEN heap \cup {ptr} ELSE heap
<1>1. Spawning => ~KillAfter
  BY Zenon DEF Spawning, KillAfter
<1>2. pc = "prompt" \/ KillBefore \/ KillAfter => ~Spawning
  BY Zenon DEF Spawning, KillBefore, KillAfter
<1> QED BY <1>1, <1>2, Zenon DEF seen_id, seen_state, seen_stack, seen_frame, seen_active,
        seen_next_id, seen_heap

\* The stores of a spawn before the last are not seen.
LEMMA SpawnUnseen ==
  ASSUME LIVE_BOUND \in 0 .. 2, PreemptInv, spawn, ~spawn_store
  PROVE  Unseen
<1>1. CASE spawn_slot
  <2>1. /\ Spawning' /\ pc = "prompt" /\ pc' = "spawn_kmalloc" /\ ~KillBefore /\ ~KillAfter
        /\ UNCHANGED vars /\ was' = id[slot']
    BY <1>1, Zenon DEF spawn_slot, At, Spawning, KillBefore, KillAfter
  <2>2. PreemptInv' /\ Unused = Slots \ {0}
    BY <1>1, SpawnSlot, Zenon
  <2>3. Empty(slot)' /\ slot' \in Slots
    BY <2>1, <2>2, Zenon DEF PreemptInv, PreemptTypes, FillInv, Empty
  <2>4. /\ seen_id' = [id EXCEPT ![slot'] = was']
        /\ seen_state' = [state EXCEPT ![slot'] = "UNUSED"]
        /\ seen_stack' = [stack EXCEPT ![slot'] = NoStack]
        /\ seen_frame' = [frame EXCEPT ![slot'] = NoStack]
        /\ seen_active' = active_tasks /\ seen_next_id' = next_task_id /\ seen_heap' = heap
    BY <2>1, Zenon DEF Spawning, KillBefore, KillAfter, seen_id, seen_state, seen_stack,
       seen_frame, seen_active, seen_next_id, seen_heap, vars
  <2>5. /\ [id EXCEPT ![slot'] = was'] = id /\ [state EXCEPT ![slot'] = "UNUSED"] = state
        /\ [stack EXCEPT ![slot'] = NoStack] = stack
        /\ [frame EXCEPT ![slot'] = NoStack] = frame
    BY <2>1, <2>3, Zenon DEF PreemptInv, PreemptTypes, Empty, vars
  <2> QED BY <2>1, <2>4, <2>5, Seen, Zenon DEF Unseen, vars
<1>2. CASE spawn_no_memory
  <2>1. /\ Spawning /\ pc' = "prompt" /\ pc = "spawn_kmalloc" /\ ~KillBefore' /\ ~KillAfter'
        /\ UNCHANGED <<vars, locals>> /\ ~Spawning' /\ ~KillBefore
    BY <1>2, Zenon DEF spawn_no_memory, At, Spawning, KillBefore, KillAfter
  <2>2. Empty(slot) /\ id[slot] = was /\ slot \in Slots
    BY <2>1, Zenon DEF PreemptInv, PreemptTypes, FillInv, Empty
  <2>3. /\ [id EXCEPT ![slot] = was] = id /\ [state EXCEPT ![slot] = "UNUSED"] = state
        /\ [stack EXCEPT ![slot] = NoStack] = stack
        /\ [frame EXCEPT ![slot] = NoStack] = frame
    BY <2>2, Zenon DEF PreemptInv, PreemptTypes, Empty
  <2>4. /\ seen_id' = id /\ seen_state' = state /\ seen_stack' = stack
        /\ seen_frame' = frame
        /\ seen_active' = active_tasks /\ seen_next_id' = next_task_id /\ seen_heap' = heap
    BY <2>1, Zenon DEF seen_id, seen_state, seen_stack, seen_frame, seen_active, seen_next_id,
       seen_heap, vars
  <2>5. seen_next_id = next_task_id /\ seen_heap = heap
    BY <2>1, Zenon DEF seen_next_id, seen_heap
  <2>6. /\ seen_id = id /\ seen_state = state /\ seen_stack = stack /\ seen_frame = frame
        /\ seen_active = active_tasks
    BY <2>1, <2>3, Seen
  <2> QED BY <2>1, <2>4, <2>5, <2>6, Zenon DEF Unseen, vars
<1>3. CASE \/ spawn_kmalloc \/ spawn_memset \/ spawn_id \/ spawn_ready \/ spawn_stack
           \/ spawn_frame \/ spawn_load
  <2>1. /\ Spawning /\ Spawning' /\ UNCHANGED <<slot, was, active_tasks, current_task,
                                                 current_index, cpu>>
    BY <1>3, Zenon DEF spawn_kmalloc, spawn_memset, spawn_id, spawn_ready, spawn_stack,
       spawn_frame, spawn_load, At, Spawning, vars, locals, switch
  <2>2. /\ id' = id \/ \E v : id' = [id EXCEPT ![slot] = v]
        /\ state' = state \/ \E v : state' = [state EXCEPT ![slot] = v]
        /\ stack' = stack \/ \E v : stack' = [stack EXCEPT ![slot] = v]
        /\ frame' = frame \/ \E v : frame' = [frame EXCEPT ![slot] = v]
        /\ waited' = waited \/ waited' = [waited EXCEPT ![slot] = 0]
    BY <1>3, Zenon DEF spawn_kmalloc, spawn_memset, spawn_id, spawn_ready, spawn_stack,
       spawn_frame, spawn_load, vars
  <2>3. \A f, v, w : [[f EXCEPT ![slot] = v] EXCEPT ![slot] = w] = [f EXCEPT ![slot] = w]
    BY Zenon
  <2>4. /\ [id' EXCEPT ![slot] = was] = [id EXCEPT ![slot] = was]
        /\ [state' EXCEPT ![slot] = "UNUSED"] = [state EXCEPT ![slot] = "UNUSED"]
        /\ [stack' EXCEPT ![slot] = NoStack] = [stack EXCEPT ![slot] = NoStack]
        /\ [frame' EXCEPT ![slot] = NoStack] = [frame EXCEPT ![slot] = NoStack]
    BY <2>2, <2>3, Zenon
  <2>5. waited' = waited
    <3>1. waited[slot] = 0 /\ waited \in [Slots -> Nat]
      BY <2>1, Zenon DEF PreemptInv, PreemptTypes, FillInv
    <3>2. [waited EXCEPT ![slot] = 0] = waited
      BY <3>1, Zenon
    <3> QED BY <2>2, <3>2, Zenon
  <2>6. ~KillAfter /\ ~KillAfter'
    BY <2>1, Zenon DEF Spawning, KillAfter
  <2>7. /\ UNCHANGED <<seen_id, seen_state, seen_stack, seen_frame, seen_active>>
    BY <2>1, <2>4, <2>6, Zenon DEF seen_id, seen_state, seen_stack, seen_frame, seen_active
  <2>8. seen_heap' = seen_heap
    <3>1. CASE spawn_kmalloc
      <4>1. pc = "spawn_kmalloc" /\ pc' = "spawn_memset" /\ ~KillBefore
        BY <3>1, Zenon DEF spawn_kmalloc, At, KillBefore
      <4>2. heap' \ {ptr'} = heap
        BY <3>1, Zenon DEF spawn_kmalloc
      <4> QED BY <2>1, <4>1, <4>2, Zenon DEF seen_heap
    <3>2. CASE ~spawn_kmalloc
      <4>1. pc # "spawn_kmalloc" /\ pc' # "spawn_kmalloc" /\ UNCHANGED <<heap, ptr>>
        BY <1>3, <3>2, Zenon DEF spawn_memset, spawn_id, spawn_ready, spawn_stack, spawn_frame,
           spawn_load, At, vars, locals
      <4> QED BY <2>1, <4>1, Zenon DEF seen_heap
    <3> QED BY <3>1, <3>2, Zenon
  <2>9. seen_next_id' = seen_next_id
    <3>1. next_task_id \in Nat
      BY Zenon DEF PreemptInv, PreemptTypes
    <3>2. CASE spawn_id
      <4>1. pc = "spawn_id" /\ pc' = "spawn_ready" /\ next_task_id' = next_task_id + 1
        BY <3>2, Zenon DEF spawn_id, At
      <4> QED BY <2>1, <3>1, <4>1 DEF seen_next_id
    <3>3. CASE ~spawn_id
      <4>1. /\ next_task_id' = next_task_id
            /\ pc \in {"spawn_kmalloc", "spawn_memset", "spawn_id"}
                 <=> pc' \in {"spawn_kmalloc", "spawn_memset", "spawn_id"}
        BY <1>3, <3>3, Zenon DEF spawn_kmalloc, spawn_memset, spawn_ready, spawn_stack,
           spawn_frame, spawn_load, At, vars
      <4> QED BY <2>1, <4>1, Zenon DEF seen_next_id
    <3> QED BY <3>2, <3>3, Zenon
  <2> QED BY <2>1, <2>5, <2>7, <2>8, <2>9, Zenon DEF Unseen
<1> QED BY <1>1, <1>2, <1>3, Zenon DEF spawn

\* The last one is the spawn.
LEMMA SpawnSeen == PreemptInv /\ spawn_store => Atomic!spawn_task
<1> SUFFICES ASSUME PreemptInv, spawn_store PROVE Atomic!spawn_task
  BY Zenon
<1>1. /\ pc = "spawn_store" /\ pc' = "prompt"
      /\ Spawning /\ ~Spawning' /\ ~KillBefore' /\ ~KillAfter'
  BY Zenon DEF spawn_store, At, Spawning, KillBefore, KillAfter
<1>2. /\ active_tasks' = reg + 1
      /\ UNCHANGED <<id, state, stack, frame, next_task_id, heap, waited, current_task,
                     current_index, cpu, slot>>
  BY Zenon DEF spawn_store, switch, locals
<1>3. /\ active_tasks = 1 /\ reg = 1 /\ ptr \in heap /\ state[slot] = "READY"
      /\ stack[slot] = ptr /\ frame[slot] = ptr /\ slot = Min(Slots \ {0})
      /\ slot \in Slots \ {0} /\ id[slot] = seen_next_id /\ seen_next_id \in Nat
      /\ seen_next_id < ID_BOUND
      /\ waited[slot] = 0 /\ seen_next_id = next_task_id - 1
  BY <1>1, Zenon DEF PreemptInv, PreemptTypes, FillInv, seen_next_id
<1>4. ptr \in Stacks \ seen_heap /\ heap = seen_heap \cup {ptr}
  BY <1>1, <1>3, Zenon DEF PreemptInv, PreemptTypes, seen_heap
<1>5. /\ seen_id' = id /\ seen_state' = state /\ seen_stack' = stack /\ seen_frame' = frame
      /\ seen_active' = 2 /\ seen_next_id' = next_task_id /\ seen_heap' = heap
  <2>1. seen_id' = id /\ seen_state' = state /\ seen_stack' = stack /\ seen_frame' = frame
    BY <1>1, <1>2, Zenon DEF seen_id, seen_state, seen_stack, seen_frame
  <2>2. seen_active' = 2 /\ seen_next_id' = next_task_id /\ seen_heap' = heap
    BY <1>1, <1>2, <1>3 DEF seen_active, seen_next_id, seen_heap
  <2> QED BY <2>1, <2>2, Zenon
<1>6. /\ seen_id \in [Slots -> Nat \cup {was}] /\ seen_id = [id EXCEPT ![slot] = was]
      /\ seen_state = [state EXCEPT ![slot] = "UNUSED"]
      /\ seen_stack = [stack EXCEPT ![slot] = NoStack]
      /\ seen_frame = [frame EXCEPT ![slot] = NoStack] /\ seen_active = 1
  BY <1>1, <1>3, Seen, Zenon DEF PreemptInv, PreemptTypes
<1>7. /\ id = [seen_id EXCEPT ![slot] = seen_next_id]
      /\ state = [seen_state EXCEPT ![slot] = "READY"]
      /\ stack = [seen_stack EXCEPT ![slot] = ptr]
      /\ frame = [seen_frame EXCEPT ![slot] = ptr]
      /\ waited = [waited EXCEPT ![slot] = 0]
  BY <1>3, <1>6, Zenon DEF PreemptInv, PreemptTypes
<1>8. Alone /\ EmptyBut({0, slot})
  BY <1>1, Filling, Zenon
<1>9. Atomic!Unused = Slots \ {0}
  <2>1. \A t \in Slots : seen_state[t] = "UNUSED" <=> t # 0
    BY <1>3, <1>6, <1>8, Zenon DEF Alone, EmptyBut, Empty, PreemptInv, PreemptTypes
  <2> QED BY <2>1, Zenon DEF Atomic!Unused, Atomic!Slots, Slots
<1>10. Atomic!find_free_slot = slot /\ Atomic!Unused # {}
  BY <1>3, <1>9, Zenon DEF Atomic!find_free_slot, Atomic!Min, Min
<1>11. next_task_id = seen_next_id + 1
  BY <1>3 DEF PreemptInv, PreemptTypes
<1>12. /\ seen_heap' = seen_heap \cup {ptr}
       /\ seen_id' = [seen_id EXCEPT ![slot] = seen_next_id]
       /\ seen_next_id' = Atomic!IdAfterSpawn
       /\ seen_state' = [seen_state EXCEPT ![slot] = "READY"]
       /\ seen_stack' = [seen_stack EXCEPT ![slot] = ptr]
       /\ seen_frame' = [seen_frame EXCEPT ![slot] = ptr]
       /\ seen_active' = seen_active + 1
       /\ waited' = [waited EXCEPT ![slot] = 0]
  <2>1. seen_next_id' = Atomic!IdAfterSpawn
    BY <1>5, <1>11, Zenon DEF Atomic!IdAfterSpawn
  <2>2. seen_heap' = seen_heap \cup {ptr} /\ seen_active' = seen_active + 1
    BY <1>4, <1>5, <1>6
  <2>3. /\ seen_id' = [seen_id EXCEPT ![slot] = seen_next_id]
        /\ seen_state' = [seen_state EXCEPT ![slot] = "READY"]
        /\ seen_stack' = [seen_stack EXCEPT ![slot] = ptr]
        /\ seen_frame' = [seen_frame EXCEPT ![slot] = ptr]
    BY <1>5, <1>7, Zenon
  <2>4. waited' = [waited EXCEPT ![slot] = 0]
    BY <1>2, <1>7, Zenon
  <2> QED BY <2>1, <2>2, <2>3, <2>4, Zenon
<1>13. /\ current_task = 0 /\ UNCHANGED <<current_task, current_index, cpu>>
       /\ seen_next_id < ID_BOUND
  BY <1>2, <1>3, <1>8, Zenon DEF Alone
<1> QED BY <1>4, <1>10, <1>12, <1>13, Zenon DEF Atomic!spawn_task

\* Of the stores of a kill only the one that makes the slot UNUSED is seen ...
LEMMA KillUnseen ==
  ASSUME PreemptInv, kill, ~kill_unused
  PROVE  Unseen
<1>1. ASSUME NEW t \in Slots, kill_find(t) PROVE Unseen
  <2>1. /\ pc = "prompt" /\ pc' = "kill_kfree" /\ slot' = t /\ ptr' = stack[t]
        /\ UNCHANGED vars
    BY <1>1, Zenon DEF kill_find, At
  <2>2. /\ ~Spawning /\ ~KillBefore /\ ~KillAfter
        /\ ~Spawning' /\ KillBefore' /\ ~KillAfter'
    BY <2>1, Zenon DEF Spawning, KillBefore, KillAfter
  <2>3. PreemptInv'
    BY <1>1, KillFind, Zenon
  <2>4. stack[t] \in heap
    <3>1. stack'[slot'] = ptr' /\ ptr' \in heap'
      BY <2>1, <2>2, <2>3, Zenon DEF PreemptInv, DestroyInv
    <3> QED BY <2>1, <3>1, Zenon DEF vars
  <2>5. [stack EXCEPT ![t] = stack[t]] = stack /\ heap \cup {stack[t]} = heap
    BY <2>4, Zenon DEF PreemptInv, PreemptTypes
  <2> QED BY <2>1, <2>2, <2>5, Zenon DEF Unseen, vars, seen_id, seen_state, seen_stack,
             seen_frame,
          seen_active, seen_next_id, seen_heap
<1>2. CASE kill_kfree \/ kill_null
  <2>1. /\ ~Spawning /\ KillBefore /\ ~KillAfter /\ ~Spawning' /\ KillBefore' /\ ~KillAfter'
        /\ UNCHANGED <<id, state, frame, next_task_id, active_tasks, waited, slot, ptr,
                       current_task, current_index, cpu>>
    BY <1>2, Zenon DEF kill_kfree, kill_null, At, Spawning, KillBefore, KillAfter, switch,
       locals
  <2>2. [stack' EXCEPT ![slot] = ptr] = [stack EXCEPT ![slot] = ptr]
    BY <1>2, Zenon DEF kill_kfree, kill_null
  <2>3. heap' \cup {ptr} = heap \cup {ptr}
    <3>1. CASE kill_kfree
      <4>1. pc = "kill_kfree"
        BY <3>1, Zenon DEF kill_kfree, At
      <4>2. stack[slot] = ptr
        BY <2>1, <4>1, Zenon DEF PreemptInv, DestroyInv
      <4> QED BY <3>1, <4>2, Zenon DEF kill_kfree
    <3>2. CASE kill_null
      BY <3>2, Zenon DEF kill_null
    <3> QED BY <1>2, <3>1, <3>2, Zenon
  <2> QED BY <2>1, <2>2, <2>3, Zenon DEF Unseen, seen_id, seen_state, seen_stack, seen_frame,
          seen_active, seen_next_id, seen_heap
<1>3. CASE kill_frame \/ kill_load
  <2>1. /\ ~Spawning /\ ~KillBefore /\ KillAfter /\ ~Spawning' /\ ~KillBefore' /\ KillAfter'
        /\ UNCHANGED <<id, state, stack, next_task_id, active_tasks, heap, waited, slot,
                       current_task, current_index, cpu>>
    BY <1>3, Zenon DEF kill_frame, kill_load, At, Spawning, KillBefore, KillAfter, vars,
       switch,
       locals
  <2>2. [frame' EXCEPT ![slot] = NoStack] = [frame EXCEPT ![slot] = NoStack]
    BY <1>3, Zenon DEF kill_frame, kill_load, vars
  <2> QED BY <2>1, <2>2, Zenon DEF Unseen, seen_id, seen_state, seen_stack, seen_frame,
          seen_active, seen_next_id, seen_heap
<1>4. CASE kill_store
  <2>1. /\ ~Spawning /\ ~KillBefore /\ KillAfter
        /\ ~Spawning' /\ ~KillBefore' /\ ~KillAfter'
        /\ UNCHANGED <<id, state, stack, frame, next_task_id, heap, waited, slot,
                       current_task, current_index, cpu>>
        /\ active_tasks' = reg - 1 /\ pc = "kill_store"
    BY <1>4, Zenon DEF kill_store, At, Spawning, KillBefore, KillAfter, switch, locals
  <2>2. reg = active_tasks /\ frame[slot] = NoStack
    BY <2>1, Zenon DEF PreemptInv, DestroyInv
  <2>3. [frame EXCEPT ![slot] = NoStack] = frame
    BY <2>2, Zenon DEF PreemptInv, PreemptTypes
  <2> QED BY <2>1, <2>2, <2>3, Zenon DEF Unseen, seen_id, seen_state, seen_stack, seen_frame,
          seen_active, seen_next_id, seen_heap
<1> QED BY <1>1, <1>2, <1>3, <1>4, Zenon DEF kill

\* ... as the kill.
LEMMA KillSeen == PreemptInv /\ kill_unused => Atomic!sched_kill(slot) /\ slot \in Slots
<1> SUFFICES ASSUME PreemptInv, kill_unused PROVE Atomic!sched_kill(slot) /\ slot \in Slots
  BY Zenon
<1>1. /\ ~Spawning /\ KillBefore /\ ~KillAfter /\ ~Spawning' /\ ~KillBefore' /\ KillAfter'
      /\ UNCHANGED <<id, stack, frame, next_task_id, active_tasks, heap, slot, current_task,
                     current_index, cpu>>
      /\ state' = [state EXCEPT ![slot] = "UNUSED"] /\ waited' = [waited EXCEPT ![slot] = 0]
      /\ pc = "kill_unused"
  BY Zenon DEF kill_unused, At, Spawning, KillBefore, KillAfter, switch, locals
<1>2. Alone
  BY KillUnused, Zenon
<1>3. /\ slot \in Slots \ {0} /\ active_tasks = 2 /\ state[slot] = "READY"
      /\ id[slot] # 0 /\ ptr \notin heap /\ stack[slot] = NoStack
  <2>1. id[slot] # 0 /\ ptr \notin heap /\ stack[slot] = NoStack
    BY <1>1, Zenon DEF PreemptInv, DestroyInv
  <2>2. slot \in Slots \ {0} /\ active_tasks = 2 /\ Paired(slot, ptr)
    BY <1>1, Destroying, Zenon
  <2> QED BY <1>2, <2>1, <2>2, Zenon DEF Paired, Alone
<1>4. /\ seen_id = id /\ seen_state = state /\ seen_stack = [stack EXCEPT ![slot] = ptr]
      /\ seen_frame = frame /\ seen_next_id = next_task_id /\ seen_active = 2
      /\ seen_heap = heap \cup {ptr}
  BY <1>1, <1>3, Zenon DEF seen_id, seen_state, seen_stack, seen_frame, seen_active,
     seen_next_id, seen_heap
<1>5. /\ seen_id' = id /\ seen_state' = state' /\ seen_stack' = stack
      /\ seen_frame' = [frame EXCEPT ![slot] = NoStack] /\ seen_next_id' = next_task_id
      /\ seen_active' = 1 /\ seen_heap' = heap
  BY <1>1, <1>3 DEF seen_id, seen_state, seen_stack, seen_frame, seen_active, seen_next_id,
     seen_heap
<1>6. seen_state' = Atomic!DestroyedState(seen_state, {slot})
  BY <1>1, <1>4, <1>5, Zenon DEF Atomic!DestroyedState, Atomic!Slots, Slots, PreemptInv,
     PreemptTypes
<1>7. seen_stack' = Atomic!DestroyedField(seen_stack, {slot})
  BY <1>3, <1>4, <1>5, Zenon DEF Atomic!DestroyedField, Atomic!Slots, Slots, PreemptInv,
     PreemptTypes
<1>8. seen_frame' = Atomic!DestroyedField(seen_frame, {slot})
  BY <1>3, <1>4, <1>5, Zenon DEF Atomic!DestroyedField, Atomic!Slots, Slots, PreemptInv,
     PreemptTypes
<1>9. seen_heap' = seen_heap \ Atomic!DestroyedStacks({slot})
  <2>1. seen_stack[slot] = ptr
    BY <1>3, <1>4, Zenon DEF PreemptInv, PreemptTypes
  <2> QED BY <1>3, <1>4, <1>5, <2>1, Zenon DEF Atomic!DestroyedStacks
<1>10. seen_active' = Atomic!DestroyedCount({slot})
  <2>1. Cardinality({slot}) = 1
    BY FS_Singleton, Zenon
  <2>2. Atomic!DestroyedCount({slot}) = Max({2 - 1, 0})
    BY <1>4, <2>1, Zenon DEF Atomic!DestroyedCount, Atomic!Max, Max, Atomic!Cardinality,
       Cardinality
  <2> QED BY <1>5, <2>2, MaxPair
<1>11. /\ current_task = 0 /\ seen_state[slot] = "READY" /\ seen_id[slot] # 0
       /\ slot # current_task /\ waited' = [waited EXCEPT ![slot] = 0]
       /\ UNCHANGED <<seen_id, current_task, current_index, seen_next_id, cpu>>
  BY <1>1, <1>2, <1>3, <1>4, <1>5, Zenon DEF Alone
<1> QED BY <1>3, <1>6, <1>7, <1>8, <1>9, <1>10, <1>11, Zenon DEF Atomic!sched_kill

\* A tick is a tick: while task 0 is alone ...
LEMMA ResumedSeen ==
  ASSUME PreemptInv, Alone, Resumed, UNCHANGED shell, seen_active = 1
  PROVE  Atomic!sched_tick_alone
<1>1. /\ UNCHANGED <<pc, slot, ptr, was>> /\ Spawning' = Spawning
      /\ KillBefore' = KillBefore /\ KillAfter' = KillAfter
  BY Zenon DEF shell, Spawning, KillBefore, KillAfter
<1>2. /\ UNCHANGED <<seen_id, seen_state, seen_stack, seen_active, seen_next_id, seen_heap>>
  BY <1>1, Zenon DEF Resumed, seen_id, seen_state, seen_stack, seen_active, seen_next_id,
     seen_heap
<1>3. 0 \in Slots /\ (Spawning \/ KillAfter => slot \in Slots \ {0})
  BY Filling, Destroying, SchedAssumption DEF Slots
<1>4. seen_frame' = [seen_frame EXCEPT ![0] = BootStack]
  <2>1. [[frame EXCEPT ![0] = BootStack] EXCEPT ![slot] = NoStack]
          = [[frame EXCEPT ![slot] = NoStack] EXCEPT ![0] = BootStack]
        \/ slot = 0
    BY Zenon DEF PreemptInv, PreemptTypes
  <2> QED BY <1>1, <1>3, <2>1, Zenon DEF Resumed, seen_frame
<1>5. seen_state[0] = "RUNNING" /\ [seen_state EXCEPT ![0] = "RUNNING"] = seen_state
  BY <1>3, Zenon DEF seen_state, Alone, PreemptInv, PreemptTypes
<1>6. /\ current_task = 0 /\ cpu = BootStack
      /\ UNCHANGED <<current_task, current_index, cpu, waited>>
  BY Zenon DEF Alone, Resumed
<1>7. 0 # Atomic!None
  BY DEF Atomic!None
<1> QED BY <1>2, <1>4, <1>5, <1>6, <1>7 DEF Atomic!sched_tick_alone

\* ... and when it is not.
LEMMA SwitchSeen ==
  ASSUME PreemptInv, tick, pc = "prompt" \/ KillBefore, active_tasks = 2,
         current_task \in Slots
  PROVE  Atomic!sched_tick_switch
<1>1. /\ UNCHANGED <<pc, slot, ptr>> /\ sched_tick_switch
  BY DEF tick, shell, sched_tick, sched_tick_alone
<1>2. /\ ~Spawning /\ ~KillAfter /\ ~Spawning' /\ ~KillAfter' /\ KillBefore' = KillBefore
  BY <1>1, Zenon DEF Spawning, KillBefore, KillAfter
<1>3. /\ seen_id = id /\ seen_state = state /\ seen_frame = frame
      /\ seen_next_id = next_task_id /\ seen_active = active_tasks
      /\ seen_id' = id' /\ seen_state' = state' /\ seen_frame' = frame'
      /\ seen_next_id' = next_task_id' /\ seen_active' = active_tasks'
  BY <1>2, Zenon DEF seen_id, seen_state, seen_frame, seen_active, seen_next_id
<1>4. Dead = {}
  BY Zenon DEF Dead, SavedState, PreemptInv, PreemptTypes
<1>5. /\ Atomic!SavedState = SavedState /\ Atomic!SavedFrame = SavedFrame
      /\ Atomic!Slots = Slots /\ Atomic!None = None
  BY <1>3, Zenon DEF Atomic!SavedState, SavedState, Atomic!SavedFrame, SavedFrame,
     Atomic!Slots,
     Slots, Atomic!None, None
<1>6. Atomic!Dead = Dead
  BY <1>5, Zenon DEF Atomic!Dead, Dead
<1>7. /\ \A f, D : Atomic!DestroyedState(f, D) = DestroyedState(f, D)
      /\ \A f, D : Atomic!DestroyedField(f, D) = DestroyedField(f, D)
  BY <1>5, Zenon DEF Atomic!DestroyedState, DestroyedState, Atomic!DestroyedField,
     DestroyedField
<1>8. Atomic!DestroyedCount(Dead) = DestroyedCount(Dead)
  BY <1>3, Zenon DEF Atomic!DestroyedCount, DestroyedCount, Atomic!Max, Max,
     Atomic!Cardinality, Cardinality
<1>9. \A R : Atomic!pick_next_task(R) = pick_next_task(R)
  BY Zenon DEF Atomic!pick_next_task, pick_next_task, Atomic!Ahead, Ahead
<1>10. stack' = stack /\ heap' = heap
  BY <1>1, <1>4, Zenon DEF sched_tick_switch, DestroyedField, DestroyedStacks, PreemptInv,
     PreemptTypes
<1>11. UNCHANGED <<seen_stack, seen_heap>>
  BY <1>1, <1>2, <1>10, Zenon DEF seen_stack, seen_heap
<1>12. DestroyedField(seen_stack, Dead) = seen_stack
  BY <1>2, <1>4, Zenon DEF DestroyedField, seen_stack, PreemptInv, PreemptTypes
<1>13. seen_heap \ Atomic!DestroyedStacks(Dead) = seen_heap
  BY <1>4, Zenon DEF Atomic!DestroyedStacks
<1> QED BY <1>1, <1>3, <1>5, <1>6, <1>7, <1>8, <1>9, <1>11, <1>12, <1>13, Zenon
        DEF sched_tick_switch, Atomic!sched_tick_switch

LEMMA TickSeen == PreemptInv /\ tick => Atomic!sched_tick
<1> SUFFICES ASSUME PreemptInv, tick PROVE Atomic!sched_tick
  BY Zenon
<1>1. UNCHANGED shell
  BY Zenon DEF tick
<1>2. CASE active_tasks = 1 /\ Alone /\ ~KillAfter /\ Resumed
  <2>1. seen_active = 1
    BY <1>2, Zenon DEF seen_active
  <2> QED BY <1>1, <1>2, <2>1, ResumedSeen, Zenon DEF Atomic!sched_tick
<1>3. CASE KillAfter /\ Alone /\ Resumed
  <2>1. seen_active = 1
    BY <1>3, Destroying DEF seen_active
  <2> QED BY <1>1, <1>3, <2>1, ResumedSeen, Zenon DEF Atomic!sched_tick
<1>4. ASSUME NEW u \in Slots, pc = "prompt" \/ KillBefore, active_tasks = 2,
             Paired(u, IF KillBefore THEN ptr ELSE stack[u])
      PROVE  Atomic!sched_tick
  <2>1. current_task \in Slots
    BY <1>4, SchedAssumption DEF Paired, Slots
  <2> QED BY <1>4, <2>1, SwitchSeen, Zenon DEF Atomic!sched_tick
<1> QED BY <1>2, <1>3, <1>4, TickCases, Zenon

LEMMA StepSeen ==
  ASSUME LIVE_BOUND \in 0 .. 2, PreemptInv, [PNext]_pvars
  PROVE  [Atomic!Next]_(Atomic!vars)
<1>1. Unseen => UNCHANGED Atomic!vars
  BY Zenon DEF Unseen, Atomic!vars
<1>2. CASE spawn
  BY <1>1, <1>2, SpawnUnseen, SpawnSeen, Zenon DEF Atomic!Next
<1>3. CASE kill
  <2>1. CASE kill_unused
    <3>1. slot \in Atomic!Slots
      BY <2>1, KillSeen, Zenon DEF Atomic!Slots, Slots
    <3> QED BY <2>1, <3>1, KillSeen, Zenon DEF Atomic!Next
  <2> QED BY <1>1, <1>3, <2>1, KillUnseen, Zenon
<1>4. CASE tick
  BY <1>4, TickSeen, Zenon DEF Atomic!Next
<1>5. CASE UNCHANGED pvars
  BY <1>5, Zenon DEF pvars, vars, shell, Atomic!vars, seen_id, seen_state, seen_stack,
     seen_frame, seen_active, seen_next_id, seen_heap, Spawning, KillBefore, KillAfter
<1> QED BY <1>2, <1>3, <1>4, <1>5, Zenon DEF PNext

\* With at most one thread beside the shell, spawn_task and sched_kill interrupted
\* between any two stores implement the operations of Sched, which are atomic.
THEOREM PreemptRefinement == ASSUME LIVE_BOUND \in 0 .. 2 PROVE PSpec => AtomicSpec
<1>1. PInit => Atomic!Init
  BY Zenon DEF PInit, Init, Atomic!Init, Atomic!Slots, Slots, seen_id, seen_state, seen_stack,
     seen_frame, seen_active, seen_next_id, seen_heap, Spawning, KillBefore, KillAfter
<1>2. PreemptInv /\ [PNext]_pvars => [Atomic!Next]_(Atomic!vars)
  BY StepSeen, Zenon
<1> QED BY <1>1, <1>2, PreemptInvariant, PTL DEF PSpec, AtomicSpec, Atomic!Spec
=============================================================================
