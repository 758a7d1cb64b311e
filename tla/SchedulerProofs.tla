-------------------------- MODULE SchedulerProofs --------------------------
(***************************************************************************)
(* What Scheduler and SchedPreempt guarantee for every number of tasks,    *)
(* every id width and every bound on the ticks.  With whole operations: the*)
(* ring stays one cycle through exactly the allocated tasks, its head is   *)
(* the running task, the interrupt handler runs off its end only when no   *)
(* other task is left, and ids are unique until the counter wraps.  With   *)
(* ticks inside the operations: which of these promises hold wherever a    *)
(* tick lands, and which critical section each of the others needs.        *)
(***************************************************************************)
EXTENDS SchedPreempt, SequenceTheorems, FiniteSetTheorems, WellFoundedInduction, TLAPS

(***************************************************************************)
(* The ring on its own: what inserting behind the head and taking a task   *)
(* out do to a function that is a single cycle.                            *)
(***************************************************************************)

\* One cycle through every element of the set T.
Cycle(T, f) ==
    /\ \A t \in T : f[t] \in T
    /\ \A t \in T : \E p \in T : f[p] = t
    /\ \A s, t \in T : f[s] = f[t] => s = t
    /\ \A C \in SUBSET T : (C # {} /\ \A t \in C : f[t] \in C) => C = T

\* A task alone in the ring points to itself.
LEMMA CycleOne ==
    ASSUME NEW t
    PROVE  Cycle({t}, [x \in {t} |-> t])
  BY DEF Cycle

\* insert_task: t goes between h and its successor.
LEMMA CycleInsert ==
    ASSUME NEW T, NEW f, NEW h \in T, NEW t, t \notin T, Cycle(T, f),
           NEW g, g = [x \in T \cup {t} |->
                          IF x = h THEN t ELSE IF x = t THEN f[h] ELSE f[x]]
    PROVE  Cycle(T \cup {t}, g)
<1> DEFINE U == T \cup {t}
<1>0. /\ g[h] = t
      /\ g[t] = f[h]
      /\ \A x \in T : x # h => g[x] = f[x]
      /\ \A x \in T : f[x] \in T
  BY DEF Cycle
<1>1. \A x \in U : g[x] \in U
  BY <1>0
<1>2. ASSUME NEW x \in U PROVE \E p \in U : g[p] = x
  <2>1. CASE x = t
    BY <1>0, <2>1
  <2>2. CASE x # t
    <3>1. PICK p \in T : f[p] = x
      BY <2>2 DEF Cycle
    <3>2. CASE p = h
      BY <1>0, <3>1, <3>2
    <3>3. CASE p # h
      BY <1>0, <3>1, <3>3
    <3> QED
      BY <3>2, <3>3
  <2> QED
    BY <2>1, <2>2
<1>3. ASSUME NEW x \in U, NEW y \in U, g[x] = g[y] PROVE x = y
  BY <1>0, <1>3 DEF Cycle
<1>4. ASSUME NEW C \in SUBSET U, C # {}, \A x \in C : g[x] \in C
      PROVE  C = U
  \* Without t, C is closed under f; and it holds t since it holds h.
  <2> DEFINE R == C \ {t}
  <2>1. R \in SUBSET T
    OBVIOUS
  <2>2. \A x \in R : f[x] \in R
    <3> SUFFICES ASSUME NEW x \in R PROVE f[x] \in R
      OBVIOUS
    <3>1. CASE x = h
      <4>1. t \in C
        BY <1>0, <1>4, <3>1
      <4> QED
        BY <1>0, <1>4, <3>1, <4>1
    <3>2. CASE x # h
      BY <1>0, <1>4, <3>2
    <3> QED
      BY <3>1, <3>2
  <2>3. R # {}
    <3>1. CASE t \in C
      BY <1>0, <1>4, <3>1
    <3>2. CASE t \notin C
      BY <1>4, <3>2
    <3> QED
      BY <3>1, <3>2
  <2>4. R = T
    BY <2>1, <2>2, <2>3 DEF Cycle
  <2>5. t \in C
    BY <1>0, <1>4, <2>4
  <2> QED
    BY <2>4, <2>5
<1> HIDE DEF U
<1>5. Cycle(U, g)
  BY <1>1, <1>2, <1>3, <1>4 DEF Cycle
<1> QED
  BY <1>5 DEF U

\* Unlinking: the predecessor of t takes over its successor.
LEMMA CycleRemove ==
    ASSUME NEW T, NEW f, NEW t \in T, Cycle(T, f), f[t] # t,
           NEW g, g = [x \in T \ {t} |-> IF f[x] = t THEN f[t] ELSE f[x]]
    PROVE  Cycle(T \ {t}, g)
<1> DEFINE U == T \ {t}
<1>0. /\ \A x \in U : f[x] = t => g[x] = f[t]
      /\ \A x \in U : f[x] # t => g[x] = f[x]
      /\ \A x \in T : f[x] \in T
  BY DEF Cycle
<1>1. \A x \in U : g[x] \in U
  BY <1>0
<1>2. ASSUME NEW x \in U PROVE \E p \in U : g[p] = x
  <2>1. PICK p \in T : f[p] = x
    BY DEF Cycle
  <2>2. CASE p = t
    <3>1. PICK q \in T : f[q] = t
      BY DEF Cycle
    <3>2. q \in U
      BY <3>1
    <3> QED
      BY <1>0, <2>1, <2>2, <3>1, <3>2
  <2>3. CASE p # t
    BY <1>0, <2>1, <2>3
  <2> QED
    BY <2>2, <2>3
<1>3. ASSUME NEW x \in U, NEW y \in U, g[x] = g[y] PROVE x = y
  BY <1>0, <1>3 DEF Cycle
<1>4. ASSUME NEW C \in SUBSET U, C # {}, \A x \in C : g[x] \in C
      PROVE  C = U
  <2>1. CASE \E x \in C : f[x] = t
    \* Then the successor of t is in C and C with t is closed under f.
    <3> DEFINE R == C \cup {t}
    <3>1. PICK q \in C : f[q] = t
      BY <2>1
    <3>2. f[t] \in C
      BY <1>0, <1>4, <3>1
    <3>3. \A x \in R : f[x] \in R
      BY <1>0, <1>4, <3>2
    <3>4. R \in SUBSET T /\ R # {}
      OBVIOUS
    <3>5. R = T
      BY <3>3, <3>4 DEF Cycle
    <3> QED
      BY <3>5
  <2>2. CASE \A x \in C : f[x] # t
    <3>1. \A x \in C : f[x] \in C
      BY <1>0, <1>4, <2>2
    <3>2. C = T
      BY <1>4, <3>1 DEF Cycle
    <3> QED
      BY <1>4, <3>2
  <2> QED
    BY <2>1, <2>2
<1> HIDE DEF U
<1>5. Cycle(U, g)
  BY <1>1, <1>2, <1>3, <1>4 DEF Cycle
<1> QED
  BY <1>5 DEF U

\* A task that points to itself is alone.
LEMMA CycleAlone ==
    ASSUME NEW T, NEW f, NEW t \in T, Cycle(T, f), f[t] = t
    PROVE  T = {t}
<1>1. {t} \in SUBSET T /\ {t} # {} /\ \A x \in {t} : f[x] \in {t}
  OBVIOUS
<1> QED
  BY <1>1 DEF Cycle

-----------------------------------------------------------------------------
(***************************************************************************)
(* The inductive invariant.  RingIntact alone is not inductive: killing    *)
(* the head breaks the ring, and only HeadIsCurrent rules that out.        *)
(***************************************************************************)

\* The inductive invariant.  The ring survives a kill only because its head is
\* the running task, which the self-kill test spares, and ready_list stays
\* allocated only because the ring is closed: no part is inductive by itself.
IInv == TypeOK /\ RingIntact /\ HeadIsCurrent /\ LostOnlyWhenAlone

\* RingIntact in terms of Cycle, so that the lemmas above apply.
LEMMA RingIsCycle ==
    RingIntact <=> (ready_list = NULL <=> tasks = {}) /\ Cycle(tasks, next)
  BY DEF RingIntact, RingClosed, OnePredecessor, SingleCycle, Cycle

\* The same in the next state.
LEMMA RingIsCyclePrime ==
    RingIntact' <=> (ready_list' = NULL <=> tasks' = {}) /\ Cycle(tasks', next')
  BY DEF RingIntact, RingClosed, OnePredecessor, SingleCycle, Cycle

\* The boot state has no task at all.
LEMMA InitIInv == Init => IInv
<1> SUFFICES ASSUME Init PROVE IInv
  OBVIOUS
<1> USE ConstantsAssumption
<1>1. TypeOK
  <2>1. next_task_id \in Ids
    BY DEF Init, Ids
  <2>2. /\ next \in [tasks -> Task]
        /\ id \in [tasks -> Ids]
        /\ entry \in [tasks -> Entries]
    BY DEF Init
  <2> QED
    BY <2>1, <2>2 DEF Init, TypeOK, Modes
<1>2. RingIntact
  <2>1. Cycle(tasks, next)
    BY DEF Init, Cycle
  <2> QED
    BY <2>1, RingIsCycle DEF Init
<1>3. HeadIsCurrent /\ LostOnlyWhenAlone
  BY DEF Init, HeadIsCurrent, LostOnlyWhenAlone
<1> QED
  BY <1>1, <1>2, <1>3 DEF IInv

\* task_create keeps types and ring, and moves the head only in an empty ring.
LEMMA TaskCreateStep ==
    ASSUME IInv, NEW t \in Task, NEW e \in Entries, TaskCreate(t, e)
    PROVE  /\ tasks' \subseteq Task
           /\ next' \in [tasks' -> Task]
           /\ id' \in [tasks' -> Ids]
           /\ entry' \in [tasks' -> Entries]
           /\ ready_list' \in tasks'
           /\ next_task_id' \in Ids
           /\ RingIntact'
           /\ ready_list # NULL => ready_list' = ready_list
<1> USE ConstantsAssumption
<1>1. /\ TypeOK
      /\ Cycle(tasks, next)
      /\ ready_list = NULL <=> tasks = {}
  BY RingIsCycle DEF IInv
<1>2. /\ tasks' = tasks \cup {t}
      /\ t \notin tasks
      /\ t # NULL
  BY DEF TaskCreate
<1>3. /\ id' \in [tasks' -> Ids]
      /\ entry' \in [tasks' -> Entries]
  BY <1>1, <1>2 DEF TaskCreate, With, TypeOK, Ids
<1>4. next_task_id' \in Ids
  BY <1>1 DEF TaskCreate, TypeOK, Ids
<1>5. CASE ready_list = NULL
  <2>1. /\ tasks = {}
        /\ ready_list' = t
        /\ next' = [x \in {t} |-> t]
    BY <1>1, <1>5 DEF TaskCreate, InsertTask, With
  <2>2. Cycle({t}, [x \in {t} |-> t])
    BY CycleOne
  <2>3. RingIntact'
    BY <1>2, <2>1, <2>2, RingIsCyclePrime
  <2> QED
    BY <1>2, <1>3, <1>4, <1>5, <2>1, <2>3
<1>6. CASE ready_list # NULL
  <2>1. ready_list \in tasks
    BY <1>1, <1>6 DEF TypeOK
  <2>2. next' = [x \in tasks \cup {t} |->
                    IF x = ready_list THEN t
                    ELSE IF x = t THEN next[ready_list] ELSE next[x]]
    BY <1>2, <1>6, <2>1 DEF TaskCreate, InsertTask, With
  <2>3. ready_list' = ready_list
    BY <1>6 DEF TaskCreate, InsertTask
  <2>4. Cycle(tasks \cup {t}, next')
    BY <1>1, <1>2, <2>1, <2>2, CycleInsert
  <2>5. RingIntact'
    BY <1>2, <1>6, <2>3, <2>4, RingIsCyclePrime
  <2>6. next' \in [tasks' -> Task]
    BY <1>1, <1>2, <2>1, <2>2 DEF TypeOK
  <2> QED
    BY <1>1, <1>2, <1>3, <1>4, <2>1, <2>3, <2>5, <2>6 DEF TypeOK
<1> QED
  BY <1>5, <1>6

\* Taking out and freeing a task t keeps types and ring, with the head moved
\* to the successor if t was the head.
LEMMA DestroyStep ==
    ASSUME IInv, NEW t \in tasks, Release(t), next' = Unlinked(tasks, t),
           ready_list' = IF t # ready_list THEN ready_list
                         ELSE IF next[t] = t THEN NULL ELSE next[t]
    PROVE  /\ tasks' = tasks \ {t}
           /\ tasks' \subseteq Task
           /\ next' \in [tasks' -> Task]
           /\ id' \in [tasks' -> Ids]
           /\ entry' \in [tasks' -> Entries]
           /\ ready_list' \in tasks' \cup {NULL}
           /\ RingIntact'
<1> USE ConstantsAssumption
<1>1. /\ TypeOK
      /\ Cycle(tasks, next)
      /\ ready_list = NULL <=> tasks = {}
  BY RingIsCycle DEF IInv
<1>2. tasks' = tasks \ {t}
  BY DEF Release
<1>3. /\ tasks' \subseteq Task
      /\ id' \in [tasks' -> Ids]
      /\ entry' \in [tasks' -> Entries]
      /\ next' \in [tasks' -> Task]
  BY <1>1 DEF TypeOK, Release, Without, Unlinked
<1>4. ready_list \in tasks
  BY <1>1 DEF TypeOK
<1>5. CASE next[t] = t
  <2>1. tasks = {t}
    BY <1>1, <1>5, CycleAlone
  <2>2. tasks' = {} /\ ready_list' = NULL
    BY <1>2, <1>4, <1>5, <2>1
  <2>3. Cycle(tasks', next')
    BY <2>2 DEF Cycle
  <2> QED
    BY <1>2, <1>3, <2>2, <2>3, RingIsCyclePrime
<1>6. CASE next[t] # t
  <2>1. next' = [x \in tasks \ {t} |->
                    IF next[x] = t THEN next[t] ELSE next[x]]
    BY DEF Unlinked
  <2>2. Cycle(tasks \ {t}, next')
    BY <1>1, <1>6, <2>1, CycleRemove
  <2>3. next[t] \in tasks \ {t}
    BY <1>1, <1>6 DEF Cycle
  <2>4. ready_list' \in tasks \ {t}
    BY <1>4, <1>6, <2>3
  <2>5. ready_list' # NULL
    BY <1>1, <2>4 DEF TypeOK
  <2> QED
    BY <1>2, <1>3, <2>2, <2>4, <2>5, RingIsCyclePrime
<1> QED
  BY <1>5, <1>6

\* Every step preserves the invariant.
LEMMA NextIInv == IInv /\ [Next]_vars => IInv'
<1> SUFFICES ASSUME IInv, [Next]_vars PROVE IInv'
  OBVIOUS
<1> USE ConstantsAssumption
<1>0. TypeOK /\ RingIntact /\ HeadIsCurrent /\ LostOnlyWhenAlone
  BY DEF IInv
<1>1. ASSUME NEW t \in Task, EventSystemInit(t) PROVE IInv'
  <2>1. TaskCreate(t, "event_dispatcher") /\ "event_dispatcher" \in Entries
    BY <1>1 DEF EventSystemInit, Entries
  <2>2. /\ tasks' \subseteq Task /\ next' \in [tasks' -> Task]
        /\ id' \in [tasks' -> Ids] /\ entry' \in [tasks' -> Entries]
        /\ ready_list' \in tasks' /\ next_task_id' \in Ids /\ RingIntact'
    BY <2>1, TaskCreateStep
  <2>3. /\ cpu = "boot" /\ cpu' = cpu
        /\ current_task' = current_task /\ timer_on' = timer_on
    BY <1>1 DEF EventSystemInit
  <2>4. current_task' = NULL
    BY <1>0, <2>3 DEF HeadIsCurrent
  <2>5. TypeOK'
    BY <1>0, <2>2, <2>3, <2>4 DEF TypeOK
  <2>6. HeadIsCurrent' /\ LostOnlyWhenAlone'
    BY <2>3, <2>4 DEF HeadIsCurrent, LostOnlyWhenAlone
  <2> QED
    BY <2>2, <2>5, <2>6 DEF IInv
<1>2. ASSUME NEW t \in Task, SchedulerInit(t) PROVE IInv'
  <2>1. TaskCreate(t, "idle_task") /\ "idle_task" \in Entries
    BY <1>2 DEF SchedulerInit, Entries
  <2>2. /\ tasks' \subseteq Task /\ next' \in [tasks' -> Task]
        /\ id' \in [tasks' -> Ids] /\ entry' \in [tasks' -> Entries]
        /\ ready_list' \in tasks' /\ next_task_id' \in Ids /\ RingIntact'
    BY <2>1, TaskCreateStep
  <2>3. /\ cpu = "boot" /\ cpu' = cpu /\ timer_on' = TRUE
        /\ current_task' = IF ready_list' = NULL THEN t ELSE NULL
    BY <1>2 DEF SchedulerInit
  <2>4. current_task' = NULL
    BY <2>2, <2>3
  <2>5. TypeOK'
    BY <1>0, <2>2, <2>3, <2>4 DEF TypeOK
  <2>6. HeadIsCurrent' /\ LostOnlyWhenAlone'
    BY <2>3, <2>4 DEF HeadIsCurrent, LostOnlyWhenAlone
  <2> QED
    BY <2>2, <2>5, <2>6 DEF IInv
<1>3. ASSUME NEW t \in Task, LoadApp(t) PROVE IInv'
  <2>1. TaskCreate(t, "vm_interpreter_loop") /\ "vm_interpreter_loop" \in Entries
    BY <1>3 DEF LoadApp, Entries
  <2>2. /\ tasks' \subseteq Task /\ next' \in [tasks' -> Task]
        /\ id' \in [tasks' -> Ids] /\ entry' \in [tasks' -> Entries]
        /\ ready_list' \in tasks' /\ next_task_id' \in Ids /\ RingIntact'
        /\ ready_list # NULL => ready_list' = ready_list
    BY <2>1, TaskCreateStep
  <2>3. /\ cpu \in {"boot", "task"} /\ cpu' = cpu
        /\ current_task' = current_task /\ timer_on' = timer_on
        /\ tasks' = tasks \cup {t}
    BY <1>3 DEF LoadApp, InKernelCall, TaskCreate
  <2>4. TypeOK'
    BY <1>0, <2>2, <2>3 DEF TypeOK
  <2>5. HeadIsCurrent' /\ LostOnlyWhenAlone'
    BY <1>0, <2>2, <2>3 DEF HeadIsCurrent, LostOnlyWhenAlone
  <2> QED
    BY <2>2, <2>4, <2>5 DEF IInv
<1>4. ASSUME TaskDestroyCurrent PROVE IInv'
  <2>1. /\ cpu = "task" /\ cpu' = "exited"
        /\ current_task' = NULL /\ timer_on' = timer_on
        /\ next_task_id' = next_task_id
    BY <1>4 DEF TaskDestroyCurrent
  <2>2. current_task \in tasks
    BY <1>0, <2>1 DEF HeadIsCurrent, TypeOK
  <2>3. /\ tasks' \subseteq Task /\ next' \in [tasks' -> Task]
        /\ id' \in [tasks' -> Ids] /\ entry' \in [tasks' -> Entries]
        /\ ready_list' \in tasks' \cup {NULL} /\ RingIntact'
    BY <1>4, <2>2, DestroyStep DEF TaskDestroyCurrent
  <2>4. TypeOK'
    BY <1>0, <2>1, <2>3 DEF TypeOK, Modes
  <2>5. HeadIsCurrent' /\ LostOnlyWhenAlone'
    BY <2>1 DEF HeadIsCurrent, LostOnlyWhenAlone
  <2> QED
    BY <2>3, <2>4, <2>5 DEF IInv
<1>5. ASSUME NEW i \in StopIds, TaskDestroyById(i) PROVE IInv'
  <2>1. /\ cpu = "task" /\ cpu' = cpu /\ timer_on' = timer_on
        /\ next_task_id' = next_task_id
        /\ id[current_task] # i
    BY <1>5 DEF TaskDestroyById, InKernelCall
  <2>2. ready_list = current_task /\ current_task \in tasks
    BY <1>0, <2>1 DEF HeadIsCurrent, TypeOK
  <2>3. PICK target \in tasks :
            /\ id[target] = i
            /\ IF target = ready_list
               THEN /\ ready_list' = IF next[target] = target THEN NULL
                                     ELSE next[target]
                    /\ next' = Without(next, target)
               ELSE /\ ready_list' = ready_list
                    /\ next' = Unlinked(tasks, target)
            /\ current_task' = IF current_task = target THEN NULL
                               ELSE current_task
            /\ Release(target)
    BY <1>5 DEF TaskDestroyById, DestroyTarget
  \* The self-kill test keeps the head out.
  <2>4. target # ready_list /\ target # current_task
    BY <2>1, <2>2, <2>3
  <2>5. /\ ready_list' = ready_list
        /\ next' = Unlinked(tasks, target)
        /\ current_task' = current_task
    BY <2>3, <2>4
  <2>6. /\ tasks' = tasks \ {target} /\ tasks' \subseteq Task
        /\ next' \in [tasks' -> Task]
        /\ id' \in [tasks' -> Ids] /\ entry' \in [tasks' -> Entries]
        /\ ready_list' \in tasks' \cup {NULL} /\ RingIntact'
    BY <2>3, <2>4, <2>5, DestroyStep
  <2>7. TypeOK'
    BY <1>0, <2>1, <2>2, <2>4, <2>5, <2>6 DEF TypeOK
  <2>8. HeadIsCurrent' /\ LostOnlyWhenAlone'
    BY <1>0, <2>1, <2>5 DEF HeadIsCurrent, LostOnlyWhenAlone
  <2> QED
    BY <2>6, <2>7, <2>8 DEF IInv
<1>6. ASSUME SwitchToNext PROVE IInv'
  <2>1. ready_list # NULL /\ ready_list \in tasks
    BY <1>0, <1>6 DEF SwitchToNext, CanSwitch, TypeOK
  <2>2. next[ready_list] \in tasks
    BY <1>0, <2>1 DEF RingIntact, RingClosed
  <2>3. /\ ready_list' = next[ready_list] /\ current_task' = ready_list'
        /\ cpu' = "task"
        /\ UNCHANGED <<tasks, next, id, entry, next_task_id, timer_on>>
    BY <1>6 DEF SwitchToNext
  <2>4. TypeOK'
    BY <1>0, <2>2, <2>3 DEF TypeOK, Modes
  <2>5. RingIntact'
    <3>1. (ready_list = NULL <=> tasks = {}) /\ Cycle(tasks, next)
      BY <1>0, RingIsCycle
    <3>2. ready_list' # NULL
      BY <1>0, <2>2, <2>3 DEF TypeOK
    <3> QED
      BY <2>1, <2>3, <3>1, <3>2, RingIsCyclePrime
  <2>6. HeadIsCurrent' /\ LostOnlyWhenAlone'
    BY <1>0, <2>2, <2>3 DEF HeadIsCurrent, LostOnlyWhenAlone, TypeOK
  <2> QED
    BY <2>4, <2>5, <2>6 DEF IInv
<1>7. ASSUME FallOffIsr PROVE IInv'
  <2>1. /\ cpu' = "lost" /\ cpu \in Modes \ {"lost"}
        /\ UNCHANGED <<tasks, next, id, entry, ready_list, current_task,
                       next_task_id, timer_on>>
    BY <1>0, <1>7 DEF FallOffIsr, TypeOK
  <2>2. TypeOK'
    BY <1>0, <2>1 DEF TypeOK, Modes
  <2>3. RingIntact'
    <3>1. (ready_list = NULL <=> tasks = {}) /\ Cycle(tasks, next)
      BY <1>0, RingIsCycle
    <3> QED
      BY <2>1, <3>1, RingIsCyclePrime
  <2>4. HeadIsCurrent'
    BY <2>1 DEF HeadIsCurrent
  <2>5. tasks \subseteq {current_task}
    <3>1. CASE ready_list = NULL
      BY <1>0, <3>1 DEF RingIntact
    <3>2. CASE ready_list # NULL
      <4>1. next[ready_list] = current_task
        BY <1>7, <3>2 DEF FallOffIsr, CanSwitch
      <4>2. ready_list \in tasks /\ current_task \in tasks
        BY <1>0, <3>2, <4>1 DEF TypeOK, RingIntact, RingClosed
      <4>3. current_task # NULL
        BY <1>0, <4>2 DEF TypeOK
      <4>4. cpu = "task" /\ ready_list = current_task
        BY <1>0, <2>1, <4>3 DEF HeadIsCurrent, Modes
      <4>5. Cycle(tasks, next)
        BY <1>0, RingIsCycle
      <4> QED
        BY <4>1, <4>2, <4>4, <4>5, CycleAlone
    <3> QED
      BY <3>1, <3>2
  <2>6. LostOnlyWhenAlone'
    BY <2>1, <2>5 DEF LostOnlyWhenAlone
  <2> QED
    BY <2>2, <2>3, <2>4, <2>6 DEF IInv
<1>8. CASE UNCHANGED vars
  <2>1. RingIntact'
    <3>1. (ready_list = NULL <=> tasks = {}) /\ Cycle(tasks, next)
      BY <1>0, RingIsCycle
    <3> QED
      BY <1>8, <3>1, RingIsCyclePrime DEF vars
  <2>2. TypeOK' /\ HeadIsCurrent' /\ LostOnlyWhenAlone'
    BY <1>0, <1>8 DEF vars, TypeOK, HeadIsCurrent, LostOnlyWhenAlone
  <2> QED
    BY <2>1, <2>2 DEF IInv
<1> QED
  BY <1>1, <1>2, <1>3, <1>4, <1>5, <1>6, <1>7, <1>8 DEF Next, Tick

\* The invariant holds in every reachable state.
LEMMA AlwaysIInv == Spec => []IInv
  BY InitIInv, NextIInv, PTL DEF Spec

\* Every variable of the scheduler keeps its type: in particular ready_list
\* and current_task never point to a freed Task structure.
THEOREM TypeCorrect == Spec => []TypeOK
<1>1. IInv => TypeOK
  BY DEF IInv
<1> QED
  BY <1>1, AlwaysIInv, PTL

\* Whatever is created, killed or exits between ticks, the ring of
\* scheduler.c is one cycle through exactly the allocated tasks.
THEOREM RingStaysIntact == Spec => []RingIntact
<1>1. IInv => RingIntact
  BY DEF IInv
<1> QED
  BY <1>1, AlwaysIInv, PTL

\* The running task is the head of the ring, so the self-kill test of
\* task_destroy_by_id protects the head as well.
THEOREM HeadStaysCurrent == Spec => []HeadIsCurrent
<1>1. IInv => HeadIsCurrent
  BY DEF IInv
<1> QED
  BY <1>1, AlwaysIInv, PTL

\* core_timer_isr runs off its end only if the interrupted task was the only
\* one, or none is left.
THEOREM LostImpliesAlone == Spec => []LostOnlyWhenAlone
<1>1. IInv => LostOnlyWhenAlone
  BY DEF IInv
<1> QED
  BY <1>1, AlwaysIInv, PTL

-----------------------------------------------------------------------------
(* Ids. *)

\* While the counter has not wrapped, every step leaves ids distinct and below
\* the counter.
LEMMA FreshStep ==
    ASSUME NoWrap, TypeOK, HeadIsCurrent, FreshIds, UniqueIds, [Next]_vars
    PROVE  FreshIds' /\ UniqueIds'
<1> USE ConstantsAssumption
<1>1. ASSUME NEW t \in Task, NEW e, TaskCreate(t, e)
      PROVE  FreshIds' /\ UniqueIds'
  <2>1. /\ next_task_id \in CreateIds /\ next_task_id \in Nat
        /\ next_task_id < IdModulus /\ t \notin tasks
        /\ tasks' = tasks \cup {t}
        /\ next_task_id' = (next_task_id + 1) % IdModulus
        /\ id'[t] = next_task_id
        /\ \A x \in tasks : id'[x] = id[x] /\ id[x] \in Nat
    BY <1>1 DEF TaskCreate, With, TypeOK, Ids
  <2>2. \A x \in tasks : id[x] < next_task_id
    BY <2>1 DEF FreshIds
  <2>3. UniqueIds'
    BY <2>1, <2>2 DEF UniqueIds
  <2>4. CASE next_task_id + 1 = IdModulus
    <3>1. next_task_id' = 0
      BY <2>1, <2>4
    <3>2. next_task_id' \notin CreateIds
      BY <3>1 DEF NoWrap
    <3> QED
      BY <2>3, <3>2 DEF FreshIds
  <2>5. CASE next_task_id + 1 < IdModulus
    <3>1. next_task_id' = next_task_id + 1
      BY <2>1, <2>5
    <3>2. \A x \in tasks' : id'[x] < next_task_id'
      BY <2>1, <2>2, <3>1
    <3> QED
      BY <2>3, <3>2 DEF FreshIds
  <2> QED
    BY <2>1, <2>4, <2>5
<1>2. ASSUME NEW t \in tasks, Release(t), next_task_id' = next_task_id
      PROVE  FreshIds' /\ UniqueIds'
  <2>1. /\ tasks' = tasks \ {t}
        /\ \A x \in tasks' : id'[x] = id[x]
    BY <1>2 DEF Release, Without
  <2> QED
    BY <1>2, <2>1 DEF FreshIds, UniqueIds
<1>3. ASSUME UNCHANGED <<tasks, id, next_task_id>>
      PROVE  FreshIds' /\ UniqueIds'
  BY <1>3 DEF FreshIds, UniqueIds
<1>4. ASSUME NEW t \in Task, EventSystemInit(t) \/ SchedulerInit(t) \/ LoadApp(t)
      PROVE  FreshIds' /\ UniqueIds'
  BY <1>1, <1>4 DEF EventSystemInit, SchedulerInit, LoadApp
<1>5. ASSUME TaskDestroyCurrent PROVE FreshIds' /\ UniqueIds'
  <2>1. current_task \in tasks
    BY <1>5 DEF TaskDestroyCurrent, HeadIsCurrent, TypeOK
  <2> QED
    BY <1>2, <1>5, <2>1 DEF TaskDestroyCurrent
<1>6. ASSUME NEW i \in StopIds, TaskDestroyById(i)
      PROVE  FreshIds' /\ UniqueIds'
  BY <1>2, <1>6 DEF TaskDestroyById, DestroyTarget
<1>7. ASSUME Tick \/ UNCHANGED vars
      PROVE  FreshIds' /\ UniqueIds'
  BY <1>3, <1>7 DEF Tick, SwitchToNext, FallOffIsr, vars
<1> QED
  BY <1>4, <1>5, <1>6, <1>7 DEF Next

\* While the counter has not wrapped, no two tasks have the same id, in any
\* order of creations, kills and exits.
THEOREM IdsStayUnique == ASSUME NoWrap PROVE Spec => []UniqueIds
<1>1. Init => FreshIds /\ UniqueIds
  BY DEF Init, FreshIds, UniqueIds
<1>2. TypeOK /\ HeadIsCurrent /\ FreshIds /\ UniqueIds /\ [Next]_vars
          => FreshIds' /\ UniqueIds'
  BY NoWrap, FreshStep
<1> QED
  BY <1>1, <1>2, TypeCorrect, HeadStaysCurrent, PTL DEF Spec

-----------------------------------------------------------------------------
(***************************************************************************)
(* The ring as a queue.  Lists says what it is for a sequence to list the  *)
(* tasks of a ring in their order; the lemmas say what an insertion, an    *)
(* unlinking and a tick do to it, knowing nothing of the scheduler.        *)
(***************************************************************************)

\* s lists the members T of the ring in the order of f, from h on.
Lists(s, T, f, h) ==
    /\ s \in Seq(T)
    /\ IsFiniteSet(T) /\ Len(s) = Cardinality(T)
    /\ \A i, j \in 1 .. Len(s) : s[i] = s[j] => i = j
    /\ \A t \in T : \E i \in 1 .. Len(s) : s[i] = t
    /\ Len(s) > 0 => s[1] = h /\ f[s[Len(s)]] = s[1]
    /\ \A i \in 1 .. Len(s) - 1 : f[s[i]] = s[i + 1]

\* A set of numbers has a least one.
LEMMA LeastNumber ==
    ASSUME NEW A, A \subseteq Nat, A # {}
    PROVE  \E m \in A : \A k \in A : m <= k
<1> DEFINE R == OpToRel(<, Nat)
<1>1. IsWellFoundedOn(R, Nat)
  BY NatLessThanWellFounded, Zenon
<1>2. \A m, k \in Nat : k < m => <<k, m>> \in R
  BY DEF OpToRel
<1> HIDE DEF R
<1>3. PICK m \in A : \A k \in A : ~(<<k, m>> \in R)
  BY <1>1, WFMin
<1>4. \A k \in A : ~(k < m) /\ k \in Nat /\ m \in Nat
  BY <1>2, <1>3
<1> QED
  BY <1>4

\* The walk of RingSeq finds the only list there is.
LEMMA WalkIsList ==
    ASSUME NEW T, NEW f, NEW h, NEW s, Lists(s, T, f, h)
    PROVE  s = LET walk[n \in 1 .. Cardinality(T)] ==
                       IF n = 1 THEN h ELSE f[walk[n - 1]]
               IN  walk
<1> DEFINE Fits(w) == w = [n \in 1 .. Cardinality(T) |-> IF n = 1 THEN h ELSE f[w[n - 1]]]
<1>1. Len(s) \in Nat /\ Cardinality(T) = Len(s) /\ DOMAIN s = 1 .. Len(s)
      /\ s = [n \in 1 .. Len(s) |-> s[n]]
  BY LenProperties DEF Lists
<1>2. ASSUME NEW n \in 1 .. Len(s) PROVE s[n] = IF n = 1 THEN h ELSE f[s[n - 1]]
  <2>1. CASE n = 1
    BY <1>1, <2>1 DEF Lists
  <2>2. CASE n # 1
    <3>1. n - 1 \in 1 .. Len(s) - 1 /\ (n - 1) + 1 = n
      BY <1>1, <2>2
    <3> QED
      BY <2>2, <3>1 DEF Lists
  <2> QED
    BY <2>1, <2>2
<1>3. Fits(s)
  BY <1>1, <1>2
<1>4. ASSUME NEW w, Fits(w) PROVE w = s
  <2> DEFINE Bad == {n \in 1 .. Len(s) : w[n] # s[n]}
  <2>1. w = [n \in 1 .. Len(s) |-> w[n]]
        /\ \A n \in 1 .. Len(s) : w[n] = IF n = 1 THEN h ELSE f[w[n - 1]]
    BY <1>1, <1>4
  <2> HIDE DEF Fits
  <2>2. ASSUME Bad # {} PROVE FALSE
    <3>1. PICK n \in Bad : \A k \in Bad : n <= k
      <4>1. Bad \subseteq Nat
        BY <1>1
      <4> HIDE DEF Bad
      <4> QED
        BY <2>2, <4>1, LeastNumber
    <3>2. CASE n = 1
      BY <1>2, <2>1, <3>1, <3>2
    <3>3. CASE n # 1
      <4>1. n - 1 \in 1 .. Len(s) /\ ~(n <= n - 1)
        BY <1>1, <3>1, <3>3
      <4>2. w[n - 1] = s[n - 1]
        BY <3>1, <4>1
      <4>3. w[n] = f[w[n - 1]] /\ s[n] = f[s[n - 1]]
        BY <1>2, <2>1, <3>1, <3>3
      <4> QED
        BY <3>1, <4>2, <4>3
    <3> QED
      BY <3>2, <3>3
  <2>3. \A n \in 1 .. Len(s) : w[n] = s[n]
    BY <2>2
  <2> QED
    BY <1>1, <2>1, <2>3
<1>5. Fits(CHOOSE w : Fits(w))
  BY <1>3
<1>6. s = CHOOSE w : Fits(w)
  BY <1>4, <1>5
<1> QED
  BY <1>6

\* insert_task puts the task second.
LEMMA ListInsert ==
    ASSUME NEW T, NEW f, NEW h, NEW s, Lists(s, T, f, h), s # <<>>,
           NEW t, t \notin T,
           NEW g, g = [x \in T \cup {t} |->
                          IF x = h THEN t ELSE IF x = t THEN f[h] ELSE f[x]]
    PROVE  Lists(<<Head(s), t>> \o Tail(s), T \cup {t}, g, h)
<1> DEFINE list == <<Head(s), t>> \o Tail(s)
<1>1. /\ Len(s) \in Nat \ {0} /\ DOMAIN s = 1 .. Len(s)
      /\ \A i \in 1 .. Len(s) : s[i] \in T
      /\ s[1] = h
  BY LenProperties, EmptySeq, ElementOfSeq DEF Lists
<1>2. /\ Tail(s) \in Seq(T) /\ Len(Tail(s)) = Len(s) - 1
      /\ \A i \in 1 .. Len(s) - 1 : Tail(s)[i] = s[i + 1]
      /\ Head(s) = s[1]
  BY <1>1, HeadTailProperties DEF Lists
<1>3. list \in Seq(T \cup {t}) /\ Len(list) = Len(s) + 1
      /\ list[1] = s[1] /\ list[2] = t
      /\ \A i \in 2 .. Len(s) : list[i + 1] = s[i]
  <2>1. <<Head(s), t>> \in Seq(T \cup {t}) /\ Tail(s) \in Seq(T \cup {t})
    BY <1>1, <1>2, SeqMonotonic
  <2>2. /\ list \in Seq(T \cup {t}) /\ Len(list) = 2 + Len(Tail(s))
        /\ \A i \in 1 .. 2 + Len(Tail(s)) :
             list[i] = IF i <= 2 THEN <<Head(s), t>>[i] ELSE Tail(s)[i - 2]
    BY <2>1, ConcatProperties
  <2> HIDE DEF list
  <2>3. ASSUME NEW i \in 2 .. Len(s) PROVE list[i + 1] = s[i]
    <3>1. i + 1 \in 1 .. 2 + Len(Tail(s)) /\ ~(i + 1 <= 2) /\ (i + 1) - 2 = i - 1
          /\ i - 1 \in 1 .. Len(s) - 1 /\ (i - 1) + 1 = i
      BY <1>1, <1>2
    <3> QED
      BY <1>2, <2>2, <3>1
  <2> QED
    BY <1>1, <1>2, <2>2, <2>3
<1> HIDE DEF list
<1>4. /\ \A i \in 1 .. Len(s) + 1 : i = 1 \/ i = 2 \/ \E j \in 2 .. Len(s) : i = j + 1
      /\ \A j \in 2 .. Len(s) : j + 1 \in 1 .. Len(s) + 1 /\ j \in 1 .. Len(s)
      /\ 1 \in 1 .. Len(s)
  <2>1. ASSUME NEW i \in 1 .. Len(s) + 1, i # 1, i # 2 PROVE i - 1 \in 2 .. Len(s) /\ i = (i - 1) + 1
    BY <1>1, <2>1
  <2> QED
    BY <1>1, <2>1
<1>5. \A i, j \in 1 .. Len(s) : s[i] = s[j] => i = j
  BY DEF Lists
<1>6. \A i, j \in 1 .. Len(list) : list[i] = list[j] => i = j
  <2> SUFFICES ASSUME NEW i \in 1 .. Len(s) + 1, NEW j \in 1 .. Len(s) + 1, list[i] = list[j]
               PROVE  i = j
    BY <1>3
  <2>1. CASE i = 1
    BY <1>1, <1>3, <1>4, <1>5, <2>1
  <2>2. CASE i = 2
    BY <1>1, <1>3, <1>4, <2>2
  <2>3. ASSUME NEW k \in 2 .. Len(s), i = k + 1 PROVE i = j
    BY <1>1, <1>3, <1>4, <1>5, <2>3
  <2> QED
    BY <1>4, <2>1, <2>2, <2>3
<1>7. \A x \in T \cup {t} : \E i \in 1 .. Len(list) : list[i] = x
  <2> SUFFICES ASSUME NEW x \in T PROVE \E i \in 1 .. Len(s) + 1 : list[i] = x
    BY <1>1, <1>3
  <2>1. PICK i \in 1 .. Len(s) : s[i] = x
    BY DEF Lists
  <2>2. CASE i = 1
    BY <1>1, <1>3, <2>1, <2>2
  <2>3. CASE i # 1
    BY <1>1, <1>3, <1>4, <2>1, <2>3
  <2> QED
    BY <2>2, <2>3
<1>8. IsFiniteSet(T \cup {t}) /\ Len(list) = Cardinality(T \cup {t})
  BY <1>3, FS_AddElement DEF Lists
<1>9. /\ g[h] = t /\ g[t] = f[h]
      /\ \A x \in T : x # h => g[x] = f[x]
  BY <1>1
<1>10. /\ f[s[Len(s)]] = s[1]
       /\ \A i \in 1 .. Len(s) - 1 : f[s[i]] = s[i + 1]
  BY <1>1 DEF Lists
<1>11. g[list[Len(list)]] = list[1]
  <2>1. CASE Len(s) = 1
    BY <1>1, <1>3, <1>9, <1>10, <2>1
  <2>2. CASE Len(s) # 1
    <3>1. Len(s) \in 2 .. Len(s) /\ Len(s) \in 1 .. Len(s)
      BY <1>1, <2>2
    <3>2. list[Len(list)] = s[Len(s)] /\ s[Len(s)] # h /\ s[Len(s)] \in T
      BY <1>1, <1>3, <1>4, <1>5, <2>2, <3>1
    <3> QED
      BY <1>3, <1>9, <1>10, <3>2
  <2> QED
    BY <2>1, <2>2
<1>12. \A i \in 1 .. Len(list) - 1 : g[list[i]] = list[i + 1]
  <2>0. Len(list) - 1 = Len(s)
    BY <1>1, <1>3
  <2> SUFFICES ASSUME NEW i \in 1 .. Len(s) PROVE g[list[i]] = list[i + 1]
    BY <2>0
  <2>1. CASE i = 1
    BY <1>1, <1>3, <1>9, <2>1
  <2>2. CASE i = 2
    <3>1. 1 \in 1 .. Len(s) - 1 /\ 2 \in 2 .. Len(s)
      BY <1>1, <2>2
    <3>2. f[h] = s[2]
      BY <1>1, <1>10, <3>1
    <3> QED
      BY <1>1, <1>3, <1>9, <2>2, <3>1, <3>2
  <2>3. CASE i # 1 /\ i # 2
    <3>1. i - 1 \in 2 .. Len(s) /\ i - 1 \in 1 .. Len(s) - 1 /\ (i - 1) + 1 = i
          /\ i \in 2 .. Len(s)
      BY <1>1, <2>3
    <3>2. list[i] = s[i - 1] /\ list[i + 1] = s[i] /\ f[s[i - 1]] = s[i]
      BY <1>3, <1>10, <3>1
    <3>3. s[i - 1] # h /\ s[i - 1] \in T
      BY <1>1, <1>4, <1>5, <3>1
    <3> QED
      BY <1>9, <3>2, <3>3
  <2> QED
    BY <2>1, <2>2, <2>3
<1> QED
  BY <1>1, <1>3, <1>6, <1>7, <1>8, <1>11, <1>12 DEF Lists, list

\* What is left of a list without its entry p.
LEMMA WithoutEntry ==
    ASSUME NEW A, NEW s \in Seq(A), NEW p \in 1 .. Len(s)
    PROVE  /\ SubSeq(s, 1, p - 1) \o SubSeq(s, p + 1, Len(s)) \in Seq(A)
           /\ Len(SubSeq(s, 1, p - 1) \o SubSeq(s, p + 1, Len(s))) = Len(s) - 1
           /\ \A k \in 1 .. Len(s) - 1 :
                (SubSeq(s, 1, p - 1) \o SubSeq(s, p + 1, Len(s)))[k]
                  = IF k < p THEN s[k] ELSE s[k + 1]
<1> DEFINE a == SubSeq(s, 1, p - 1)
           b == SubSeq(s, p + 1, Len(s))
<1>1. Len(s) \in Nat /\ p \in Nat /\ 1 <= p /\ p <= Len(s)
  BY LenProperties
<1>2. \A k \in 1 .. Len(s) : s[k] \in A
  BY ElementOfSeq
<1>3. a \in Seq(A) /\ Len(a) = p - 1 /\ \A k \in 1 .. p - 1 : a[k] = s[k]
  <2>1. 1 \in Int /\ p - 1 \in Int /\ \A k \in 1 .. p - 1 : s[k] \in A
    BY <1>1, <1>2
  <2>2. /\ a \in Seq(A)
        /\ Len(a) = IF 1 <= p - 1 THEN (p - 1) - 1 + 1 ELSE 0
        /\ \A k \in 1 .. (p - 1) - 1 + 1 : a[k] = s[1 + k - 1]
    BY <2>1, SubSeqProperties
  <2> QED
    BY <1>1, <2>2
<1>4. b \in Seq(A) /\ Len(b) = Len(s) - p /\ \A k \in 1 .. Len(s) - p : b[k] = s[p + k]
  <2>1. p + 1 \in Int /\ Len(s) \in Int /\ \A k \in p + 1 .. Len(s) : s[k] \in A
    BY <1>1, <1>2
  <2>2. /\ b \in Seq(A)
        /\ Len(b) = IF p + 1 <= Len(s) THEN Len(s) - (p + 1) + 1 ELSE 0
        /\ \A k \in 1 .. Len(s) - (p + 1) + 1 : b[k] = s[(p + 1) + k - 1]
    BY <2>1, SubSeqProperties
  <2> HIDE DEF b
  <2>3. Len(b) = Len(s) - p
    <3>1. CASE p + 1 <= Len(s)
      <4>1. Len(b) = Len(s) - (p + 1) + 1 /\ Len(s) - (p + 1) + 1 = Len(s) - p
        BY <1>1, <2>2, <3>1
      <4> QED
        BY <4>1
    <3>2. CASE ~(p + 1 <= Len(s))
      <4>1. Len(b) = 0 /\ Len(s) - p = 0
        BY <1>1, <2>2, <3>2
      <4> QED
        BY <4>1
    <3> QED
      BY <3>1, <3>2
  <2>4. ASSUME NEW k \in 1 .. Len(s) - p PROVE b[k] = s[p + k]
    <3>1. k \in 1 .. Len(s) - (p + 1) + 1 /\ (p + 1) + k - 1 = p + k
      BY <1>1
    <3> QED
      BY <2>2, <3>1
  <2> QED
    BY <2>2, <2>3, <2>4
<1> HIDE DEF a, b
<1>5. /\ a \o b \in Seq(A) /\ Len(a \o b) = Len(a) + Len(b)
      /\ \A k \in 1 .. Len(a) + Len(b) :
            (a \o b)[k] = IF k <= Len(a) THEN a[k] ELSE b[k - Len(a)]
  BY <1>3, <1>4, ConcatProperties
<1>6. ASSUME NEW k \in 1 .. Len(s) - 1
      PROVE  (a \o b)[k] = IF k < p THEN s[k] ELSE s[k + 1]
  <2>0. k \in 1 .. Len(a) + Len(b)
    BY <1>1, <1>3, <1>4
  <2>1. CASE k < p
    <3>1. k \in 1 .. p - 1 /\ k <= Len(a)
      BY <1>1, <1>3, <2>1
    <3> QED
      BY <1>3, <1>5, <2>0, <2>1, <3>1
  <2>2. CASE ~(k < p)
    <3>1. ~(k <= Len(a)) /\ k - Len(a) \in 1 .. Len(s) - p /\ p + (k - Len(a)) = k + 1
      BY <1>1, <1>3, <2>2
    <3> QED
      BY <1>4, <1>5, <2>0, <2>2, <3>1
  <2> QED
    BY <2>1, <2>2
<1>7. Len(a) + Len(b) = Len(s) - 1
  BY <1>1, <1>3, <1>4
<1>8. /\ a \o b \in Seq(A)
      /\ Len(a \o b) = Len(s) - 1
      /\ \A k \in 1 .. Len(s) - 1 : (a \o b)[k] = IF k < p THEN s[k] ELSE s[k + 1]
  BY <1>5, <1>6, <1>7
<1> QED
  BY <1>8 DEF a, b

\* Unlinking takes the task out where it stands, and a head that leaves hands
\* over to its successor.
LEMMA ListRemove ==
    ASSUME NEW T, NEW f, NEW h, NEW s, Lists(s, T, f, h), NEW p \in 1 .. Len(s),
           NEW g,
           \A x \in T : x # s[p] => g[x] = IF f[x] = s[p] THEN f[s[p]] ELSE f[x],
           NEW e, s[p] # h => e = h, s[p] = h /\ f[h] # h => e = f[h]
    PROVE  Lists(SubSeq(s, 1, p - 1) \o SubSeq(s, p + 1, Len(s)), T \ {s[p]}, g, e)
<1> DEFINE list == SubSeq(s, 1, p - 1) \o SubSeq(s, p + 1, Len(s))
<1>0. /\ list \in Seq(T) /\ Len(list) = Len(s) - 1
      /\ \A k \in 1 .. Len(s) - 1 : list[k] = IF k < p THEN s[k] ELSE s[k + 1]
  <2>1. s \in Seq(T)
    BY DEF Lists
  <2> QED
    BY <2>1, WithoutEntry
<1> HIDE DEF list
<1>1. /\ Len(s) \in Nat \ {0} /\ p \in Nat /\ 1 <= p /\ p <= Len(s)
      /\ \A i \in 1 .. Len(s) : s[i] \in T
      /\ s[1] = h /\ f[s[Len(s)]] = s[1]
  BY LenProperties, EmptySeq, ElementOfSeq DEF Lists
<1>2. /\ \A i, j \in 1 .. Len(s) : s[i] = s[j] => i = j
      /\ \A i \in 1 .. Len(s) - 1 : f[s[i]] = s[i + 1]
  BY DEF Lists
<1> DEFINE at(k) == IF k < p THEN k ELSE k + 1
<1>3. ASSUME NEW k \in 1 .. Len(s) - 1
      PROVE  at(k) \in 1 .. Len(s) /\ at(k) # p /\ list[k] = s[at(k)]
  BY <1>0, <1>1
<1>4. /\ \A j, k \in 1 .. Len(s) - 1 : at(j) = at(k) => j = k
      /\ \A i \in 1 .. Len(s) : i # p => \E k \in 1 .. Len(s) - 1 : at(k) = i
  <2>1. ASSUME NEW i \in 1 .. Len(s), i # p PROVE \E k \in 1 .. Len(s) - 1 : at(k) = i
    <3>1. CASE i < p
      <4>1. i \in 1 .. Len(s) - 1 /\ at(i) = i
        BY <1>1, <3>1
      <4> QED
        BY <4>1
    <3>2. CASE ~(i < p)
      <4>1. i - 1 \in 1 .. Len(s) - 1 /\ at(i - 1) = i
        BY <1>0, <1>1, <2>1, <3>2
      <4> QED
        BY <4>1
    <3> QED
      BY <3>1, <3>2
  <2>2. \A j, k \in 1 .. Len(s) - 1 : at(j) = at(k) => j = k
    BY <1>0, <1>1
  <2> QED
    BY <1>0, <2>1, <2>2
<1>5. list \in Seq(T \ {s[p]})
  <2>1. \A k \in 1 .. Len(list) : list[k] \in T \ {s[p]}
    <3> SUFFICES ASSUME NEW k \in 1 .. Len(s) - 1 PROVE list[k] \in T \ {s[p]}
      BY <1>0
    <3> HIDE DEF at
    <3> QED
      BY <1>0, <1>1, <1>2, <1>3
  <2>2. Len(list) \in Nat /\ list \in [1 .. Len(list) -> T]
    BY <1>0, LenProperties
  <2>3. list \in [1 .. Len(list) -> T \ {s[p]}]
    BY <1>0, <2>1, <2>2
  <2> QED
    BY <1>0, <2>2, <2>3, SeqDef
<1>6. ASSUME NEW j \in 1 .. Len(list), NEW k \in 1 .. Len(list), list[j] = list[k] PROVE j = k
  <2> HIDE DEF at
  <2>1. j \in 1 .. Len(s) - 1 /\ k \in 1 .. Len(s) - 1
    BY <1>0
  <2> QED
    BY <1>0, <1>2, <1>3, <1>4, <1>6, <2>1
<1>7. ASSUME NEW x \in T \ {s[p]} PROVE \E k \in 1 .. Len(list) : list[k] = x
  <2> HIDE DEF at
  <2>1. PICK i \in 1 .. Len(s) : s[i] = x
    BY DEF Lists
  <2>2. PICK k \in 1 .. Len(s) - 1 : at(k) = i
    BY <1>4, <1>7, <2>1
  <2> QED
    BY <1>0, <1>3, <2>1, <2>2
<1>8. IsFiniteSet(T \ {s[p]}) /\ Len(list) = Cardinality(T \ {s[p]})
  <2>1. s[p] \in T
    BY <1>0, <1>1
  <2> QED
    BY <1>0, <2>1, FS_RemoveElement DEF Lists
<1>9. ASSUME NEW i \in 1 .. Len(s), i # p
      PROVE  g[s[i]] = IF f[s[i]] = s[p] THEN f[s[p]] ELSE f[s[i]]
  <2>1. s[i] \in T \ {s[p]}
    BY <1>0, <1>1, <1>2, <1>9
  <2> QED
    BY <1>9, <2>1
<1>10. ASSUME Len(list) > 0 PROVE list[1] = e /\ g[list[Len(list)]] = list[1]
  <2>1. Len(s) > 1 /\ 1 \in 1 .. Len(s) - 1 /\ Len(s) - 1 \in 1 .. Len(s) - 1
        /\ Len(s) \in 1 .. Len(s) /\ 1 \in 1 .. Len(s) /\ 2 \in 1 .. Len(s)
    BY <1>0, <1>1, <1>10
  <2>2. list[1] = e
    <3>1. CASE p = 1
      <4>1. list[1] = s[2] /\ s[p] = h /\ f[h] = s[2] /\ s[2] # s[1]
        BY <1>0, <1>1, <1>2, <2>1, <3>1
      <4> QED
        BY <1>0, <1>1, <4>1
    <3>2. CASE p # 1
      <4>1. list[1] = s[1] /\ s[p] # h
        BY <1>0, <1>1, <1>2, <2>1, <3>2
      <4> QED
        BY <1>0, <1>1, <4>1
    <3> QED
      BY <3>1, <3>2
  <2>3. CASE p = Len(s)
    <3>1. list[Len(list)] = s[Len(s) - 1] /\ f[s[Len(s) - 1]] = s[p] /\ f[s[p]] = s[1]
      BY <1>0, <1>1, <1>2, <2>1, <2>3
    <3>2. g[s[Len(s) - 1]] = s[1]
      <4>1. Len(s) - 1 \in 1 .. Len(s) /\ Len(s) - 1 # p
        BY <1>0, <1>1, <2>1, <2>3
      <4> QED
        BY <1>9, <3>1, <4>1
    <3>3. list[1] = s[1]
      BY <1>0, <1>1, <2>1, <2>3
    <3> QED
      BY <2>2, <3>1, <3>2, <3>3
  <2>4. CASE p # Len(s)
    <3>1. list[Len(list)] = s[Len(s)]
      BY <1>0, <1>1, <2>1, <2>4
    <3>2. g[s[Len(s)]] = IF s[1] = s[p] THEN f[s[p]] ELSE s[1]
      BY <1>0, <1>1, <1>9, <2>1, <2>4
    <3>3. CASE p = 1
      <4>1. list[1] = s[2] /\ f[s[1]] = s[2]
        BY <1>0, <1>1, <1>2, <2>1, <3>3
      <4> QED
        BY <2>2, <3>1, <3>2, <3>3, <4>1
    <3>4. CASE p # 1
      <4>1. list[1] = s[1] /\ s[1] # s[p]
        BY <1>0, <1>1, <1>2, <2>1, <3>4
      <4> QED
        BY <2>2, <3>1, <3>2, <4>1
    <3> QED
      BY <3>3, <3>4
  <2> QED
    BY <2>2, <2>3, <2>4
<1>11. ASSUME NEW k \in 1 .. Len(list) - 1 PROVE g[list[k]] = list[k + 1]
  <2>1. k \in 1 .. Len(s) - 1 /\ k + 1 \in 1 .. Len(s) - 1 /\ k \in 1 .. Len(s)
        /\ k + 1 \in 1 .. Len(s)
    BY <1>0, <1>1, <1>11
  <2>2. CASE k + 1 < p
    <3>1. k < p /\ k # p /\ k + 1 # p
      BY <1>0, <1>1, <2>1, <2>2
    <3>2. list[k] = s[k] /\ list[k + 1] = s[k + 1] /\ f[s[k]] = s[k + 1] /\ s[k + 1] # s[p]
      BY <1>0, <1>2, <2>1, <2>2, <3>1
    <3> QED
      BY <1>9, <2>1, <3>1, <3>2
  <2>3. CASE k + 1 = p
    <3>1. k < p /\ k # p /\ ~(k + 1 < p)
      BY <1>0, <1>1, <2>1, <2>3
    <3>2. list[k] = s[k] /\ list[k + 1] = s[p + 1] /\ f[s[k]] = s[p] /\ f[s[p]] = s[p + 1]
      BY <1>0, <1>2, <2>1, <2>3, <3>1
    <3> QED
      BY <1>9, <2>1, <3>1, <3>2
  <2>4. CASE k + 1 > p
    <3>1. k + 1 \in 1 .. Len(s) - 1 /\ (k + 1) + 1 \in 1 .. Len(s) /\ ~(k < p) /\ ~(k + 1 < p)
          /\ k + 1 # p /\ (k + 1) + 1 # p
      BY <1>0, <1>1, <2>1, <2>4
    <3>2. list[k] = s[k + 1] /\ list[k + 1] = s[(k + 1) + 1] /\ f[s[k + 1]] = s[(k + 1) + 1]
      BY <1>0, <1>2, <2>1, <3>1
    <3>3. s[(k + 1) + 1] # s[p]
      BY <1>2, <3>1
    <3> QED
      BY <1>9, <2>1, <3>1, <3>2, <3>3
  <2> QED
    BY <1>0, <1>1, <2>1, <2>2, <2>3, <2>4
<1> QED
  BY <1>5, <1>6, <1>7, <1>8, <1>10, <1>11 DEF Lists, list

\* A tick moves the first task to the end.
LEMMA ListRotate ==
    ASSUME NEW T, NEW f, NEW h, NEW s, Lists(s, T, f, h), s # <<>>
    PROVE  Lists(Append(Tail(s), Head(s)), T, f, f[h])
<1> DEFINE list == Append(Tail(s), Head(s))
<1>1. /\ Len(s) \in Nat \ {0}
      /\ \A i \in 1 .. Len(s) : s[i] \in T
      /\ s[1] = h /\ f[s[Len(s)]] = s[1]
  BY LenProperties, EmptySeq, ElementOfSeq DEF Lists
<1>2. /\ \A i, j \in 1 .. Len(s) : s[i] = s[j] => i = j
      /\ \A i \in 1 .. Len(s) - 1 : f[s[i]] = s[i + 1]
      /\ \A t \in T : \E i \in 1 .. Len(s) : s[i] = t
  BY DEF Lists
<1>3. /\ Tail(s) \in Seq(T) /\ Len(Tail(s)) = Len(s) - 1
      /\ \A i \in 1 .. Len(s) - 1 : Tail(s)[i] = s[i + 1]
      /\ Head(s) = s[1] /\ Head(s) \in T
  BY <1>1, HeadTailProperties DEF Lists
<1>4. /\ list \in Seq(T) /\ Len(list) = Len(s)
      /\ list[Len(s)] = s[1]
      /\ \A i \in 1 .. Len(s) - 1 : list[i] = s[i + 1]
  <2>1. /\ list \in Seq(T) /\ Len(list) = Len(Tail(s)) + 1
        /\ \A i \in 1 .. Len(Tail(s)) : list[i] = Tail(s)[i]
        /\ list[Len(Tail(s)) + 1] = Head(s)
    BY <1>3, AppendProperties
  <2> HIDE DEF list
  <2> QED
    BY <1>1, <1>3, <2>1
<1> HIDE DEF list
<1>5. ASSUME NEW i \in 1 .. Len(s), NEW j \in 1 .. Len(s), list[i] = list[j] PROVE i = j
  <2>1. \A k \in 1 .. Len(s) : k # Len(s) =>
             k \in 1 .. Len(s) - 1 /\ k + 1 \in 1 .. Len(s) /\ k + 1 # 1
    BY <1>1
  <2>2. 1 \in 1 .. Len(s)
    BY <1>1
  <2>3. CASE i = Len(s)
    BY <1>2, <1>4, <1>5, <2>1, <2>2, <2>3
  <2>4. CASE j = Len(s)
    BY <1>2, <1>4, <1>5, <2>1, <2>2, <2>4
  <2>5. CASE i # Len(s) /\ j # Len(s)
    <3>1. i + 1 = j + 1
      BY <1>2, <1>4, <1>5, <2>1, <2>5
    <3> QED
      BY <3>1
  <2> QED
    BY <2>3, <2>4, <2>5
<1>6. ASSUME NEW t \in T PROVE \E i \in 1 .. Len(s) : list[i] = t
  <2>1. PICK i \in 1 .. Len(s) : s[i] = t
    BY <1>2
  <2>2. CASE i = 1
    BY <1>1, <1>4, <2>1, <2>2
  <2>3. CASE i # 1
    <3>1. i - 1 \in 1 .. Len(s) - 1 /\ (i - 1) + 1 = i /\ i - 1 \in 1 .. Len(s)
      BY <1>1, <2>3
    <3> QED
      BY <1>4, <2>1, <3>1
  <2> QED
    BY <2>2, <2>3
<1>7. list[1] = f[h] /\ f[list[Len(list)]] = list[1]
  <2>1. CASE Len(s) = 1
    BY <1>1, <1>4, <2>1
  <2>2. CASE Len(s) # 1
    <3>1. Len(s) \in Nat \ {0}
      BY <1>1
    <3>2. 1 \in 1 .. Len(s) - 1
      <4> DEFINE n == Len(s)
      <4>1. n \in Nat \ {0} /\ n # 1
        BY <2>2, <3>1
      <4> HIDE DEF n
      <4>2. 1 \in 1 .. n - 1
        BY <4>1
      <4> QED
        BY <4>2 DEF n
    <3>3. list[1] = s[1 + 1] /\ f[s[1]] = s[1 + 1]
      BY <1>2, <1>4, <3>2
    <3>4. s[1] = h /\ list[Len(list)] = s[1]
      BY <1>1, <1>4
    <3> QED
      BY <3>3, <3>4
  <2> QED
    BY <2>1, <2>2
<1>8. ASSUME NEW i \in 1 .. Len(list) - 1 PROVE f[list[i]] = list[i + 1]
  <2>1. i \in 1 .. Len(s) - 1 /\ list[i] = s[i + 1]
    BY <1>4
  <2>2. CASE i + 1 = Len(s)
    BY <1>1, <1>4, <2>1, <2>2
  <2>3. CASE i + 1 # Len(s)
    <3>1. i + 1 \in 1 .. Len(s) - 1
      BY <1>1, <2>1, <2>3
    <3> QED
      BY <1>2, <1>4, <2>1, <3>1
  <2> QED
    BY <2>2, <2>3
<1>9. IsFiniteSet(T) /\ Len(list) = Cardinality(T)
  BY <1>4 DEF Lists
<1>10. Lists(list, T, f, f[h])
  BY <1>4, <1>5, <1>6, <1>7, <1>8, <1>9 DEF Lists
<1> QED
  BY <1>10 DEF list

(***************************************************************************)
(* Each operation of the scheduler does to the sequence that RingSeq reads *)
(* along the pointers what the queue operation of RoundRobin does.         *)
(***************************************************************************)

\* RingSeq lists the ring.
RingListed == Lists(RingSeq, tasks, next, ready_list)

LEMMA RingSeqIs ==
    ASSUME NEW s, Lists(s, tasks, next, ready_list)
    PROVE  RingSeq = s
  BY WalkIsList DEF RingSeq

LEMMA RingSeqIsNext ==
    ASSUME NEW s, Lists(s, tasks', next', ready_list')
    PROVE  RingSeq' = s /\ RingListed'
<1>1. RingSeq' = s
  BY WalkIsList DEF RingSeq
<1> QED
  BY <1>1 DEF RingListed

\* The ring is empty where the sequence is, and begins with ready_list.
LEMMA RingSeqEntries ==
    ASSUME IInv, RingListed
    PROVE  /\ RingSeq \in Seq(tasks) /\ DOMAIN RingSeq = 1 .. Len(RingSeq)
           /\ RingSeq = <<>> <=> tasks = {}
           /\ RingSeq = <<>> <=> ready_list = NULL
           /\ RR!ToSet(RingSeq) = tasks
           /\ RingSeq # <<>> => Head(RingSeq) = ready_list
<1>1. RingSeq \in Seq(tasks) /\ DOMAIN RingSeq = 1 .. Len(RingSeq) /\ Len(RingSeq) \in Nat
  BY LenProperties DEF RingListed, Lists
<1>2. Len(RingSeq) = Cardinality(tasks) /\ IsFiniteSet(tasks)
  BY DEF RingListed, Lists
<1>3. RingSeq = <<>> <=> Len(RingSeq) = 0
  BY <1>1, EmptySeq
<1>4. Cardinality(tasks) = 0 <=> tasks = {}
  BY <1>2, FS_EmptySet
<1>5. ready_list = NULL <=> tasks = {}
  BY DEF IInv, RingIntact
<1>6. RR!ToSet(RingSeq) = tasks
  <2>1. \A i \in 1 .. Len(RingSeq) : RingSeq[i] \in tasks
    BY <1>1, ElementOfSeq
  <2>2. \A t \in tasks : \E i \in 1 .. Len(RingSeq) : RingSeq[i] = t
    BY DEF RingListed, Lists
  <2> QED
    BY <1>1, <2>1, <2>2 DEF RR!ToSet
<1>7. RingSeq # <<>> => Head(RingSeq) = ready_list
  <2>1. Len(RingSeq) > 0 => RingSeq[1] = ready_list
    BY DEF RingListed, Lists
  <2> QED
    BY <1>1, <1>3, <2>1
<1> QED
  BY <1>1, <1>2, <1>3, <1>4, <1>5, <1>6, <1>7

LEMMA QueueInit == Init => RingListed /\ RR!RRInit
<1> SUFFICES ASSUME Init PROVE RingListed /\ RR!RRInit
  OBVIOUS
<1>1. tasks = {} /\ current_task = NULL /\ cpu = "boot"
  BY DEF Init
<1>2. Lists(<<>>, tasks, next, ready_list)
  BY <1>1, FS_EmptySet, EmptySeq DEF Lists
<1>3. RingSeq = <<>>
  BY <1>2, RingSeqIs
<1> QED
  BY <1>1, <1>2, <1>3 DEF RingListed, RR!RRInit

\* A creation is an Add.
LEMMA QueueAdd ==
    ASSUME IInv, RingListed, NEW t \in Task, NEW e, TaskCreate(t, e),
           current_task' = current_task, cpu' = cpu, cpu # "lost"
    PROVE  RingListed' /\ RR!Add(t)
<1>1. tasks' = tasks \cup {t} /\ t \notin tasks /\ InsertTask(t)
  BY DEF TaskCreate
<1>2. CASE RingSeq = <<>>
  <2>1. tasks = {} /\ ready_list = NULL
    BY <1>2, RingSeqEntries
  <2>2. tasks' = {t} /\ ready_list' = t /\ next' = [x \in {t} |-> t]
    BY <1>1, <2>1 DEF InsertTask, With
  <2>3. Lists(<<t>>, {t}, [x \in {t} |-> t], t)
    <3>1. <<t>> \in Seq({t}) /\ Len(<<t>>) = 1 /\ <<t>>[1] = t
      OBVIOUS
    <3>2. IsFiniteSet({t}) /\ Cardinality({t}) = 1
      BY FS_Singleton
    <3>3. \A i \in 1 .. 1 : i = 1
      OBVIOUS
    <3> QED
      BY <3>1, <3>2, <3>3 DEF Lists
  <2>4. RingSeq' = <<t>> /\ RingListed'
    BY <2>2, <2>3, RingSeqIsNext
  <2> QED
    BY <1>1, <1>2, <2>1, <2>4, RingSeqEntries DEF RR!Add
<1>3. CASE RingSeq # <<>>
  <2> DEFINE list == <<Head(RingSeq), t>> \o Tail(RingSeq)
  <2>1. ready_list # NULL /\ ready_list \in tasks
    BY <1>3, RingSeqEntries DEF IInv, TypeOK
  <2>2. /\ ready_list' = ready_list
        /\ next' = [x \in tasks \cup {t} |->
                      IF x = ready_list THEN t ELSE IF x = t THEN next[ready_list] ELSE next[x]]
    BY <1>1, <2>1 DEF InsertTask, With
  <2>3. Lists(list, tasks', next', ready_list')
    BY <1>1, <1>3, <2>2, ListInsert DEF RingListed
  <2>4. RingSeq' = list /\ RingListed'
    BY <2>3, RingSeqIsNext
  <2> QED
    BY <1>1, <1>3, <2>4, RingSeqEntries DEF RR!Add
<1> QED
  BY <1>2, <1>3

\* A task is taken out of the ring.
LEMMA QueueRemove ==
    ASSUME IInv, RingListed, NEW t \in tasks, tasks' = tasks \ {t},
           next' = Unlinked(tasks, t),
           ready_list' = IF t # ready_list THEN ready_list
                         ELSE IF next[t] = t THEN NULL ELSE next[t]
    PROVE  RingListed' /\ RingSeq' \in RR!RingWithout(t)
<1>1. PICK p \in 1 .. Len(RingSeq) : RingSeq[p] = t
  BY DEF RingListed, Lists
<1> DEFINE list == SubSeq(RingSeq, 1, p - 1) \o SubSeq(RingSeq, p + 1, Len(RingSeq))
<1>2. RingSeq \in Seq(tasks) /\ DOMAIN RingSeq = 1 .. Len(RingSeq)
  BY RingSeqEntries
<1>4. next' = [x \in tasks \ {t} |-> IF next[x] = t THEN next[t] ELSE next[x]]
  BY DEF Unlinked
<1>5. Lists(list, tasks', next', ready_list')
  <2>1. /\ RingSeq[p] # ready_list => ready_list' = ready_list
        /\ RingSeq[p] = ready_list /\ next[ready_list] # ready_list =>
              ready_list' = next[ready_list]
    BY <1>1
  <2>2. \A x \in tasks : x # RingSeq[p] =>
            next'[x] = IF next[x] = RingSeq[p] THEN next[RingSeq[p]] ELSE next[x]
    BY <1>1, <1>4
  <2>3. Lists(RingSeq, tasks, next, ready_list)
    BY DEF RingListed
  <2>4. Lists(list, tasks \ {RingSeq[p]}, next', ready_list')
    BY <1>1, <2>1, <2>2, <2>3, ListRemove
  <2> QED
    BY <1>1, <2>4
<1>6. RingSeq' = list /\ RingListed'
  BY <1>5, RingSeqIsNext
<1>7. list \in RR!RingWithout(t)
  BY <1>1, <1>2 DEF RR!RingWithout, RR!RemoveAt
<1> QED
  BY <1>6, <1>7

\* The head of the rotated queue is the task behind the head.
LEMMA QueueRotates ==
    ASSUME IInv, RingListed, RingSeq # <<>>
    PROVE  /\ Lists(RR!Rotated, tasks, next, next[ready_list])
           /\ Head(RR!Rotated) = next[ready_list]
<1>1. Lists(RR!Rotated, tasks, next, next[ready_list])
  BY ListRotate DEF RingListed, RR!Rotated
<1>2. Len(RR!Rotated) = Len(RingSeq) /\ RR!Rotated \in Seq(tasks)
  BY <1>1 DEF RingListed, Lists
<1>3. Len(RR!Rotated) \in Nat \ {0}
  BY <1>2, EmptySeq, RingSeqEntries
<1>4. RR!Rotated[1] = next[ready_list]
  BY <1>1, <1>3 DEF Lists
<1> QED
  BY <1>1, <1>2, <1>3, <1>4

\* Every step is the queue operation of its name.
LEMMA QueueStep ==
    IInv /\ RingListed /\ [Next]_vars => RingListed' /\ [RR!RRNext]_RR!rrVars
<1> SUFFICES ASSUME IInv, RingListed, [Next]_vars PROVE RingListed' /\ [RR!RRNext]_RR!rrVars
  OBVIOUS
<1> USE ConstantsAssumption
<1>0. TypeOK /\ RingIntact /\ HeadIsCurrent
  BY DEF IInv
<1>1. ASSUME NEW t \in Task, EventSystemInit(t) PROVE RingListed' /\ RR!Add(t)
  <2>1. /\ TaskCreate(t, "event_dispatcher") /\ current_task' = current_task
        /\ cpu' = cpu /\ cpu # "lost"
    BY <1>1 DEF EventSystemInit
  <2> QED
    BY <2>1, QueueAdd
<1>2. ASSUME NEW t \in Task, SchedulerInit(t) PROVE RingListed' /\ RR!Add(t)
  <2>1. TaskCreate(t, "idle_task") /\ cpu' = cpu /\ cpu = "boot"
    BY <1>2 DEF SchedulerInit
  <2>2. ready_list' # NULL
    <3>1. t # NULL /\ InsertTask(t)
      BY <2>1 DEF TaskCreate
    <3> QED
      BY <3>1 DEF InsertTask
  <2>3. current_task' = NULL /\ current_task = NULL
    BY <1>0, <1>2, <2>1, <2>2 DEF SchedulerInit, HeadIsCurrent
  <2> QED
    BY <2>1, <2>3, QueueAdd
<1>3. ASSUME NEW t \in Task, LoadApp(t) PROVE RingListed' /\ RR!Add(t)
  <2>1. /\ TaskCreate(t, "vm_interpreter_loop") /\ current_task' = current_task
        /\ cpu' = cpu /\ cpu # "lost"
    BY <1>3 DEF LoadApp, InKernelCall
  <2> QED
    BY <2>1, QueueAdd
<1>4. CASE TaskDestroyCurrent
  <2>1. /\ cpu = "task" /\ cpu' = "exited" /\ current_task' = NULL
        /\ tasks' = tasks \ {current_task} /\ next' = Unlinked(tasks, current_task)
    BY <1>4 DEF TaskDestroyCurrent, Release
  <2>2. current_task \in tasks
    BY <1>0, <2>1 DEF TypeOK, HeadIsCurrent
  <2>3. ready_list' = IF current_task # ready_list THEN ready_list
                      ELSE IF next[current_task] = current_task THEN NULL ELSE next[current_task]
    BY <1>4 DEF TaskDestroyCurrent
  <2>4. RingListed' /\ RingSeq' \in RR!RingWithout(current_task)
    BY <2>1, <2>2, <2>3, QueueRemove
  <2>5. RR!End
    BY <1>0, <2>1, <2>4 DEF RR!End, HeadIsCurrent
  <2> QED
    BY <2>4, <2>5 DEF RR!RRNext
<1>5. ASSUME NEW i \in StopIds, TaskDestroyById(i) PROVE RingListed' /\ [RR!RRNext]_RR!rrVars
  <2>1. PICK target \in tasks : id[target] = i /\ DestroyTarget(tasks, target)
    BY <1>5 DEF TaskDestroyById
  <2>2. cpu = "task" /\ cpu' = cpu /\ id[current_task] # i
    BY <1>5 DEF TaskDestroyById, InKernelCall
  <2>3. current_task # NULL /\ ready_list = current_task /\ target # current_task
    BY <1>0, <2>1, <2>2 DEF HeadIsCurrent
  <2>4. /\ tasks' = tasks \ {target} /\ next' = Unlinked(tasks, target)
        /\ ready_list' = ready_list /\ current_task' = current_task
    BY <2>1, <2>3 DEF DestroyTarget, Release
  <2>5. RingListed' /\ RingSeq' \in RR!RingWithout(target)
    BY <2>3, <2>4, QueueRemove
  <2>6. RR!Kill(target) /\ target \in Task
    BY <1>0, <2>2, <2>3, <2>4, <2>5, RingSeqEntries DEF RR!Kill, TypeOK
  <2> QED
    BY <2>5, <2>6 DEF RR!RRNext
<1>6. CASE SwitchToNext
  <2>1. /\ cpu # "lost" /\ cpu' = "task" /\ tasks' = tasks /\ next' = next
        /\ ready_list' = next[ready_list] /\ current_task' = next[ready_list]
        /\ ready_list # NULL /\ next[ready_list] # current_task
    BY <1>6 DEF SwitchToNext, CanSwitch
  <2>2. RingSeq # <<>>
    BY <2>1, RingSeqEntries
  <2>3. Lists(RR!Rotated, tasks, next, next[ready_list]) /\ Head(RR!Rotated) = next[ready_list]
    BY <2>2, QueueRotates
  <2>4. RingSeq' = RR!Rotated /\ RingListed'
    BY <2>1, <2>3, RingSeqIsNext
  <2>5. RR!Rotate
    BY <2>1, <2>2, <2>3, <2>4 DEF RR!Rotate, RR!CanRotate
  <2> QED
    BY <2>4, <2>5 DEF RR!RRNext
<1>7. ASSUME UNCHANGED <<tasks, next, ready_list>> PROVE RingListed' /\ RingSeq' = RingSeq
  <2>1. Lists(RingSeq, tasks', next', ready_list')
    BY <1>7 DEF RingListed
  <2> QED
    BY <2>1, RingSeqIsNext
<1>8. CASE FallOffIsr
  <2>1. /\ cpu # "lost" /\ cpu' = "lost" /\ UNCHANGED <<tasks, next, ready_list, current_task>>
        /\ ~CanSwitch
    BY <1>8 DEF FallOffIsr
  <2>2. RingListed' /\ RingSeq' = RingSeq
    BY <1>7, <2>1
  <2>3. ~RR!CanRotate
    <3>1. CASE RingSeq = <<>>
      BY <3>1 DEF RR!CanRotate
    <3>2. CASE RingSeq # <<>>
      BY <2>1, <3>2, QueueRotates, RingSeqEntries DEF RR!CanRotate, CanSwitch
    <3> QED
      BY <3>1, <3>2
  <2>4. RR!Stop
    BY <2>1, <2>2, <2>3 DEF RR!Stop
  <2> QED
    BY <2>2, <2>4 DEF RR!RRNext
<1>9. CASE UNCHANGED vars
  <2>1. UNCHANGED <<tasks, next, ready_list>> /\ UNCHANGED <<current_task, cpu>>
    BY <1>9 DEF vars
  <2> QED
    BY <1>7, <2>1 DEF RR!rrVars
<1>10. ASSUME NEW t \in Task, EventSystemInit(t) \/ SchedulerInit(t) \/ LoadApp(t)
       PROVE  RingListed' /\ [RR!RRNext]_RR!rrVars
  BY <1>1, <1>2, <1>3, <1>10 DEF RR!RRNext
<1> QED
  BY <1>4, <1>5, <1>6, <1>8, <1>9, <1>10 DEF Next, Tick

\* The pointer ring of scheduler.c is a queue for any number of tasks: every
\* creation, exit, kill and tick is the operation of RoundRobin, in the order
\* the tasks will run, and nothing else changes the queue.
THEOREM RingIsQueue == Spec => RoundRobinImplemented
<1>1. Init => RingListed /\ RR!RRInit
  BY QueueInit
<1>2. IInv /\ RingListed /\ [Next]_vars => RingListed' /\ [RR!RRNext]_RR!rrVars
  BY QueueStep
<1>3. Spec => RR!RRInit /\ [][RR!RRNext]_RR!rrVars
  BY <1>1, <1>2, AlwaysIInv, PTL DEF Spec
<1> QED
  BY <1>3 DEF RoundRobinImplemented, RR!RRSpec

-----------------------------------------------------------------------------
(* SchedPreempt: ticks inside the operations. *)

-----------------------------------------------------------------------------
(* The inductive invariant, in the parts that hold wherever ticks land and *)
(* those that need a label not to have been hit.                           *)

\* Only a task runs, and while none does current_task points to none.
RunningIsTask ==
    /\ cpu = "task" => current_task \in Task
    /\ cpu \in {"boot", "exited"} => current_task = NULL

\* Nothing of the boot code is interrupted.
BootIsWhole ==
    cpu = "boot" =>
        /\ fresh = {}
        /\ ready_list \in tasks \cup {NULL}
        /\ \A t \in Task : pc[t] = "run"

\* The structure a task builds is not published, nobody else builds it, and
\* it does not run before it is published.
BuildsItsOwn ==
    /\ \A t \in fresh : pc[t] = "run"
    /\ \A t \in tasks : pc[t] \in CreateLabels => new[t] \in fresh
    /\ \A s, t \in tasks :
           /\ pc[s] \in CreateLabels /\ pc[t] \in CreateLabels
           /\ new[s] = new[t]
           => s = t

\* Behind the release of a task its structure is free.
ReleasedIsFree == \A t \in tasks : pc[t] # "x_clear"

AnyTicks ==
    /\ PTypeOK /\ HeadIsRunning
    /\ RunningIsTask /\ BootIsWhole /\ BuildsItsOwn /\ ReleasedIsFree

\* The tasks that take turns: published and not on their way out.
Ring == {t \in Published : pc[t] \notin {"x_head", "x_free"}}

\* ready_list leads into the ring: it is a member, or the leaving task that
\* has yet to move it on.
HeadEntersRing ==
    IF ready_list = NULL THEN Ring = {}
    ELSE \/ ready_list \in Ring
         \/ /\ ready_list = current_task
            /\ pc[current_task] = "x_head"
            /\ current_task \in Published
            /\ \/ next[current_task] \in Ring
               \/ next[current_task] = current_task /\ Ring = {}

\* The search of an exiting task walks the ring, and ends at its predecessor.
SearchIsCurrent ==
    \A t \in tasks :
        /\ pc[t] \in {"x_scan", "x_unlink"} => t = current_task /\ prev[t] \in Ring
        /\ pc[t] = "x_unlink" => next[prev[t]] = t

\* Between its two stores insert_task has the right successor.
LinkIsCurrent ==
    \A t \in tasks :
        pc[t] = "c_publish" =>
            t = current_task /\ next[new[t]] = next[ready_list]

RingWhole ==
    /\ Cycle(Ring, next)
    /\ HeadEntersRing /\ SearchIsCurrent /\ LinkIsCurrent

RingUntorn == torn \cap {"c_publish", "x_scan", "x_unlink"} = {}

\* The ids handed out are distinct and below the counter; 0 is the id of a
\* structure that has none yet.
IdsDistinct ==
    /\ next_task_id \in CreateIds => \A t \in tasks : id[t] < next_task_id
    /\ \A s, t \in tasks : id[s] = id[t] /\ id[s] # 0 => s = t
    /\ \A t \in Published : id[t] # 0

\* A builder's structure has its id when it is linked, and the counter stays
\* as read until it is stored.
IdsReserved ==
    \A t \in tasks :
        /\ pc[t] \in {"c_link", "c_publish"} => id[new[t]] # 0
        /\ pc[t] = "c_id_store" =>
               /\ t = current_task
               /\ id_read[t] = next_task_id /\ next_task_id \in CreateIds

IdsUntorn == NoWrap /\ "c_id_store" \notin torn

\* What the atomic view needs on top: who calls task_create, and what becomes
\* of the counter between its store and the publication.
CallersAndCounter ==
    /\ \A t \in fresh : entry[t] = "vm_interpreter_loop"
    /\ \A t \in tasks :
           /\ pc[t] \in CreateLabels => entry[t] # "idle_task"
           /\ pc[t] \in ExitLabels => entry[t] = "vm_interpreter_loop"
    /\ torn = {} =>
           \A t \in tasks :
               /\ pc[t] = "c_id_store" =>
                      /\ t = current_task
                      /\ id_read[t] = next_task_id /\ next_task_id \in CreateIds
               /\ pc[t] \in {"c_link", "c_publish"} =>
                      /\ t = current_task
                      /\ id[new[t]] \in CreateIds
                      /\ next_task_id = (id[new[t]] + 1) % IdModulus

-----------------------------------------------------------------------------
(* The running task, and what can be reached from the head.                *)

\* A task at a label before the head is moved on is the head, and published.
LEMMA AtHead ==
    ASSUME AnyTicks, NEW l \in Labels \ {"x_free", "x_clear"}, At(l)
    PROVE  /\ cpu = "task" /\ pc[current_task] = l
           /\ ready_list = current_task
           /\ current_task \in Published /\ current_task \in tasks
           /\ current_task \in Task /\ current_task # NULL
           /\ next[current_task] \in Published
<1> USE ConstantsAssumption
<1>1. /\ cpu = "task" /\ pc[current_task] = l /\ RingNeverDangles
      /\ current_task \in Task /\ current_task # NULL
  BY DEF At, AnyTicks, RunningIsTask
<1>2. ready_list = current_task
  BY <1>1 DEF AnyTicks, HeadIsRunning
<1>3. PICK R \in SUBSET Published : ready_list \in R /\ \A x \in R : next[x] \in R
  BY <1>1, <1>2 DEF RingNeverDangles
<1>4. current_task \in Published /\ next[current_task] \in Published
  BY <1>2, <1>3
<1> QED
  BY <1>1, <1>2, <1>4 DEF Published

\* The walk of task_destroy_by_id stays among published structures.
LEMMA LinkedPublished ==
    ASSUME PTypeOK, RingNeverDangles, ready_list # NULL
    PROVE  Linked \subseteq Published
<1>1. PICK R \in SUBSET Published : ready_list \in R /\ \A x \in R : next[x] \in R
  BY DEF RingNeverDangles
<1>2. /\ R \in SUBSET Task /\ ready_list \in Published
      /\ next[ready_list] \in R /\ \A x \in R \cap Published : next[x] \in R
  BY <1>1 DEF PTypeOK, Published
<1>3. Linked \subseteq R
  BY <1>2 DEF Linked
<1> QED
  BY <1>1, <1>3

-----------------------------------------------------------------------------
(* What each operation does to the shared state, in the terms the proofs   *)
(* below use.                                                              *)

\* A call of the boot code.
LEMMA BootEffect ==
    ASSUME AnyTicks, NEW t \in Task, Boot(t)
    PROVE  /\ cpu = "boot" /\ cpu' = "boot" /\ timer_on' \in BOOLEAN
           /\ current_task = NULL /\ current_task' = NULL
           /\ t \notin tasks /\ t # NULL /\ fresh = {}
           /\ \A x \in Task : pc[x] = "run"
           /\ tasks' = tasks \cup {t}
           /\ next_task_id \in CreateIds
           /\ next_task_id' = (next_task_id + 1) % IdModulus
           /\ id' = With(id, t, next_task_id)
           /\ \E e \in Entries : entry' = With(entry, t, e)
           /\ ready_list \in tasks \cup {NULL}
           /\ ready_list' = IF ready_list = NULL THEN t ELSE ready_list
           /\ next' = IF ready_list = NULL THEN With(next, t, t)
                      ELSE [x \in tasks \cup {t} |->
                               IF x = ready_list THEN t
                               ELSE IF x = t THEN next[ready_list] ELSE next[x]]
           /\ UNCHANGED <<pc, new, id_read, prev, fresh, torn>>
<1> USE ConstantsAssumption
<1>1. /\ cpu = "boot" /\ UNCHANGED <<pc, new, id_read, prev, fresh, torn>>
      /\ EventSystemInit(t) \/ SchedulerInit(t) \/ LoadApp(t)
  BY DEF Boot, locals
<1>2. /\ current_task = NULL /\ fresh = {} /\ ready_list \in tasks \cup {NULL}
      /\ \A x \in Task : pc[x] = "run"
      /\ timer_on \in BOOLEAN /\ tasks \subseteq Task
  BY <1>1 DEF AnyTicks, RunningIsTask, BootIsWhole, PTypeOK
<1>3. PICK e \in Entries : TaskCreate(t, e)
  BY <1>1 DEF EventSystemInit, SchedulerInit, LoadApp, Entries
<1>4. /\ t \notin tasks /\ tasks' = tasks \cup {t}
      /\ next_task_id \in CreateIds
      /\ next_task_id' = (next_task_id + 1) % IdModulus
      /\ id' = With(id, t, next_task_id) /\ entry' = With(entry, t, e)
      /\ InsertTask(t)
  BY <1>3 DEF TaskCreate
<1>5. ready_list' = IF ready_list = NULL THEN t ELSE ready_list
  BY <1>4 DEF InsertTask
<1>6. next' = IF ready_list = NULL THEN With(next, t, t)
              ELSE [x \in tasks \cup {t} |->
                       IF x = ready_list THEN t
                       ELSE IF x = t THEN next[ready_list] ELSE next[x]]
  BY <1>2, <1>4 DEF InsertTask, With
<1>7. ready_list' # NULL
  BY <1>5
<1>8. current_task' = NULL /\ cpu' = "boot" /\ timer_on' \in BOOLEAN
  BY <1>1, <1>2, <1>7 DEF EventSystemInit, SchedulerInit, LoadApp
<1> QED
  BY <1>1, <1>2, <1>4, <1>5, <1>6, <1>8

\* task_destroy_by_id takes out a task that is neither running nor the head.
LEMMA KillEffect ==
    ASSUME AnyTicks, NEW i \in StopIds, KillTask(i)
    PROVE  /\ pc[current_task] = "run" /\ cpu = "task"
           /\ current_task \in Published /\ ready_list = current_task
           /\ entry[current_task] # "idle_task"
           /\ id[current_task] # i
           /\ \E target \in Linked \cap Published :
                 /\ id[target] = i
                 /\ target # ready_list /\ target # NULL
                 /\ tasks' = tasks \ {target}
                 /\ next' = Unlinked(Linked, target)
                 /\ id' = Without(id, target) /\ entry' = Without(entry, target)
                 /\ Release(target)
           /\ fresh' = fresh /\ ready_list' = ready_list /\ current_task' = current_task
           /\ UNCHANGED <<next_task_id, timer_on, cpu, pc, new, id_read, prev, torn>>
<1> USE ConstantsAssumption
<1>1. At("run") /\ "run" \in Labels \ {"x_free", "x_clear"}
  BY DEF KillTask, Labels
<1>2. /\ pc[current_task] = "run" /\ cpu = "task"
      /\ current_task \in Published /\ ready_list = current_task
      /\ current_task # NULL
  BY <1>1, AtHead
<1>3. Linked \subseteq Published
  BY <1>1, <1>2, LinkedPublished DEF At, AnyTicks
<1>4. /\ id[current_task] # i /\ entry[current_task] # "idle_task"
      /\ fresh' = fresh \cap tasks'
      /\ UNCHANGED <<next_task_id, timer_on, cpu, pc, new, id_read, prev, torn>>
  BY DEF KillTask, InKernelCall
<1>5. PICK target \in Linked : id[target] = i /\ DestroyTarget(Linked, target)
  BY DEF KillTask
<1>6. target # current_task /\ target \in Published
  BY <1>3, <1>4, <1>5
<1>7. /\ ready_list' = ready_list /\ next' = Unlinked(Linked, target)
      /\ current_task' = current_task /\ Release(target)
  BY <1>2, <1>5, <1>6 DEF DestroyTarget
<1>8. /\ tasks' = tasks \ {target}
      /\ id' = Without(id, target) /\ entry' = Without(entry, target)
  BY <1>7 DEF Release
<1>9. fresh' = fresh /\ target # NULL
  <2>1. fresh \subseteq tasks /\ tasks \subseteq Task
    BY DEF AnyTicks, PTypeOK
  <2> QED
    BY <1>4, <1>6, <1>8, <2>1 DEF Published
<1> QED
  BY <1>2, <1>4, <1>5, <1>6, <1>7, <1>8, <1>9

\* A tick moves the head and the running task to a published task together,
\* or stops the processor.
LEMMA InterruptEffect ==
    ASSUME AnyTicks, Interrupt
    PROVE  /\ UNCHANGED <<tasks, next, id, entry, next_task_id, timer_on,
                          pc, new, id_read, prev, fresh>>
           /\ cpu # "lost"
           /\ torn' = torn \cup {l \in Critical : cpu = "task" /\ l = pc[current_task]}
           /\ \/ /\ CanSwitch /\ cpu' = "task" /\ ready_list \in Published
                 /\ ready_list' = next[ready_list] /\ current_task' = next[ready_list]
                 /\ next[ready_list] \in Published
              \/ /\ ~CanSwitch /\ cpu' = "lost"
                 /\ UNCHANGED <<ready_list, current_task>>
<1>1. /\ RingNeverDangles /\ Tick
      /\ torn' = torn \cup {l \in Critical : cpu = "task" /\ l = pc[current_task]}
      /\ UNCHANGED <<pc, new, id_read, prev, fresh>>
  BY DEF Interrupt
<1>2. CASE SwitchToNext
  <2>1. /\ CanSwitch /\ ready_list # NULL /\ cpu # "lost" /\ cpu' = "task"
        /\ ready_list' = next[ready_list] /\ current_task' = next[ready_list]
        /\ UNCHANGED <<tasks, next, id, entry, next_task_id, timer_on>>
    BY <1>2 DEF SwitchToNext, CanSwitch
  <2>2. ready_list \in Published /\ next[ready_list] \in Published
    BY <1>1, <2>1 DEF RingNeverDangles
  <2> QED
    BY <1>1, <2>1, <2>2
<1>3. CASE FallOffIsr
  BY <1>1, <1>3 DEF FallOffIsr
<1> QED
  BY <1>1, <1>2, <1>3 DEF Tick

-----------------------------------------------------------------------------
(* AnyTicks: types, the head, and who builds what.                         *)

\* Before the boot code runs there is nothing.
LEMMA AnyTicksInit == PInit => AnyTicks
<1> SUFFICES ASSUME PInit PROVE AnyTicks
  OBVIOUS
<1> USE ConstantsAssumption, PreemptAssumption
<1>1. /\ Init /\ fresh = {} /\ torn = {}
      /\ pc = [t \in Task |-> "run"] /\ new = [t \in Task |-> NULL]
      /\ id_read = [t \in Task |-> 0] /\ prev = [t \in Task |-> NULL]
  BY DEF PInit
<1>2. /\ tasks = {} /\ next = [t \in {} |-> NULL] /\ id = [t \in {} |-> 0]
      /\ entry = [t \in {} |-> "idle_task"]
      /\ ready_list = NULL /\ current_task = NULL /\ next_task_id = 1
      /\ timer_on = FALSE /\ cpu = "boot"
  BY <1>1 DEF Init
<1>3. PTypeOK
  <2>1. next_task_id \in Ids /\ 0 \in Ids
    BY <1>2 DEF Ids
  <2>2. /\ next \in [tasks -> Task \cup {NULL}]
        /\ id \in [tasks -> Ids] /\ entry \in [tasks -> Entries]
    BY <1>2
  <2>3. /\ pc \in [Task -> Labels] /\ new \in [Task -> Task \cup {NULL}]
        /\ id_read \in [Task -> Ids] /\ prev \in [Task -> Task \cup {NULL}]
    BY <1>1, <2>1 DEF Labels
  <2> QED
    BY <1>1, <1>2, <2>1, <2>2, <2>3 DEF PTypeOK, Modes
<1>4. HeadIsRunning /\ RunningIsTask
  BY <1>2 DEF HeadIsRunning, RunningIsTask
<1>5. BootIsWhole /\ BuildsItsOwn /\ ReleasedIsFree
  BY <1>1, <1>2 DEF BootIsWhole, BuildsItsOwn, ReleasedIsFree
<1> QED
  BY <1>3, <1>4, <1>5 DEF AnyTicks

LEMMA AnyTicksBoot ==
    ASSUME AnyTicks, NEW t \in Task, Boot(t)
    PROVE  AnyTicks'
<1> USE ConstantsAssumption
<1>1. PTypeOK /\ ReleasedIsFree
  BY DEF AnyTicks
<1>2. /\ cpu = "boot" /\ cpu' = "boot" /\ timer_on' \in BOOLEAN
      /\ current_task' = NULL /\ t \notin tasks /\ t # NULL /\ fresh = {}
      /\ \A x \in Task : pc[x] = "run"
      /\ tasks' = tasks \cup {t}
      /\ next_task_id \in CreateIds
      /\ next_task_id' = (next_task_id + 1) % IdModulus
      /\ id' = With(id, t, next_task_id)
      /\ ready_list \in tasks \cup {NULL}
      /\ ready_list' = IF ready_list = NULL THEN t ELSE ready_list
      /\ next' = IF ready_list = NULL THEN With(next, t, t)
                 ELSE [x \in tasks \cup {t} |->
                          IF x = ready_list THEN t
                          ELSE IF x = t THEN next[ready_list] ELSE next[x]]
      /\ UNCHANGED <<pc, new, id_read, prev, fresh, torn>>
  BY BootEffect
<1>3. PICK e \in Entries : entry' = With(entry, t, e)
  BY BootEffect
<1>4. PTypeOK'
  <2>1. tasks' \subseteq Task /\ fresh' \subseteq tasks'
    BY <1>1, <1>2 DEF PTypeOK
  <2>2. next' \in [tasks' -> Task \cup {NULL}]
    <3>1. CASE ready_list = NULL
      BY <1>1, <1>2, <3>1 DEF PTypeOK, With
    <3>2. CASE ready_list # NULL
      BY <1>1, <1>2, <3>2 DEF PTypeOK
    <3> QED
      BY <3>1, <3>2
  <2>3. id' \in [tasks' -> Ids] /\ entry' \in [tasks' -> Entries]
    BY <1>1, <1>2, <1>3 DEF PTypeOK, With
  <2>4. next_task_id' \in Ids
    BY <1>1, <1>2 DEF PTypeOK, Ids
  <2>5. ready_list' \in Task \cup {NULL}
    BY <1>1, <1>2 DEF PTypeOK
  <2> QED
    BY <1>1, <1>2, <2>1, <2>2, <2>3, <2>4, <2>5 DEF PTypeOK
<1>5. HeadIsRunning' /\ RunningIsTask'
  BY <1>2 DEF HeadIsRunning, RunningIsTask
<1>6. BootIsWhole' /\ BuildsItsOwn' /\ ReleasedIsFree'
  BY <1>1, <1>2 DEF BootIsWhole, BuildsItsOwn, ReleasedIsFree, CreateLabels, PTypeOK
<1> QED
  BY <1>4, <1>5, <1>6 DEF AnyTicks

LEMMA AnyTicksAlloc ==
    ASSUME AnyTicks, NEW t \in Task, CreateAlloc(t)
    PROVE  AnyTicks'
<1> USE ConstantsAssumption
<1>1. /\ PTypeOK /\ HeadIsRunning /\ RunningIsTask /\ BootIsWhole
      /\ BuildsItsOwn /\ ReleasedIsFree
  BY DEF AnyTicks
<1>2. At("run") /\ "run" \in Labels \ {"x_free", "x_clear"}
  BY DEF CreateAlloc, Labels
<1>3. /\ cpu = "task" /\ current_task \in Published /\ current_task \in Task
      /\ current_task \in tasks /\ ready_list = current_task
  BY <1>2, AtHead
<1>4. /\ t \notin tasks /\ t # current_task /\ t # NULL
      /\ tasks' = tasks \cup {t} /\ fresh' = fresh \cup {t}
      /\ next' = With(next, t, NULL) /\ id' = With(id, t, 0)
      /\ entry' = With(entry, t, "vm_interpreter_loop")
      /\ new' = [new EXCEPT ![current_task] = t, ![t] = NULL]
      /\ prev' = [prev EXCEPT ![t] = NULL]
      /\ pc' = [pc EXCEPT ![current_task] = "c_id", ![t] = "run"]
      /\ UNCHANGED <<ready_list, current_task, next_task_id, timer_on, cpu, id_read, torn>>
  BY <1>3 DEF CreateAlloc
<1>5. PTypeOK'
  <2>1. 0 \in Ids /\ "vm_interpreter_loop" \in Entries
    BY DEF Ids, Entries
  <2>2. /\ next' \in [tasks' -> Task \cup {NULL}]
        /\ id' \in [tasks' -> Ids] /\ entry' \in [tasks' -> Entries]
    BY <1>1, <1>4, <2>1 DEF PTypeOK, With
  <2>3. /\ new' \in [Task -> Task \cup {NULL}]
        /\ prev' \in [Task -> Task \cup {NULL}]
    BY <1>1, <1>3, <1>4 DEF PTypeOK
  <2>4. pc' \in [Task -> Labels]
    BY <1>1, <1>3, <1>4 DEF PTypeOK, Labels, CreateLabels
  <2> QED
    BY <1>1, <1>4, <2>2, <2>3, <2>4 DEF PTypeOK
<1>6. /\ pc'[current_task] = "c_id" /\ pc'[t] = "run" /\ new'[current_task] = t
      /\ \A x \in tasks \ {current_task} : pc'[x] = pc[x] /\ new'[x] = new[x]
  BY <1>1, <1>3, <1>4 DEF PTypeOK
<1>7. HeadIsRunning' /\ RunningIsTask' /\ BootIsWhole'
  BY <1>3, <1>4 DEF HeadIsRunning, RunningIsTask, BootIsWhole
<1>8. BuildsItsOwn'
  <2>1. fresh \subseteq tasks /\ current_task \notin fresh
    BY <1>1, <1>3 DEF PTypeOK, Published
  <2>2. \A x \in fresh' : pc'[x] = "run"
    BY <1>1, <1>4, <1>6, <2>1 DEF BuildsItsOwn
  <2>3. ASSUME NEW x \in tasks', pc'[x] \in CreateLabels PROVE new'[x] \in fresh'
    <3>1. CASE x = current_task
      <4>1. t \in fresh'
        BY <1>4
      <4> QED
        BY <1>6, <3>1, <4>1
    <3>2. CASE x # current_task
      <4>1. x \in tasks \ {current_task}
        BY <1>4, <1>6, <2>3, <3>2 DEF CreateLabels
      <4>2. pc[x] \in CreateLabels /\ new'[x] = new[x]
        BY <1>6, <2>3, <4>1
      <4> QED
        BY <1>1, <1>4, <4>1, <4>2 DEF BuildsItsOwn
    <3> QED
      BY <3>1, <3>2
  <2>4. \A x \in tasks \ {current_task} : pc[x] \in CreateLabels => new[x] # t
    BY <1>1, <1>4, <2>1 DEF BuildsItsOwn
  <2>5. \A x, y \in tasks' :
           pc'[x] \in CreateLabels /\ pc'[y] \in CreateLabels /\ new'[x] = new'[y] => x = y
    <3>1. \A x \in tasks' : pc'[x] \in CreateLabels => x \in tasks
      BY <1>4, <1>6 DEF CreateLabels
    <3> QED
      BY <1>1, <1>6, <2>4, <3>1 DEF BuildsItsOwn
  <2> QED
    BY <2>2, <2>3, <2>5 DEF BuildsItsOwn
<1>9. ReleasedIsFree'
  BY <1>1, <1>4, <1>6 DEF ReleasedIsFree
<1> QED
  BY <1>5, <1>7, <1>8, <1>9 DEF AnyTicks

\* A step of the running task that moves its label and writes no more than
\* pointers, ids and its own locals.
LEMMA AnyTicksLocal ==
    ASSUME AnyTicks, cpu = "task", current_task \notin fresh,
           NEW l \in Labels \ {"x_clear"},
           pc' = [pc EXCEPT ![current_task] = l],
           l \in CreateLabels => pc[current_task] \in CreateLabels,
           next' \in [tasks -> Task \cup {NULL}], id' \in [tasks -> Ids],
           ready_list' \in Task \cup {NULL}, next_task_id' \in Ids,
           id_read' \in [Task -> Ids], prev' \in [Task -> Task \cup {NULL}],
           ready_list' = current_task \/ l = "x_free",
           UNCHANGED <<tasks, entry, current_task, timer_on, cpu, new, fresh, torn>>
    PROVE  AnyTicks'
<1>1. /\ PTypeOK /\ HeadIsRunning /\ RunningIsTask /\ BootIsWhole
      /\ BuildsItsOwn /\ ReleasedIsFree
  BY DEF AnyTicks
<1>2. current_task \in Task
  BY <1>1 DEF RunningIsTask
<1>3. pc'[current_task] = l /\ \A x \in Task \ {current_task} : pc'[x] = pc[x]
  BY <1>1, <1>2 DEF PTypeOK
<1>4. PTypeOK'
  <2>1. pc' \in [Task -> Labels]
    BY <1>1 DEF PTypeOK
  <2> QED
    BY <1>1, <2>1 DEF PTypeOK
<1>5. HeadIsRunning' /\ RunningIsTask' /\ BootIsWhole'
  BY <1>1, <1>2, <1>3 DEF HeadIsRunning, RunningIsTask, BootIsWhole
<1>6. BuildsItsOwn'
  <2>1. tasks \subseteq Task /\ fresh \subseteq Task
    BY <1>1 DEF PTypeOK
  <2>2. \A x \in fresh : pc'[x] = "run"
    BY <1>1, <1>3, <2>1 DEF BuildsItsOwn
  <2>3. \A x \in tasks : pc'[x] \in CreateLabels => pc[x] \in CreateLabels
    BY <1>3, <2>1
  <2> QED
    BY <1>1, <2>2, <2>3 DEF BuildsItsOwn
<1>7. ReleasedIsFree'
  <2>1. tasks \subseteq Task
    BY <1>1 DEF PTypeOK
  <2> QED
    BY <1>1, <1>3, <2>1 DEF ReleasedIsFree
<1> QED
  BY <1>4, <1>5, <1>6, <1>7 DEF AnyTicks

\* The running task is not under construction.
LEMMA RunnerIsBuilt ==
    ASSUME AnyTicks, cpu = "task", pc[current_task] # "run"
    PROVE  current_task \notin fresh
  BY DEF AnyTicks, BuildsItsOwn

LEMMA AnyTicksCreate ==
    ASSUME AnyTicks, CreateReadId \/ CreateStoreId \/ CreateLink
    PROVE  AnyTicks'
<1> USE ConstantsAssumption
<1>0. PTypeOK /\ {"c_id", "c_id_store", "c_link", "c_publish"} \subseteq Labels \ {"x_free", "x_clear"}
  BY DEF AnyTicks, Labels, CreateLabels
<1>1. CASE CreateReadId
  <2>1. /\ At("c_id") /\ pc' = [pc EXCEPT ![current_task] = "c_id_store"]
        /\ id_read' = [id_read EXCEPT ![current_task] = next_task_id]
        /\ UNCHANGED <<tasks, next, id, entry, ready_list, current_task,
                       next_task_id, timer_on, cpu, new, prev, fresh, torn>>
    BY <1>1 DEF CreateReadId, Goto, vars
  <2>2. /\ cpu = "task" /\ pc[current_task] = "c_id" /\ ready_list = current_task
        /\ current_task \in Published
    BY <1>0, <2>1, AtHead
  <2>3. id_read' \in [Task -> Ids]
    BY <1>0, <2>1 DEF PTypeOK
  <2>4. current_task \notin fresh /\ pc[current_task] \in CreateLabels
    BY <2>2 DEF Published, CreateLabels
  <2> QED
    BY <1>0, <2>1, <2>2, <2>3, <2>4, AnyTicksLocal DEF PTypeOK
<1>2. CASE CreateStoreId
  <2>1. /\ At("c_id_store") /\ pc' = [pc EXCEPT ![current_task] = "c_link"]
        /\ id_read' = [id_read EXCEPT ![current_task] = 0]
        /\ next_task_id' = (id_read[current_task] + 1) % IdModulus
        /\ id' = [id EXCEPT ![new[current_task]] = id_read[current_task]]
        /\ UNCHANGED <<tasks, next, entry, ready_list, current_task,
                       timer_on, cpu, new, prev, fresh, torn>>
    BY <1>2 DEF CreateStoreId, Goto
  <2>2. /\ cpu = "task" /\ pc[current_task] = "c_id_store" /\ ready_list = current_task
        /\ current_task \in Published /\ current_task \in Task
    BY <1>0, <2>1, AtHead
  <2>3. id_read[current_task] \in Ids /\ 0 \in Ids
    BY <1>0, <2>2 DEF PTypeOK, Ids
  <2>4. /\ id_read' \in [Task -> Ids] /\ id' \in [tasks -> Ids]
    BY <1>0, <2>1, <2>3 DEF PTypeOK
  <2>5. next_task_id' \in Ids
    BY <2>1, <2>3 DEF Ids
  <2>6. current_task \notin fresh /\ pc[current_task] \in CreateLabels
    BY <2>2 DEF Published, CreateLabels
  <2> QED
    BY <1>0, <2>1, <2>2, <2>4, <2>5, <2>6, AnyTicksLocal DEF PTypeOK
<1>3. CASE CreateLink
  <2>1. /\ At("c_link") /\ pc' = [pc EXCEPT ![current_task] = "c_publish"]
        /\ next' = [next EXCEPT ![new[current_task]] = next[ready_list]]
        /\ UNCHANGED <<tasks, id, entry, ready_list, current_task, next_task_id,
                       timer_on, cpu, new, id_read, prev, fresh, torn>>
    BY <1>3 DEF CreateLink, Goto
  <2>2. /\ cpu = "task" /\ pc[current_task] = "c_link" /\ ready_list = current_task
        /\ current_task \in Published /\ next[current_task] \in Published
    BY <1>0, <2>1, AtHead
  <2>3. next' \in [tasks -> Task \cup {NULL}]
    BY <1>0, <2>1, <2>2 DEF PTypeOK, Published
  <2>4. current_task \notin fresh /\ pc[current_task] \in CreateLabels
    BY <2>2 DEF Published, CreateLabels
  <2> QED
    BY <1>0, <2>1, <2>2, <2>3, <2>4, AnyTicksLocal DEF PTypeOK
<1> QED
  BY <1>1, <1>2, <1>3

\* With the store of the head the structure is published and its builder done.
LEMMA AnyTicksPublish ==
    ASSUME AnyTicks, CreatePublish
    PROVE  AnyTicks'
<1> USE ConstantsAssumption
<1>1. /\ PTypeOK /\ HeadIsRunning /\ RunningIsTask /\ BootIsWhole
      /\ BuildsItsOwn /\ ReleasedIsFree
  BY DEF AnyTicks
<1>2. At("c_publish") /\ "c_publish" \in Labels \ {"x_free", "x_clear"}
  BY DEF CreatePublish, Labels, CreateLabels
<1>3. /\ cpu = "task" /\ current_task \in Task /\ pc[current_task] = "c_publish"
      /\ current_task \in tasks /\ ready_list = current_task
  BY <1>2, AtHead
<1>4. /\ next' = [next EXCEPT ![ready_list] = new[current_task]]
      /\ fresh' = fresh \ {new[current_task]}
      /\ new' = [new EXCEPT ![current_task] = NULL]
      /\ pc' = [pc EXCEPT ![current_task] = "run"]
      /\ UNCHANGED <<tasks, id, entry, ready_list, current_task, next_task_id,
                     timer_on, cpu, id_read, prev, torn>>
  BY DEF CreatePublish, Goto
<1>5. /\ pc'[current_task] = "run"
      /\ \A x \in Task \ {current_task} : pc'[x] = pc[x] /\ new'[x] = new[x]
      /\ tasks \subseteq Task /\ fresh \subseteq tasks
  BY <1>1, <1>3, <1>4 DEF PTypeOK
<1>6. PTypeOK'
  <2>1. /\ next' \in [tasks -> Task \cup {NULL}]
        /\ new' \in [Task -> Task \cup {NULL}]
    BY <1>1, <1>3, <1>4 DEF PTypeOK
  <2>2. pc' \in [Task -> Labels]
    BY <1>1, <1>4 DEF PTypeOK, Labels
  <2>3. fresh' \subseteq tasks'
    BY <1>4, <1>5
  <2> QED
    BY <1>1, <1>4, <2>1, <2>2, <2>3 DEF PTypeOK
<1>7. HeadIsRunning' /\ RunningIsTask' /\ BootIsWhole'
  BY <1>3, <1>4 DEF HeadIsRunning, RunningIsTask, BootIsWhole
<1>8. BuildsItsOwn'
  <2>1. \A x \in fresh' : pc'[x] = "run"
    BY <1>1, <1>4, <1>5 DEF BuildsItsOwn
  <2>2. \A x \in tasks : pc'[x] \in CreateLabels =>
            x # current_task /\ x \in Task /\ pc[x] \in CreateLabels /\ new'[x] = new[x]
    BY <1>5 DEF CreateLabels
  <2>3. \A x \in tasks : pc'[x] \in CreateLabels => new[x] # new[current_task]
    BY <1>1, <1>3, <2>2 DEF BuildsItsOwn, CreateLabels
  <2>4. \A x \in tasks : pc'[x] \in CreateLabels => new'[x] \in fresh \ {new[current_task]}
    BY <1>1, <2>2, <2>3 DEF BuildsItsOwn
  <2>5. \A x, y \in tasks :
            pc'[x] \in CreateLabels /\ pc'[y] \in CreateLabels /\ new'[x] = new'[y] => x = y
    BY <1>1, <2>2 DEF BuildsItsOwn
  <2>6. tasks' = tasks /\ fresh' = fresh \ {new[current_task]}
    BY <1>4
  <2> QED
    BY <2>1, <2>4, <2>5, <2>6 DEF BuildsItsOwn
<1>9. ReleasedIsFree'
  BY <1>1, <1>4, <1>5 DEF ReleasedIsFree
<1> QED
  BY <1>6, <1>7, <1>8, <1>9 DEF AnyTicks

LEMMA AnyTicksExit ==
    ASSUME AnyTicks, ExitCall \/ ExitScan \/ ExitMissed \/ ExitUnlink \/ ExitHead
    PROVE  AnyTicks'
<1> USE ConstantsAssumption
<1>0. /\ PTypeOK
      /\ {"run", "x_scan", "x_unlink", "x_head"} \subseteq Labels \ {"x_free", "x_clear"}
      /\ "x_free" \in Labels
  BY DEF AnyTicks, Labels, ExitLabels
<1>1. CASE ExitCall
  <2>1. /\ At("run") /\ pc' = [pc EXCEPT ![current_task] = "x_scan"]
        /\ prev' = [prev EXCEPT ![current_task] = ready_list]
        /\ UNCHANGED <<tasks, next, id, entry, ready_list, current_task,
                       next_task_id, timer_on, cpu, new, id_read, fresh, torn>>
    BY <1>1 DEF ExitCall, Goto, vars
  <2>2. /\ cpu = "task" /\ ready_list = current_task /\ current_task \in Published
    BY <1>0, <2>1, AtHead
  <2>3. prev' \in [Task -> Task \cup {NULL}]
    BY <1>0, <2>1 DEF PTypeOK
  <2>4. current_task \notin fresh /\ "x_scan" \notin CreateLabels
    BY <2>2 DEF Published, CreateLabels
  <2> QED
    BY <1>0, <2>1, <2>2, <2>3, <2>4, AnyTicksLocal DEF PTypeOK
<1>2. CASE ExitScan
  <2>1. /\ At("x_scan")
        /\ UNCHANGED <<tasks, next, id, entry, ready_list, current_task,
                       next_task_id, timer_on, cpu, new, id_read, fresh, torn>>
    BY <1>2 DEF ExitScan, vars
  <2>2. /\ cpu = "task" /\ ready_list = current_task /\ current_task \in Published
        /\ current_task \in Task /\ pc[current_task] = "x_scan"
    BY <1>0, <2>1, AtHead
  <2>3. PICK n \in IF prev[current_task] \in tasks THEN {next[prev[current_task]]} ELSE Task :
            IF n = current_task
            THEN Goto("x_unlink") /\ UNCHANGED prev
            ELSE IF n = ready_list
            THEN Goto("x_unlink") /\ prev' = [prev EXCEPT ![current_task] = n]
            ELSE UNCHANGED pc /\ prev' = [prev EXCEPT ![current_task] = n]
    BY <1>2 DEF ExitScan
  <2>4. n \in Task \cup {NULL}
    <3>1. CASE prev[current_task] \in tasks
      BY <1>0, <2>3, <3>1 DEF PTypeOK
    <3>2. CASE prev[current_task] \notin tasks
      BY <2>3, <3>2
    <3> QED
      BY <3>1, <3>2
  <2>5. prev' \in [Task -> Task \cup {NULL}]
    BY <1>0, <2>3, <2>4 DEF PTypeOK
  <2>6. \E l \in {"x_scan", "x_unlink"} : pc' = [pc EXCEPT ![current_task] = l]
    <3>1. [pc EXCEPT ![current_task] = "x_scan"] = pc
      BY <1>0, <2>2 DEF PTypeOK
    <3> QED
      BY <2>3, <3>1 DEF Goto
  <2>7. current_task \notin fresh /\ {"x_scan", "x_unlink"} \cap CreateLabels = {}
    BY <2>2 DEF Published, CreateLabels
  <2>8. PICK l \in {"x_scan", "x_unlink"} : pc' = [pc EXCEPT ![current_task] = l]
    BY <2>6
  <2>9. l \in Labels \ {"x_clear"} /\ l \notin CreateLabels
    BY <1>0, <2>7
  <2> QED
    BY <1>0, <2>1, <2>2, <2>5, <2>7, <2>8, <2>9, AnyTicksLocal DEF PTypeOK
<1>3. CASE ExitMissed
  <2>1. /\ At("x_unlink") /\ pc' = [pc EXCEPT ![current_task] = "x_free"]
        /\ prev' = [prev EXCEPT ![current_task] = NULL]
        /\ UNCHANGED <<tasks, next, id, entry, ready_list, current_task,
                       next_task_id, timer_on, cpu, new, id_read, fresh, torn>>
    BY <1>3 DEF ExitMissed, Goto, vars
  <2>2. /\ cpu = "task" /\ ready_list = current_task /\ current_task \in Published
    BY <1>0, <2>1, AtHead
  <2>3. prev' \in [Task -> Task \cup {NULL}]
    BY <1>0, <2>1 DEF PTypeOK
  <2>4. current_task \notin fresh /\ "x_free" \notin CreateLabels
    BY <2>2 DEF Published, CreateLabels
  <2> QED
    BY <1>0, <2>1, <2>2, <2>3, <2>4, AnyTicksLocal DEF PTypeOK
<1>4. CASE ExitUnlink
  <2>1. /\ At("x_unlink") /\ pc' = [pc EXCEPT ![current_task] = "x_head"]
        /\ prev' = [prev EXCEPT ![current_task] = NULL]
        /\ next' = [x \in tasks |-> IF x = prev[current_task]
                                    THEN next[current_task] ELSE next[x]]
        /\ UNCHANGED <<tasks, id, entry, ready_list, current_task,
                       next_task_id, timer_on, cpu, new, id_read, fresh, torn>>
    BY <1>4 DEF ExitUnlink, Goto
  <2>2. /\ cpu = "task" /\ ready_list = current_task /\ current_task \in Published
        /\ current_task \in tasks
    BY <1>0, <2>1, AtHead
  <2>3. prev' \in [Task -> Task \cup {NULL}] /\ next' \in [tasks -> Task \cup {NULL}]
    BY <1>0, <2>1, <2>2 DEF PTypeOK
  <2>4. current_task \notin fresh /\ "x_head" \notin CreateLabels
    BY <2>2 DEF Published, CreateLabels
  <2> QED
    BY <1>0, <2>1, <2>2, <2>3, <2>4, AnyTicksLocal DEF PTypeOK
<1>5. CASE ExitHead
  <2>1. /\ At("x_head") /\ pc' = [pc EXCEPT ![current_task] = "x_free"]
        /\ ready_list' = IF current_task # ready_list THEN ready_list
                         ELSE IF next[current_task] = current_task THEN NULL
                         ELSE next[current_task]
        /\ UNCHANGED <<tasks, next, id, entry, current_task, next_task_id,
                       timer_on, cpu, new, id_read, prev, fresh, torn>>
    BY <1>5 DEF ExitHead, Goto
  <2>2. /\ cpu = "task" /\ ready_list = current_task /\ current_task \in Published
        /\ current_task \in tasks
    BY <1>0, <2>1, AtHead
  <2>3. ready_list' \in Task \cup {NULL}
    BY <1>0, <2>1, <2>2 DEF PTypeOK
  <2>4. current_task \notin fresh /\ "x_free" \notin CreateLabels
    BY <2>2 DEF Published, CreateLabels
  <2> QED
    BY <1>0, <2>1, <2>2, <2>3, <2>4, AnyTicksLocal DEF PTypeOK
<1> QED
  BY <1>1, <1>2, <1>3, <1>4, <1>5

LEMMA AnyTicksFree ==
    ASSUME AnyTicks, ExitFree
    PROVE  AnyTicks'
<1> USE ConstantsAssumption
<1>1. /\ PTypeOK /\ HeadIsRunning /\ RunningIsTask /\ BootIsWhole
      /\ BuildsItsOwn /\ ReleasedIsFree
  BY DEF AnyTicks
<1>2. /\ cpu = "task" /\ pc[current_task] = "x_free" /\ current_task \in Task
  BY <1>1 DEF ExitFree, At, RunningIsTask
<1>3. /\ tasks' = tasks \ {current_task} /\ fresh' = fresh \cap tasks'
      /\ next' = Without(next, current_task)
      /\ id' = Without(id, current_task) /\ entry' = Without(entry, current_task)
      /\ pc' = [pc EXCEPT ![current_task] = "x_clear"]
      /\ UNCHANGED <<ready_list, current_task, next_task_id, timer_on, cpu,
                     new, id_read, prev, torn>>
  BY DEF ExitFree, Release, Goto
<1>4. fresh' = fresh
  <2>1. current_task \notin fresh
    BY <1>2, RunnerIsBuilt
  <2> QED
    BY <1>1, <1>3, <2>1 DEF PTypeOK
<1>5. /\ pc'[current_task] = "x_clear"
      /\ \A x \in Task \ {current_task} : pc'[x] = pc[x]
      /\ tasks \subseteq Task /\ fresh \subseteq tasks
  BY <1>1, <1>2, <1>3 DEF PTypeOK
<1>6. PTypeOK'
  <2>1. /\ next' \in [tasks' -> Task \cup {NULL}]
        /\ id' \in [tasks' -> Ids] /\ entry' \in [tasks' -> Entries]
    BY <1>1, <1>3 DEF PTypeOK, Without
  <2>2. pc' \in [Task -> Labels]
    BY <1>1, <1>3 DEF PTypeOK, Labels, ExitLabels
  <2>3. tasks' \subseteq Task /\ fresh' \subseteq tasks'
    BY <1>3, <1>5
  <2> QED
    BY <1>1, <1>3, <2>1, <2>2, <2>3 DEF PTypeOK
<1>7. HeadIsRunning' /\ RunningIsTask' /\ BootIsWhole'
  BY <1>2, <1>3, <1>5 DEF HeadIsRunning, RunningIsTask, BootIsWhole
<1>8. BuildsItsOwn'
  <2>1. \A x \in fresh : pc'[x] = "run"
    BY <1>1, <1>2, <1>5 DEF BuildsItsOwn
  <2>2. \A x \in tasks' : x \in tasks /\ pc'[x] = pc[x]
    BY <1>3, <1>5
  <2>3. new' = new
    BY <1>3
  <2> QED
    BY <1>1, <1>4, <2>1, <2>2, <2>3 DEF BuildsItsOwn
<1>9. ReleasedIsFree'
  BY <1>1, <1>3, <1>5 DEF ReleasedIsFree
<1> QED
  BY <1>6, <1>7, <1>8, <1>9 DEF AnyTicks

LEMMA AnyTicksClear ==
    ASSUME AnyTicks, ExitClear
    PROVE  AnyTicks'
<1> USE ConstantsAssumption
<1>1. /\ PTypeOK /\ HeadIsRunning /\ RunningIsTask /\ BootIsWhole
      /\ BuildsItsOwn /\ ReleasedIsFree
  BY DEF AnyTicks
<1>2. /\ cpu = "task" /\ pc[current_task] = "x_clear" /\ current_task \in Task
  BY <1>1 DEF ExitClear, At, RunningIsTask
<1>3. /\ current_task' = NULL /\ cpu' = "exited"
      /\ pc' = [pc EXCEPT ![current_task] = "run"]
      /\ UNCHANGED <<tasks, next, id, entry, ready_list, next_task_id, timer_on,
                     new, id_read, prev, fresh, torn>>
  BY DEF ExitClear, Goto
<1>4. /\ current_task \notin tasks
      /\ \A x \in Task \ {current_task} : pc'[x] = pc[x]
      /\ tasks \subseteq Task /\ fresh \subseteq tasks
  BY <1>1, <1>2, <1>3 DEF PTypeOK, ReleasedIsFree
<1>5. PTypeOK'
  <2>1. pc' \in [Task -> Labels]
    BY <1>1, <1>3 DEF PTypeOK, Labels
  <2> QED
    BY <1>1, <1>3, <2>1 DEF PTypeOK, Modes
<1>6. HeadIsRunning' /\ RunningIsTask' /\ BootIsWhole'
  BY <1>3 DEF HeadIsRunning, RunningIsTask, BootIsWhole
<1>7. \A x \in tasks : pc'[x] = pc[x]
  BY <1>4
<1>8. BuildsItsOwn' /\ ReleasedIsFree'
  BY <1>1, <1>3, <1>4, <1>7 DEF BuildsItsOwn, ReleasedIsFree
<1> QED
  BY <1>5, <1>6, <1>8 DEF AnyTicks

LEMMA AnyTicksKill ==
    ASSUME AnyTicks, NEW i \in StopIds, KillTask(i)
    PROVE  AnyTicks'
<1> USE ConstantsAssumption
<1>1. /\ PTypeOK /\ HeadIsRunning /\ RunningIsTask /\ BootIsWhole
      /\ BuildsItsOwn /\ ReleasedIsFree
  BY DEF AnyTicks
<1>2. /\ fresh' = fresh /\ ready_list' = ready_list /\ current_task' = current_task
      /\ cpu = "task"
      /\ UNCHANGED <<next_task_id, timer_on, cpu, pc, new, id_read, prev, torn>>
  BY KillEffect
<1>3. PICK target \in Linked \cap Published :
          /\ tasks' = tasks \ {target} /\ target # NULL
          /\ next' = Unlinked(Linked, target)
          /\ id' = Without(id, target) /\ entry' = Without(entry, target)
  BY KillEffect
<1>4. target \in tasks /\ target \notin fresh
  BY <1>3 DEF Published
<1>5. PTypeOK'
  <2>1. next' \in [tasks' -> Task \cup {NULL}]
    BY <1>1, <1>3, <1>4 DEF PTypeOK, Unlinked
  <2>2. id' \in [tasks' -> Ids] /\ entry' \in [tasks' -> Entries]
    BY <1>1, <1>3 DEF PTypeOK, Without
  <2>3. tasks' \subseteq Task /\ fresh' \subseteq tasks'
    BY <1>1, <1>2, <1>3, <1>4 DEF PTypeOK
  <2> QED
    BY <1>1, <1>2, <2>1, <2>2, <2>3 DEF PTypeOK
<1>6. HeadIsRunning' /\ RunningIsTask' /\ BootIsWhole'
  BY <1>1, <1>2 DEF HeadIsRunning, RunningIsTask, BootIsWhole
<1>7. tasks' \subseteq tasks
  BY <1>3
<1>8. BuildsItsOwn' /\ ReleasedIsFree'
  BY <1>1, <1>2, <1>7 DEF BuildsItsOwn, ReleasedIsFree
<1> QED
  BY <1>5, <1>6, <1>8 DEF AnyTicks

LEMMA AnyTicksInterrupt ==
    ASSUME AnyTicks, Interrupt
    PROVE  AnyTicks'
<1> USE ConstantsAssumption
<1>1. /\ PTypeOK /\ HeadIsRunning /\ RunningIsTask /\ BootIsWhole
      /\ BuildsItsOwn /\ ReleasedIsFree
  BY DEF AnyTicks
<1>2. /\ UNCHANGED <<tasks, next, id, entry, next_task_id, timer_on,
                     pc, new, id_read, prev, fresh>>
      /\ torn' \subseteq Critical
      /\ \/ /\ cpu' = "task" /\ next[ready_list] \in Published
            /\ ready_list' = next[ready_list] /\ current_task' = next[ready_list]
         \/ cpu' = "lost" /\ UNCHANGED <<ready_list, current_task>>
  <2>1. torn' = torn \cup {l \in Critical : cpu = "task" /\ l = pc[current_task]}
    BY InterruptEffect
  <2>2. torn' \subseteq Critical
    BY <1>1, <2>1 DEF PTypeOK
  <2> QED
    BY <2>2, InterruptEffect
<1>3. PTypeOK'
  BY <1>1, <1>2 DEF PTypeOK, Modes, Published
<1>4. HeadIsRunning' /\ RunningIsTask' /\ BootIsWhole'
  BY <1>1, <1>2 DEF HeadIsRunning, RunningIsTask, BootIsWhole, PTypeOK, Published
<1>5. BuildsItsOwn' /\ ReleasedIsFree'
  BY <1>1, <1>2 DEF BuildsItsOwn, ReleasedIsFree
<1> QED
  BY <1>3, <1>4, <1>5 DEF AnyTicks

LEMMA AnyTicksStep ==
    ASSUME AnyTicks, [PNext]_pvars
    PROVE  AnyTicks'
<1>1. CASE \E t \in Task : Boot(t) \/ CreateAlloc(t)
  BY <1>1, AnyTicksBoot, AnyTicksAlloc
<1>2. CASE CreateReadId \/ CreateStoreId \/ CreateLink \/ CreatePublish
  BY <1>2, AnyTicksCreate, AnyTicksPublish
<1>3. CASE ExitCall \/ ExitScan \/ ExitMissed \/ ExitUnlink \/ ExitHead
  BY <1>3, AnyTicksExit
<1>4. CASE ExitFree \/ ExitClear
  BY <1>4, AnyTicksFree, AnyTicksClear
<1>5. CASE \E i \in StopIds : KillTask(i)
  BY <1>5, AnyTicksKill
<1>6. CASE Interrupt
  BY <1>6, AnyTicksInterrupt
<1>7. CASE UNCHANGED pvars
  <2>1. UNCHANGED <<tasks, next, id, entry, ready_list, current_task, next_task_id,
                    timer_on, cpu, pc, new, id_read, prev, fresh, torn>>
    BY <1>7 DEF pvars, vars, locals
  <2> QED
    BY <2>1 DEF AnyTicks, PTypeOK, HeadIsRunning, RunningIsTask, BootIsWhole,
                BuildsItsOwn, ReleasedIsFree
<1> QED
  BY <1>1, <1>2, <1>3, <1>4, <1>5, <1>6, <1>7 DEF PNext

\* What holds in every reachable state wherever ticks land.
LEMMA AlwaysAnyTicks == PSpec => []AnyTicks
  BY AnyTicksInit, AnyTicksStep, PTL DEF PSpec

\* Wherever ticks land between the accesses of task_create and of
\* task_destroy_current, the variables of scheduler.c keep their types and the
\* running task is the head of the ring until its exit has moved the head.
THEOREM HeadSurvivesTicks == PSpec => []PreemptInvariant
<1>1. AnyTicks => PreemptInvariant
  BY DEF AnyTicks, PreemptInvariant
<1> QED
  BY <1>1, AlwaysAnyTicks, PTL

-----------------------------------------------------------------------------
(* RingWhole: as long as no tick lands between the two stores of           *)
(* insert_task, or between the search and the store of an exit, the        *)
(* tasks that take turns form one cycle.                                   *)

\* A cycle is its pointers and nothing else.
LEMMA CycleSame ==
    ASSUME NEW T, NEW f, NEW g, Cycle(T, f), \A x \in T : g[x] = f[x]
    PROVE  Cycle(T, g)
<1>1. /\ \A t \in T : g[t] \in T
      /\ \A t \in T : \E p \in T : g[p] = t
      /\ \A s, t \in T : g[s] = g[t] => s = t
  BY DEF Cycle
<1>2. ASSUME NEW X \in SUBSET T, X # {}, \A t \in X : g[t] \in X
      PROVE  X = T
  <2>1. \A t \in X : f[t] \in X
    BY <1>2
  <2> QED
    BY <1>2, <2>1 DEF Cycle
<1> QED
  BY <1>1, <1>2 DEF Cycle

\* The walk of task_destroy_by_id visits exactly the tasks that take turns.
LEMMA LinkedIsRing ==
    ASSUME PTypeOK, Cycle(Ring, next), ready_list \in Published,
           next[ready_list] \in Ring, ready_list # NULL
    PROVE  Linked = Ring
<1>0. Ring \subseteq Published /\ Ring \in SUBSET Task
  BY DEF Ring, Published, PTypeOK
<1> DEFINE Closed(X) == next[ready_list] \in X /\ \A x \in X \cap Published : next[x] \in X
<1>1. Linked = {t \in Task : \A X \in {Y \in SUBSET Task : Closed(Y)} : t \in X}
  BY DEF Linked
<1>2. Closed(Ring)
  BY DEF Cycle
<1>3. ASSUME NEW X \in SUBSET Task, Closed(X) PROVE Ring \subseteq X
  <2> DEFINE Y == X \cap Ring
  <2>1. Y \in SUBSET Ring /\ Y # {}
    BY <1>3
  <2>2. \A x \in Y : next[x] \in Y
    BY <1>0, <1>3 DEF Cycle
  <2>3. Y = Ring
    BY <2>1, <2>2 DEF Cycle
  <2> QED
    BY <2>3
<1>4. Linked \subseteq Ring
  BY <1>0, <1>1, <1>2
<1>5. Ring \subseteq Linked
  BY <1>0, <1>1, <1>3
<1> QED
  BY <1>4, <1>5

\* With the ring whole nothing dangles and nobody is dropped.
LEMMA WholeRingHolds ==
    ASSUME AnyTicks, RingWhole
    PROVE  RingNeverDangles /\ NoTaskDropped
<1> USE ConstantsAssumption
<1>1. /\ PTypeOK /\ RunningIsTask /\ Cycle(Ring, next) /\ HeadEntersRing
  BY DEF AnyTicks, RingWhole
<1>2. Ring \subseteq Published
  BY DEF Ring
<1>3. \A t \in Published : t \in Ring \/ pc[t] \in {"x_head", "x_free"}
  BY DEF Ring
<1>4. CASE ready_list = NULL
  BY <1>1, <1>3, <1>4 DEF HeadEntersRing, RingNeverDangles, NoTaskDropped
<1>5. CASE ready_list # NULL /\ ready_list \in Ring
  <2>1. next[ready_list] \in Ring
    BY <1>1, <1>5 DEF Cycle
  <2>2. Linked = Ring
    BY <1>1, <1>2, <1>5, <2>1, LinkedIsRing
  <2>3. RingNeverDangles
    BY <1>1, <1>2, <1>5 DEF RingNeverDangles, Cycle
  <2> QED
    BY <1>3, <2>2, <2>3 DEF NoTaskDropped
<1>6. CASE ready_list # NULL /\ ready_list \notin Ring
  <2>1. /\ ready_list \in Published
        /\ \/ next[ready_list] \in Ring
           \/ next[ready_list] = ready_list /\ Ring = {}
    BY <1>1, <1>6 DEF HeadEntersRing
  <2>2. CASE next[ready_list] \in Ring
    <3>1. Linked = Ring
      BY <1>1, <1>6, <2>1, <2>2, LinkedIsRing
    <3> DEFINE R == Ring \cup {ready_list}
    <3>2. R \in SUBSET Published /\ ready_list \in R /\ \A x \in R : next[x] \in R
      BY <1>1, <1>2, <2>1, <2>2 DEF Cycle
    <3>3. RingNeverDangles
      BY <3>2 DEF RingNeverDangles
    <3> QED
      BY <1>3, <3>1, <3>3 DEF NoTaskDropped
  <2>3. CASE next[ready_list] = ready_list /\ Ring = {}
    <3> DEFINE R == {ready_list}
    <3>1. R \in SUBSET Published /\ ready_list \in R /\ \A x \in R : next[x] \in R
      BY <2>1, <2>3
    <3>2. RingNeverDangles
      BY <3>1 DEF RingNeverDangles
    <3> QED
      BY <1>3, <2>3, <3>2 DEF NoTaskDropped
  <2> QED
    BY <2>1, <2>2, <2>3
<1> QED
  BY <1>4, <1>5, <1>6

LEMMA RingInit == PInit => RingWhole
<1> SUFFICES ASSUME PInit PROVE RingWhole
  OBVIOUS
<1>1. tasks = {} /\ ready_list = NULL
  BY DEF PInit, Init
<1>2. Ring = {}
  BY <1>1 DEF Ring, Published
<1>3. Cycle(Ring, next)
  BY <1>2 DEF Cycle
<1> QED
  BY <1>1, <1>2, <1>3 DEF RingWhole, HeadEntersRing, SearchIsCurrent, LinkIsCurrent

\* The boot code's insert_task: nobody is leaving yet.
LEMMA RingBoot ==
    ASSUME AnyTicks, RingWhole, NEW t \in Task, Boot(t)
    PROVE  RingWhole'
<1> USE ConstantsAssumption
<1>1. /\ PTypeOK /\ Cycle(Ring, next) /\ HeadEntersRing
  BY DEF AnyTicks, RingWhole
<1>2. /\ t \notin tasks /\ t # NULL /\ fresh = {}
      /\ current_task = NULL
      /\ \A x \in Task : pc[x] = "run"
      /\ tasks' = tasks \cup {t}
      /\ ready_list \in tasks \cup {NULL}
      /\ ready_list' = IF ready_list = NULL THEN t ELSE ready_list
      /\ next' = IF ready_list = NULL THEN With(next, t, t)
                 ELSE [x \in tasks \cup {t} |->
                          IF x = ready_list THEN t
                          ELSE IF x = t THEN next[ready_list] ELSE next[x]]
      /\ UNCHANGED <<pc, new, id_read, prev, fresh, torn>>
  BY BootEffect
<1>3. tasks \subseteq Task
  BY <1>1 DEF PTypeOK
<1>4. Ring = tasks
  BY <1>2, <1>3 DEF Ring, Published
<1>5. Ring' = tasks \cup {t}
  BY <1>2, <1>3 DEF Ring, Published
<1>6. Cycle(Ring', next') /\ ready_list' \in Ring' /\ ready_list' # NULL
  <2>1. CASE ready_list = NULL
    <3>1. tasks = {}
      BY <1>1, <1>4, <2>1 DEF HeadEntersRing
    <3>2. next' = [x \in {t} |-> t]
      BY <1>2, <2>1, <3>1 DEF With
    <3>3. Ring' = {t}
      BY <1>5, <3>1
    <3> QED
      BY <1>2, <2>1, <3>2, <3>3, CycleOne
  <2>2. CASE ready_list # NULL
    <3>1. ready_list \in tasks /\ Cycle(tasks, next)
      BY <1>1, <1>2, <1>4, <2>2
    <3>2. next' = [x \in tasks \cup {t} |->
                      IF x = ready_list THEN t
                      ELSE IF x = t THEN next[ready_list] ELSE next[x]]
      BY <1>2, <2>2
    <3>3. Cycle(tasks \cup {t}, next')
      BY <1>2, <3>1, <3>2, CycleInsert
    <3> QED
      BY <1>2, <1>5, <2>2, <3>1, <3>3
  <2> QED
    BY <2>1, <2>2
<1>7. HeadEntersRing'
  BY <1>6 DEF HeadEntersRing
<1>8. \A x \in tasks' : pc'[x] = "run"
  BY <1>2, <1>3
<1>9. SearchIsCurrent' /\ LinkIsCurrent'
  BY <1>8 DEF SearchIsCurrent, LinkIsCurrent
<1> QED
  BY <1>6, <1>7, <1>9 DEF RingWhole

\* A step of the running task that stays in the ring and writes no pointer of
\* the ring leaves it as it is.
LEMMA RingQuiet ==
    ASSUME AnyTicks, RingWhole, cpu = "task",
           ready_list = current_task, current_task \in Published,
           NEW l, l \notin {"x_head", "x_free", "c_publish"},
           pc[current_task] \notin {"x_head", "x_free"},
           pc' = [pc EXCEPT ![current_task] = l],
           \A x \in Published : next'[x] = next[x],
           l \in {"x_scan", "x_unlink"} => prev'[current_task] \in Ring,
           l = "x_unlink" => next[prev'[current_task]] = current_task,
           UNCHANGED <<tasks, fresh, ready_list, current_task>>
    PROVE  RingWhole'
<1> USE ConstantsAssumption
<1>1. /\ PTypeOK /\ RunningIsTask /\ Cycle(Ring, next)
      /\ SearchIsCurrent /\ LinkIsCurrent
  BY DEF AnyTicks, RingWhole
<1>2. /\ current_task \in Task /\ current_task # NULL /\ tasks \subseteq Task
      /\ pc'[current_task] = l
      /\ \A x \in Task \ {current_task} : pc'[x] = pc[x]
  BY <1>1 DEF RunningIsTask, PTypeOK
<1>3. Ring' = Ring
  BY <1>2 DEF Ring, Published
<1>4. \A x \in Ring : next'[x] = next[x]
  BY DEF Ring
<1>5. Cycle(Ring', next')
  BY <1>1, <1>3, <1>4, CycleSame
<1>6. HeadEntersRing'
  BY <1>2, <1>3 DEF HeadEntersRing, Ring
<1>7. \A x \in tasks : x # current_task =>
          pc'[x] \notin {"x_scan", "x_unlink", "c_publish"}
  BY <1>1, <1>2 DEF SearchIsCurrent, LinkIsCurrent
<1>8. SearchIsCurrent'
  BY <1>2, <1>3, <1>4, <1>7 DEF SearchIsCurrent
<1>9. LinkIsCurrent'
  BY <1>2, <1>7 DEF LinkIsCurrent
<1> QED
  BY <1>5, <1>6, <1>8, <1>9 DEF RingWhole

\* A new structure is not in the ring.
LEMMA RingAlloc ==
    ASSUME AnyTicks, RingWhole, NEW t \in Task, CreateAlloc(t)
    PROVE  RingWhole'
<1> USE ConstantsAssumption
<1>1. /\ PTypeOK /\ RunningIsTask /\ Cycle(Ring, next)
      /\ SearchIsCurrent /\ LinkIsCurrent
  BY DEF AnyTicks, RingWhole
<1>2. At("run") /\ "run" \in Labels \ {"x_free", "x_clear"}
  BY DEF CreateAlloc, Labels
<1>3. /\ cpu = "task" /\ current_task \in Published /\ current_task \in Task
      /\ current_task \in tasks /\ ready_list = current_task
      /\ current_task # NULL /\ pc[current_task] = "run"
  BY <1>2, AtHead
<1>4. /\ t \notin tasks /\ t # current_task
      /\ tasks' = tasks \cup {t} /\ fresh' = fresh \cup {t}
      /\ next' = With(next, t, NULL)
      /\ pc' = [pc EXCEPT ![current_task] = "c_id", ![t] = "run"]
      /\ ready_list' = ready_list /\ current_task' = current_task
  BY <1>3 DEF CreateAlloc
<1>5. /\ pc'[current_task] = "c_id" /\ pc'[t] = "run"
      /\ \A x \in tasks \ {current_task} : pc'[x] = pc[x]
  BY <1>1, <1>3, <1>4 DEF PTypeOK
<1>6. Ring' = Ring
  <2>1. Published' = Published
    BY <1>1, <1>4 DEF Published, PTypeOK
  <2> QED
    BY <1>3, <1>5, <2>1 DEF Ring, Published
<1>7. \A x \in Ring : next'[x] = next[x]
  BY <1>4 DEF Ring, Published, With
<1>8. Cycle(Ring', next')
  BY <1>1, <1>6, <1>7, CycleSame
<1>9. HeadEntersRing'
  BY <1>3, <1>4, <1>6 DEF HeadEntersRing, Ring
<1>10. \A x \in tasks' : pc'[x] \notin {"x_scan", "x_unlink", "c_publish"}
  BY <1>1, <1>3, <1>4, <1>5 DEF SearchIsCurrent, LinkIsCurrent
<1>11. SearchIsCurrent' /\ LinkIsCurrent'
  BY <1>10 DEF SearchIsCurrent, LinkIsCurrent
<1> QED
  BY <1>8, <1>9, <1>11 DEF RingWhole

LEMMA RingCreateId ==
    ASSUME AnyTicks, RingWhole, CreateReadId \/ CreateStoreId
    PROVE  RingWhole'
<1>0. {"c_id", "c_id_store"} \subseteq Labels \ {"x_free", "x_clear"}
  BY DEF Labels, CreateLabels
<1>1. PICK l \in {"c_id", "c_id_store"}, m \in {"c_id_store", "c_link"} :
          /\ At(l) /\ pc' = [pc EXCEPT ![current_task] = m]
          /\ UNCHANGED <<tasks, next, fresh, ready_list, current_task>>
  BY DEF CreateReadId, CreateStoreId, Goto, vars
<1>2. /\ cpu = "task" /\ pc[current_task] = l /\ ready_list = current_task
      /\ current_task \in Published
  BY <1>0, <1>1, AtHead
<1> QED
  BY <1>1, <1>2, RingQuiet

\* The first store of insert_task writes the new structure only.
LEMMA RingLink ==
    ASSUME AnyTicks, RingWhole, CreateLink
    PROVE  RingWhole'
<1> USE ConstantsAssumption
<1>1. /\ PTypeOK /\ RunningIsTask /\ BuildsItsOwn /\ Cycle(Ring, next)
      /\ SearchIsCurrent /\ LinkIsCurrent
  BY DEF AnyTicks, RingWhole
<1>2. At("c_link") /\ "c_link" \in Labels \ {"x_free", "x_clear"}
  BY DEF CreateLink, Labels, CreateLabels
<1>3. /\ pc[current_task] = "c_link" /\ ready_list = current_task
      /\ current_task \in Published /\ current_task \in tasks
      /\ current_task \in Task /\ current_task # NULL
  BY <1>2, AtHead
<1>4. /\ next' = [next EXCEPT ![new[current_task]] = next[ready_list]]
      /\ pc' = [pc EXCEPT ![current_task] = "c_publish"]
      /\ UNCHANGED <<tasks, ready_list, current_task, new, prev, fresh>>
  BY DEF CreateLink, Goto
<1>5. new[current_task] \in fresh /\ new[current_task] \in tasks
  BY <1>1, <1>3 DEF BuildsItsOwn, CreateLabels, PTypeOK
<1>6. /\ next'[new[current_task]] = next[ready_list]
      /\ \A x \in Published : next'[x] = next[x]
  BY <1>1, <1>4, <1>5 DEF Published, PTypeOK
<1>7. /\ pc'[current_task] = "c_publish" /\ tasks \subseteq Task
      /\ \A x \in Task \ {current_task} : pc'[x] = pc[x]
  BY <1>1, <1>3, <1>4 DEF PTypeOK
<1>8. Ring' = Ring
  BY <1>3, <1>4, <1>7 DEF Ring, Published
<1>9. \A x \in Ring : next'[x] = next[x]
  BY <1>6 DEF Ring
<1>10. Cycle(Ring', next')
  BY <1>1, <1>8, <1>9, CycleSame
<1>11. HeadEntersRing'
  BY <1>3, <1>4, <1>8 DEF HeadEntersRing, Ring
<1>12. \A x \in tasks : x # current_task =>
           pc'[x] \notin {"x_scan", "x_unlink", "c_publish"}
  BY <1>1, <1>7 DEF SearchIsCurrent, LinkIsCurrent
<1>13. SearchIsCurrent'
  BY <1>4, <1>7, <1>12 DEF SearchIsCurrent
<1>14. next'[new'[current_task]] = next'[ready_list']
  BY <1>3, <1>4, <1>6
<1>15. LinkIsCurrent'
  BY <1>4, <1>12, <1>14 DEF LinkIsCurrent
<1> QED
  BY <1>10, <1>11, <1>13, <1>15 DEF RingWhole

\* The second store puts the new task between the head and its successor.
LEMMA RingPublish ==
    ASSUME AnyTicks, RingWhole, CreatePublish
    PROVE  RingWhole'
<1> USE ConstantsAssumption
<1>1. /\ PTypeOK /\ RunningIsTask /\ BuildsItsOwn /\ Cycle(Ring, next)
      /\ SearchIsCurrent /\ LinkIsCurrent
  BY DEF AnyTicks, RingWhole
<1>2. At("c_publish") /\ "c_publish" \in Labels \ {"x_free", "x_clear"}
  BY DEF CreatePublish, Labels, CreateLabels
<1>3. /\ pc[current_task] = "c_publish" /\ ready_list = current_task
      /\ current_task \in Published /\ current_task \in tasks
      /\ current_task \in Task /\ current_task # NULL
  BY <1>2, AtHead
<1> DEFINE n == new[current_task]
<1>4. /\ next' = [next EXCEPT ![ready_list] = n]
      /\ fresh' = fresh \ {n}
      /\ pc' = [pc EXCEPT ![current_task] = "run"]
      /\ UNCHANGED <<tasks, ready_list, current_task>>
  BY DEF CreatePublish, Goto
<1>5. /\ n \in fresh /\ n \in tasks /\ pc[n] = "run" /\ n # current_task
  BY <1>1, <1>3 DEF BuildsItsOwn, CreateLabels, PTypeOK, Published
<1>6. next[n] = next[ready_list]
  BY <1>1, <1>3 DEF LinkIsCurrent
<1>7. /\ next'[ready_list] = n
      /\ \A x \in tasks \ {ready_list} : next'[x] = next[x]
      /\ pc'[current_task] = "run" /\ tasks \subseteq Task
      /\ \A x \in Task \ {current_task} : pc'[x] = pc[x]
  BY <1>1, <1>3, <1>4 DEF PTypeOK
<1> HIDE DEF n
<1>8. Ring' = Ring \cup {n} /\ ready_list \in Ring /\ n \notin Ring
  BY <1>3, <1>4, <1>5, <1>7 DEF Ring, Published
<1> DEFINE g == [x \in Ring \cup {n} |->
                    IF x = ready_list THEN n
                    ELSE IF x = n THEN next[ready_list] ELSE next[x]]
<1>9. Cycle(Ring \cup {n}, g)
  BY <1>1, <1>8, CycleInsert
<1>10. \A x \in Ring \cup {n} : next'[x] = g[x]
  BY <1>3, <1>5, <1>6, <1>7, <1>8 DEF Ring, Published
<1> HIDE DEF g
<1>11. Cycle(Ring', next')
  BY <1>8, <1>9, <1>10, CycleSame
<1>12. HeadEntersRing'
  BY <1>3, <1>4, <1>8 DEF HeadEntersRing
<1>13. \A x \in tasks' : pc'[x] \notin {"x_scan", "x_unlink", "c_publish"}
  BY <1>1, <1>4, <1>7 DEF SearchIsCurrent, LinkIsCurrent
<1>14. SearchIsCurrent' /\ LinkIsCurrent'
  BY <1>13 DEF SearchIsCurrent, LinkIsCurrent
<1> QED
  BY <1>11, <1>12, <1>14 DEF RingWhole

\* The search of an exit walks the ring from the head.
LEMMA RingSearch ==
    ASSUME AnyTicks, RingWhole, ExitCall \/ ExitScan
    PROVE  RingWhole'
<1> USE ConstantsAssumption
<1>0. /\ {"run", "x_scan"} \subseteq Labels \ {"x_free", "x_clear"}
      /\ PTypeOK /\ Cycle(Ring, next) /\ SearchIsCurrent
  BY DEF Labels, ExitLabels, AnyTicks, RingWhole
<1>1. CASE ExitCall
  <2>1. /\ At("run") /\ pc' = [pc EXCEPT ![current_task] = "x_scan"]
        /\ prev' = [prev EXCEPT ![current_task] = ready_list]
        /\ UNCHANGED <<tasks, next, ready_list, current_task, fresh>>
    BY <1>1 DEF ExitCall, Goto, vars
  <2>2. /\ cpu = "task" /\ pc[current_task] = "run" /\ ready_list = current_task
        /\ current_task \in Published /\ current_task \in Task
    BY <1>0, <2>1, AtHead
  <2>3. prev'[current_task] \in Ring
    BY <1>0, <2>1, <2>2 DEF Ring, PTypeOK
  <2> QED
    BY <2>1, <2>2, <2>3, RingQuiet
<1>2. CASE ExitScan
  <2>1. At("x_scan") /\ UNCHANGED <<tasks, next, ready_list, current_task, fresh>>
    BY <1>2 DEF ExitScan, vars
  <2>2. /\ cpu = "task" /\ pc[current_task] = "x_scan" /\ ready_list = current_task
        /\ current_task \in Published /\ current_task \in Task
        /\ current_task \in tasks
    BY <1>0, <2>1, AtHead
  <2>3. /\ prev[current_task] \in Ring /\ prev[current_task] \in tasks
        /\ next[prev[current_task]] \in Ring
    BY <1>0, <2>2 DEF SearchIsCurrent, Ring, Published, Cycle
  <2>4. LET n == next[prev[current_task]] IN
        IF n = current_task
        THEN Goto("x_unlink") /\ UNCHANGED prev
        ELSE UNCHANGED pc /\ prev' = [prev EXCEPT ![current_task] = n]
    BY <1>2, <2>2, <2>3 DEF ExitScan
  <2>5. CASE next[prev[current_task]] = current_task
    <3>1. pc' = [pc EXCEPT ![current_task] = "x_unlink"] /\ prev' = prev
      BY <2>4, <2>5 DEF Goto
    <3> QED
      BY <2>1, <2>2, <2>3, <2>5, <3>1, RingQuiet
  <2>6. CASE next[prev[current_task]] # current_task
    <3>1. pc' = pc /\ prev' = [prev EXCEPT ![current_task] = next[prev[current_task]]]
      BY <2>4, <2>6
    <3>2. pc' = [pc EXCEPT ![current_task] = "x_scan"]
      BY <1>0, <2>2, <3>1 DEF PTypeOK
    <3>3. prev'[current_task] \in Ring
      BY <1>0, <2>2, <2>3, <3>1 DEF PTypeOK
    <3> QED
      BY <2>1, <2>2, <3>2, <3>3, RingQuiet
  <2> QED
    BY <2>5, <2>6
<1> QED
  BY <1>1, <1>2

\* With no tick in the search, the test behind it always succeeds.
LEMMA SearchSucceeds ==
    ASSUME AnyTicks, RingWhole, ExitMissed
    PROVE  FALSE
<1>1. At("x_unlink") /\ "x_unlink" \in Labels \ {"x_free", "x_clear"}
  BY DEF ExitMissed, Labels, ExitLabels
<1>2. pc[current_task] = "x_unlink" /\ current_task \in tasks
  BY <1>1, AtHead
<1>3. prev[current_task] \in tasks /\ next[prev[current_task]] = current_task
  BY <1>2 DEF RingWhole, SearchIsCurrent, Ring, Published
<1> QED
  BY <1>3 DEF ExitMissed

\* The store through prev takes the running task out of the cycle; the head
\* still is that task, and leads back into what is left.
LEMMA RingUnlink ==
    ASSUME AnyTicks, RingWhole, ExitUnlink
    PROVE  RingWhole'
<1> USE ConstantsAssumption
<1>1. /\ PTypeOK /\ RunningIsTask /\ Cycle(Ring, next)
      /\ SearchIsCurrent /\ LinkIsCurrent
  BY DEF AnyTicks, RingWhole
<1>2. At("x_unlink") /\ "x_unlink" \in Labels \ {"x_free", "x_clear"}
  BY DEF ExitUnlink, Labels, ExitLabels
<1>3. /\ pc[current_task] = "x_unlink" /\ ready_list = current_task
      /\ current_task \in Published /\ current_task \in tasks
      /\ current_task \in Task /\ current_task # NULL
  BY <1>2, AtHead
<1> DEFINE p == prev[current_task]
<1>4. /\ next' = [x \in tasks |-> IF x = p THEN next[current_task] ELSE next[x]]
      /\ pc' = [pc EXCEPT ![current_task] = "x_head"]
      /\ UNCHANGED <<tasks, ready_list, current_task, fresh>>
  BY DEF ExitUnlink, Goto
<1>5. p \in Ring /\ next[p] = current_task
  BY <1>1, <1>3 DEF SearchIsCurrent
<1> HIDE DEF p
<1>6. /\ pc'[current_task] = "x_head" /\ tasks \subseteq Task
      /\ \A x \in Task \ {current_task} : pc'[x] = pc[x]
  BY <1>1, <1>3, <1>4 DEF PTypeOK
<1>7. /\ Ring' = Ring \ {current_task} /\ current_task \in Ring
      /\ Published' = Published /\ Ring \subseteq tasks
  BY <1>3, <1>4, <1>6 DEF Ring, Published
<1>8. next'[current_task] = IF current_task = p THEN next[current_task] ELSE next[current_task]
  BY <1>3, <1>4
<1>9. next'[current_task] = next[current_task]
  BY <1>8
<1>10. Cycle(Ring', next')
      /\ (next[current_task] \in Ring' \/ (next[current_task] = current_task /\ Ring' = {}))
  <2>1. CASE next[current_task] = current_task
    <3>1. Ring = {current_task}
      BY <1>1, <1>7, <2>1, CycleAlone
    <3>2. Ring' = {}
      BY <1>7, <3>1
    <3>3. Cycle({}, next')
      BY DEF Cycle
    <3> QED
      BY <2>1, <3>2, <3>3
  <2>2. CASE next[current_task] # current_task
    <3> DEFINE g == [x \in Ring \ {current_task} |->
                        IF next[x] = current_task THEN next[current_task] ELSE next[x]]
    <3>1. Cycle(Ring \ {current_task}, g)
      BY <1>1, <1>7, <2>2, CycleRemove
    <3>2. \A x \in Ring \ {current_task} : next[x] = current_task <=> x = p
      BY <1>1, <1>5 DEF Cycle
    <3>3. \A x \in Ring \ {current_task} : next'[x] = g[x]
      BY <1>4, <1>7, <3>2
    <3> HIDE DEF g
    <3>4. Cycle(Ring \ {current_task}, next')
      BY <3>1, <3>3, CycleSame
    <3>5. next[current_task] \in Ring
      BY <1>1, <1>7 DEF Cycle
    <3> QED
      BY <1>7, <2>2, <3>4, <3>5
  <2> QED
    BY <2>1, <2>2
<1>11. HeadEntersRing'
  BY <1>3, <1>4, <1>6, <1>7, <1>9, <1>10 DEF HeadEntersRing
<1>12. \A x \in tasks' : pc'[x] \notin {"x_scan", "x_unlink", "c_publish"}
  BY <1>1, <1>3, <1>4, <1>6 DEF SearchIsCurrent, LinkIsCurrent
<1>13. SearchIsCurrent' /\ LinkIsCurrent'
  BY <1>12 DEF SearchIsCurrent, LinkIsCurrent
<1> QED
  BY <1>10, <1>11, <1>13 DEF RingWhole

\* The head moves to the successor of the leaving task, or to none.
LEMMA RingHead ==
    ASSUME AnyTicks, RingWhole, ExitHead
    PROVE  RingWhole'
<1> USE ConstantsAssumption
<1>1. /\ PTypeOK /\ Cycle(Ring, next) /\ HeadEntersRing
      /\ SearchIsCurrent /\ LinkIsCurrent
  BY DEF AnyTicks, RingWhole
<1>2. At("x_head") /\ "x_head" \in Labels \ {"x_free", "x_clear"}
  BY DEF ExitHead, Labels, ExitLabels
<1>3. /\ pc[current_task] = "x_head" /\ ready_list = current_task
      /\ current_task \in Published /\ current_task \in Task /\ current_task # NULL
  BY <1>2, AtHead
<1>4. /\ ready_list' = IF next[current_task] = current_task THEN NULL
                       ELSE next[current_task]
      /\ pc' = [pc EXCEPT ![current_task] = "x_free"]
      /\ UNCHANGED <<tasks, next, current_task, fresh>>
  BY <1>3 DEF ExitHead, Goto
<1>5. /\ pc'[current_task] = "x_free" /\ tasks \subseteq Task
      /\ \A x \in Task \ {current_task} : pc'[x] = pc[x]
  BY <1>1, <1>3, <1>4 DEF PTypeOK
<1>6. Ring' = Ring /\ current_task \notin Ring
  BY <1>3, <1>4, <1>5 DEF Ring, Published
<1>7. next[current_task] \in Ring \/ (next[current_task] = current_task /\ Ring = {})
  BY <1>1, <1>3, <1>6 DEF HeadEntersRing
<1>8. Cycle(Ring', next')
  BY <1>1, <1>4, <1>6
<1>9. HeadEntersRing'
  <2>1. CASE next[current_task] = current_task
    BY <1>4, <1>6, <1>7, <2>1 DEF HeadEntersRing
  <2>2. CASE next[current_task] # current_task
    <3>1. next[current_task] \in Ring /\ next[current_task] # NULL
      BY <1>5, <1>7, <2>2 DEF Ring, Published
    <3> QED
      BY <1>4, <1>6, <2>2, <3>1 DEF HeadEntersRing
  <2> QED
    BY <2>1, <2>2
<1>10. \A x \in tasks' : pc'[x] \notin {"x_scan", "x_unlink", "c_publish"}
  BY <1>1, <1>3, <1>4, <1>5 DEF SearchIsCurrent, LinkIsCurrent
<1>11. SearchIsCurrent' /\ LinkIsCurrent'
  BY <1>10 DEF SearchIsCurrent, LinkIsCurrent
<1> QED
  BY <1>8, <1>9, <1>11 DEF RingWhole

\* Freeing the task, and clearing current_task, touch no task of the ring.
LEMMA RingFree ==
    ASSUME AnyTicks, RingWhole, ExitFree \/ ExitClear
    PROVE  RingWhole'
<1> USE ConstantsAssumption
<1>1. /\ PTypeOK /\ RunningIsTask /\ ReleasedIsFree /\ Cycle(Ring, next)
      /\ HeadEntersRing /\ SearchIsCurrent /\ LinkIsCurrent
  BY DEF AnyTicks, RingWhole
<1>2. tasks \subseteq Task /\ fresh \subseteq tasks
  BY <1>1 DEF PTypeOK
<1>3. PICK l \in {"x_clear", "run"} :
          /\ cpu = "task" /\ pc[current_task] \in {"x_free", "x_clear"}
          /\ pc' = [pc EXCEPT ![current_task] = l]
          /\ tasks' = tasks \ {current_task}
          /\ \A x \in tasks' : next'[x] = next[x]
          /\ fresh' = fresh /\ ready_list' = ready_list
  <2>1. CASE ExitFree
    <3>1. /\ cpu = "task" /\ pc[current_task] = "x_free"
          /\ pc' = [pc EXCEPT ![current_task] = "x_clear"]
          /\ tasks' = tasks \ {current_task}
          /\ next' = Without(next, current_task)
          /\ fresh' = fresh \cap tasks' /\ ready_list' = ready_list
      BY <2>1 DEF ExitFree, At, Goto, Release
    <3>2. current_task \notin fresh
      BY <3>1, RunnerIsBuilt
    <3>3. fresh' = fresh /\ \A x \in tasks' : next'[x] = next[x]
      BY <1>2, <3>1, <3>2 DEF Without
    <3> QED
      BY <3>1, <3>3
  <2>2. CASE ExitClear
    <3>1. /\ cpu = "task" /\ pc[current_task] = "x_clear"
          /\ pc' = [pc EXCEPT ![current_task] = "run"]
          /\ UNCHANGED <<tasks, next, fresh, ready_list>>
      BY <2>2 DEF ExitClear, At, Goto
    <3>2. tasks = tasks \ {current_task}
      BY <1>1, <3>1 DEF ReleasedIsFree
    <3> QED
      BY <3>1, <3>2
  <2> QED
    BY <2>1, <2>2
<1>4. current_task \in Task /\ \A x \in Task \ {current_task} : pc'[x] = pc[x]
  BY <1>1, <1>3 DEF RunningIsTask, PTypeOK
<1>5. current_task \notin Ring
  BY <1>1, <1>3 DEF Ring, Published, ReleasedIsFree
<1>6. Ring' = Ring
  BY <1>2, <1>3, <1>4, <1>5 DEF Ring, Published
<1>7. \A x \in Ring : next'[x] = next[x]
  BY <1>3, <1>5 DEF Ring, Published
<1>8. Cycle(Ring', next')
  BY <1>1, <1>6, <1>7, CycleSame
<1>9. HeadEntersRing'
  BY <1>1, <1>3, <1>6 DEF HeadEntersRing
<1>10. \A x \in tasks' : pc'[x] \notin {"x_scan", "x_unlink", "c_publish"}
  BY <1>1, <1>2, <1>3, <1>4 DEF SearchIsCurrent, LinkIsCurrent
<1>11. SearchIsCurrent' /\ LinkIsCurrent'
  BY <1>10 DEF SearchIsCurrent, LinkIsCurrent
<1> QED
  BY <1>8, <1>9, <1>11 DEF RingWhole

\* A task that is killed has its predecessor in the walk.
LEMMA RingKill ==
    ASSUME AnyTicks, RingWhole, NEW i \in StopIds, KillTask(i)
    PROVE  RingWhole'
<1> USE ConstantsAssumption
<1>1. /\ PTypeOK /\ RunningIsTask /\ Cycle(Ring, next)
      /\ SearchIsCurrent /\ LinkIsCurrent
  BY DEF AnyTicks, RingWhole
<1>2. /\ pc[current_task] = "run" /\ cpu = "task" /\ current_task \in Published
      /\ ready_list = current_task
      /\ UNCHANGED <<fresh, ready_list, current_task, pc>>
  BY KillEffect
<1>3. PICK target \in Linked \cap Published :
          /\ target # ready_list /\ tasks' = tasks \ {target}
          /\ next' = Unlinked(Linked, target)
  BY KillEffect
<1>4. /\ ready_list \in Ring /\ ready_list # NULL /\ next[ready_list] \in Ring
      /\ tasks \subseteq Task
  BY <1>1, <1>2 DEF Ring, RunningIsTask, Cycle, PTypeOK
<1>5. Linked = Ring
  BY <1>1, <1>2, <1>4, LinkedIsRing
<1>6. target \in Ring
  BY <1>3, <1>5
<1>7. next[target] # target
  <2> SUFFICES ASSUME next[target] = target PROVE FALSE
    OBVIOUS
  <2>1. Ring = {target}
    BY <1>1, <1>6, CycleAlone
  <2> QED
    BY <1>3, <1>4, <2>1
<1>8. Ring' = Ring \ {target}
  BY <1>2, <1>3 DEF Ring, Published
<1> DEFINE g == [x \in Ring \ {target} |->
                    IF next[x] = target THEN next[target] ELSE next[x]]
<1>9. Cycle(Ring \ {target}, g)
  BY <1>1, <1>6, <1>7, CycleRemove
<1>10. \A x \in Ring \ {target} : next'[x] = g[x]
  BY <1>3, <1>5 DEF Unlinked, Ring, Published
<1> HIDE DEF g
<1>11. Cycle(Ring', next')
  BY <1>8, <1>9, <1>10, CycleSame
<1>12. HeadEntersRing'
  BY <1>2, <1>3, <1>4, <1>8 DEF HeadEntersRing
<1>13. \A x \in tasks' : pc'[x] \notin {"x_scan", "x_unlink", "c_publish"}
  BY <1>1, <1>2, <1>3 DEF SearchIsCurrent, LinkIsCurrent
<1>14. SearchIsCurrent' /\ LinkIsCurrent'
  BY <1>13 DEF SearchIsCurrent, LinkIsCurrent
<1> QED
  BY <1>11, <1>12, <1>14 DEF RingWhole

\* A tick outside those labels moves the head along the ring, and leaves no
\* task in the middle of a search or of a link.
LEMMA RingInterrupt ==
    ASSUME AnyTicks, RingWhole, Interrupt, RingUntorn'
    PROVE  RingWhole'
<1> USE ConstantsAssumption
<1>1. /\ PTypeOK /\ RunningIsTask /\ Cycle(Ring, next) /\ HeadEntersRing
      /\ SearchIsCurrent /\ LinkIsCurrent
  BY DEF AnyTicks, RingWhole
<1>2. /\ UNCHANGED <<tasks, next, pc, new, prev, fresh>> /\ cpu # "lost"
      /\ torn' = torn \cup {l \in Critical : cpu = "task" /\ l = pc[current_task]}
  BY InterruptEffect
<1>3. Ring' = Ring /\ Cycle(Ring', next') /\ Ring \subseteq tasks /\ tasks \subseteq Task
  BY <1>1, <1>2 DEF Ring, Published, PTypeOK
<1>4. HeadEntersRing'
  <2>1. CASE cpu' = "lost"
    <3>1. ready_list' = ready_list /\ current_task' = current_task
      BY <2>1, InterruptEffect
    <3> QED
      BY <1>1, <1>2, <1>3, <3>1 DEF HeadEntersRing, Published
  <2>2. CASE cpu' # "lost"
    <3>1. /\ CanSwitch /\ ready_list \in Published /\ ready_list' = next[ready_list]
      BY <2>2, InterruptEffect
    <3>2. ready_list # NULL /\ next[ready_list] # current_task
      BY <3>1 DEF CanSwitch
    <3>3. next[ready_list] \in Ring
      BY <1>1, <3>2 DEF HeadEntersRing, Cycle
    <3> QED
      BY <1>3, <3>1, <3>3 DEF HeadEntersRing
  <2> QED
    BY <2>1, <2>2
<1>5. \A x \in tasks' : pc'[x] \notin {"x_scan", "x_unlink", "c_publish"}
  <2>1. CASE cpu = "task"
    <3>1. \A l \in Critical : l = pc[current_task] => l \in torn'
      BY <1>2, <2>1
    <3>2. pc[current_task] \notin {"x_scan", "x_unlink", "c_publish"}
      BY <3>1 DEF RingUntorn, Critical, Labels, CreateLabels, ExitLabels
    <3> QED
      BY <1>1, <1>2, <3>2 DEF SearchIsCurrent, LinkIsCurrent
  <2>2. CASE cpu # "task"
    <3>1. current_task = NULL
      BY <1>1, <1>2, <2>2 DEF RunningIsTask, PTypeOK, Modes
    <3> QED
      BY <1>1, <1>2, <1>3, <3>1 DEF SearchIsCurrent, LinkIsCurrent
  <2> QED
    BY <2>1, <2>2
<1>6. SearchIsCurrent' /\ LinkIsCurrent'
  BY <1>5 DEF SearchIsCurrent, LinkIsCurrent
<1> QED
  BY <1>3, <1>4, <1>6 DEF RingWhole

\* torn only grows.
LEMMA TornGrows == AnyTicks /\ [PNext]_pvars => torn \subseteq torn'
<1> SUFFICES ASSUME AnyTicks, [PNext]_pvars PROVE torn \subseteq torn'
  OBVIOUS
<1>1. CASE Interrupt
  BY <1>1, InterruptEffect
<1>2. CASE ~Interrupt
  <2>1. torn' = torn
    BY <1>2 DEF PNext, pvars, Boot, locals, CreateAlloc, CreateReadId, CreateStoreId,
       CreateLink, CreatePublish, ExitCall, ExitScan, ExitMissed, ExitUnlink,
       ExitHead, ExitFree, ExitClear, KillTask
  <2> QED
    BY <2>1
<1> QED
  BY <1>1, <1>2

LEMMA RingStep ==
    ASSUME AnyTicks, RingUntorn => RingWhole, [PNext]_pvars, RingUntorn'
    PROVE  RingWhole'
<1>1. RingWhole
  BY TornGrows DEF RingUntorn
<1>2. CASE \E t \in Task : Boot(t) \/ CreateAlloc(t)
  BY <1>1, <1>2, RingBoot, RingAlloc
<1>3. CASE CreateReadId \/ CreateStoreId \/ CreateLink \/ CreatePublish
  BY <1>1, <1>3, RingCreateId, RingLink, RingPublish
<1>4. CASE ExitCall \/ ExitScan \/ ExitMissed \/ ExitUnlink \/ ExitHead
  BY <1>1, <1>4, RingSearch, SearchSucceeds, RingUnlink, RingHead
<1>5. CASE ExitFree \/ ExitClear
  BY <1>1, <1>5, RingFree
<1>6. CASE \E i \in StopIds : KillTask(i)
  BY <1>1, <1>6, RingKill
<1>7. CASE Interrupt
  BY <1>1, <1>7, RingInterrupt
<1>8. CASE UNCHANGED pvars
  <2>1. UNCHANGED <<tasks, next, ready_list, current_task, pc, new, prev, fresh>>
    BY <1>8 DEF pvars, vars, locals
  <2>2. Ring' = Ring
    BY <2>1 DEF Ring, Published
  <2>3. Cycle(Ring', next')
    BY <1>1, <2>1, <2>2 DEF RingWhole
  <2>4. HeadEntersRing'
    BY <1>1, <2>1, <2>2 DEF RingWhole, HeadEntersRing, Published
  <2>5. SearchIsCurrent' /\ LinkIsCurrent'
    BY <1>1, <2>1, <2>2 DEF RingWhole, SearchIsCurrent, LinkIsCurrent
  <2> QED
    BY <2>3, <2>4, <2>5 DEF RingWhole
<1> QED
  BY <1>2, <1>3, <1>4, <1>5, <1>6, <1>7, <1>8 DEF PNext

\* The ring of scheduler.c stays one cycle through the tasks that take turns
\* as long as no tick has hit one of the three labels that need it.
LEMMA AlwaysRingWhole == PSpec => [](RingUntorn => RingWhole)
<1>1. AnyTicks /\ (RingUntorn => RingWhole) /\ [PNext]_pvars
          => (RingUntorn => RingWhole)'
  BY RingStep
<1>2. PInit => (RingUntorn => RingWhole)
  BY RingInit
<1> QED
  BY <1>1, <1>2, AlwaysAnyTicks, PTL DEF PSpec

\* No freed Task structure comes back into the ring and no task is dropped
\* from it, whatever is created, killed or exits and wherever else ticks land,
\* until a tick hits insert_task between its stores or an exit between the
\* search for its predecessor and the store into it.
THEOREM RingSurvivesTicks == PSpec => []RingWholeUnlessTorn
<1>1. AnyTicks /\ (RingUntorn => RingWhole) => RingWholeUnlessTorn
  BY WholeRingHolds DEF RingUntorn, RingWholeUnlessTorn
<1> QED
  BY <1>1, AlwaysAnyTicks, AlwaysRingWhole, PTL

-----------------------------------------------------------------------------
(* The exits once more, in what the ids and the other tasks see of them.   *)

LEMMA ExitEffect ==
    ASSUME AnyTicks,
           ExitCall \/ ExitScan \/ ExitMissed \/ ExitUnlink \/ ExitHead
               \/ ExitFree \/ ExitClear
    PROVE  /\ cpu = "task" /\ current_task \in Task
           /\ pc[current_task] \notin CreateLabels
           /\ pc'[current_task] \notin CreateLabels
           /\ \A x \in Task \ {current_task} : pc'[x] = pc[x]
           /\ tasks' = tasks \/ tasks' = tasks \ {current_task}
           /\ \A x \in tasks' : id'[x] = id[x] /\ entry'[x] = entry[x]
           /\ current_task' = current_task \/ ExitClear
           /\ fresh' = fresh /\ UNCHANGED <<new, next_task_id, id_read, torn, timer_on>>
<1>1. PTypeOK /\ RunningIsTask
  BY DEF AnyTicks
<1>2. cpu = "task" /\ current_task \in Task
  BY <1>1 DEF ExitCall, ExitScan, ExitMissed, ExitUnlink, ExitHead, ExitFree,
              ExitClear, At, RunningIsTask
<1>3. PICK l \in {"run"} \cup ExitLabels, m \in {"run"} \cup ExitLabels :
          pc[current_task] = l /\ pc' = [pc EXCEPT ![current_task] = m]
  <2>1. CASE ExitScan
    <3>1. pc[current_task] = "x_scan" /\ (Goto("x_unlink") \/ pc' = pc)
      BY <2>1 DEF ExitScan, At
    <3>2. [pc EXCEPT ![current_task] = "x_scan"] = pc
      BY <1>1, <1>2, <3>1 DEF PTypeOK
    <3> QED
      BY <3>1, <3>2 DEF Goto, ExitLabels
  <2>2. CASE ~ExitScan
    BY <2>2 DEF ExitCall, ExitMissed, ExitUnlink, ExitHead, ExitFree,
                ExitClear, At, Goto, ExitLabels
  <2> QED
    BY <2>1, <2>2
<1>4. /\ pc'[current_task] = m
      /\ \A x \in Task \ {current_task} : pc'[x] = pc[x]
  BY <1>1, <1>2, <1>3 DEF PTypeOK
<1>5. l \notin CreateLabels /\ m \notin CreateLabels
  BY DEF ExitLabels, CreateLabels
<1>6. CASE ExitFree
  <2>1. /\ tasks' = tasks \ {current_task} /\ fresh' = fresh \cap tasks'
        /\ id' = Without(id, current_task) /\ entry' = Without(entry, current_task)
        /\ current_task' = current_task /\ pc[current_task] = "x_free"
        /\ UNCHANGED <<new, next_task_id, id_read, torn, timer_on>>
    BY <1>6 DEF ExitFree, Release, At
  <2>2. fresh' = fresh
    BY <1>1, <1>2, <2>1, RunnerIsBuilt DEF PTypeOK
  <2>3. \A x \in tasks' : id'[x] = id[x] /\ entry'[x] = entry[x]
    BY <2>1 DEF Without
  <2> QED
    BY <1>2, <1>3, <1>4, <1>5, <2>1, <2>2, <2>3
<1>7. CASE ~ExitFree
  <2>1. UNCHANGED <<tasks, id, entry, fresh, new, next_task_id, id_read, torn, timer_on>>
        /\ (current_task' = current_task \/ ExitClear)
    BY <1>7 DEF ExitCall, ExitScan, ExitMissed, ExitUnlink, ExitHead, ExitClear, vars
  <2> QED
    BY <1>2, <1>3, <1>4, <1>5, <2>1
<1> QED
  BY <1>6, <1>7

\* The same for the three steps of task_create behind the allocation that stay
\* inside it.
LEMMA CreateEffect ==
    ASSUME AnyTicks, CreateReadId \/ CreateStoreId \/ CreateLink \/ CreatePublish
    PROVE  /\ cpu = "task" /\ current_task \in Task /\ current_task \in tasks
           /\ current_task \in Published /\ ready_list = current_task
           /\ pc[current_task] \in CreateLabels
           /\ pc'[current_task] \in CreateLabels \cup {"run"}
           /\ new[current_task] \in fresh /\ new[current_task] \in tasks
           /\ \A x \in Task \ {current_task} : pc'[x] = pc[x] /\ new'[x] = new[x]
           /\ UNCHANGED <<tasks, entry, current_task, ready_list, cpu, timer_on, torn>>
<1>1. PTypeOK /\ BuildsItsOwn
  BY DEF AnyTicks
<1>2. PICK l \in CreateLabels, m \in CreateLabels \cup {"run"} :
          /\ At(l) /\ pc' = [pc EXCEPT ![current_task] = m]
          /\ \/ new' = new
             \/ new' = [new EXCEPT ![current_task] = NULL]
          /\ UNCHANGED <<tasks, entry, current_task, ready_list, cpu, timer_on, torn>>
  BY DEF CreateReadId, CreateStoreId, CreateLink, CreatePublish, Goto, vars, CreateLabels
<1>3. l \in Labels \ {"x_free", "x_clear"}
  BY DEF Labels, CreateLabels
<1>4. /\ cpu = "task" /\ current_task \in Task /\ current_task \in tasks
      /\ current_task \in Published /\ ready_list = current_task
      /\ pc[current_task] = l
  BY <1>2, <1>3, AtHead
<1>5. new[current_task] \in fresh /\ new[current_task] \in tasks
  BY <1>1, <1>4 DEF BuildsItsOwn, PTypeOK
<1>6. /\ pc'[current_task] = m
      /\ \A x \in Task \ {current_task} : pc'[x] = pc[x] /\ new'[x] = new[x]
  BY <1>1, <1>2, <1>4 DEF PTypeOK
<1> QED
  BY <1>2, <1>4, <1>5, <1>6

\* And for the allocation.
LEMMA AllocEffect ==
    ASSUME AnyTicks, NEW t \in Task, CreateAlloc(t)
    PROVE  /\ cpu = "task" /\ current_task \in Task /\ current_task \in Published
           /\ current_task \in tasks /\ ready_list = current_task
           /\ pc[current_task] = "run" /\ entry[current_task] # "idle_task"
           /\ t \notin tasks /\ t # current_task
           /\ tasks' = tasks \cup {t} /\ fresh' = fresh \cup {t}
           /\ Published' = Published
           /\ pc'[current_task] = "c_id" /\ pc'[t] = "run"
           /\ \A x \in tasks \ {current_task} : pc'[x] = pc[x] /\ new'[x] = new[x]
           /\ id'[t] = 0 /\ entry'[t] = "vm_interpreter_loop"
           /\ \A x \in tasks :
                  id'[x] = id[x] /\ entry'[x] = entry[x] /\ next'[x] = next[x]
           /\ UNCHANGED <<current_task, ready_list, next_task_id, id_read,
                          cpu, timer_on, torn>>
<1> USE ConstantsAssumption
<1>1. PTypeOK
  BY DEF AnyTicks
<1>2. At("run") /\ "run" \in Labels \ {"x_free", "x_clear"}
  BY DEF CreateAlloc, Labels
<1>3. /\ cpu = "task" /\ current_task \in Published /\ current_task \in Task
      /\ current_task \in tasks /\ ready_list = current_task
      /\ pc[current_task] = "run"
  BY <1>2, AtHead
<1>4. /\ t \notin tasks /\ t # current_task /\ entry[current_task] # "idle_task"
      /\ tasks' = tasks \cup {t} /\ fresh' = fresh \cup {t}
      /\ next' = With(next, t, NULL) /\ id' = With(id, t, 0)
      /\ entry' = With(entry, t, "vm_interpreter_loop")
      /\ new' = [new EXCEPT ![current_task] = t, ![t] = NULL]
      /\ pc' = [pc EXCEPT ![current_task] = "c_id", ![t] = "run"]
      /\ UNCHANGED <<ready_list, current_task, next_task_id, id_read, cpu, timer_on, torn>>
  BY <1>3 DEF CreateAlloc, InKernelCall
<1>5. /\ pc'[current_task] = "c_id" /\ pc'[t] = "run"
      /\ \A x \in tasks \ {current_task} : pc'[x] = pc[x] /\ new'[x] = new[x]
  BY <1>1, <1>3, <1>4 DEF PTypeOK
<1>6. /\ id'[t] = 0 /\ entry'[t] = "vm_interpreter_loop"
      /\ \A x \in tasks :
             id'[x] = id[x] /\ entry'[x] = entry[x] /\ next'[x] = next[x]
  BY <1>4 DEF With
<1>7. Published' = Published
  BY <1>1, <1>4 DEF Published, PTypeOK
<1> QED
  BY <1>3, <1>4, <1>5, <1>6, <1>7

-----------------------------------------------------------------------------
(* ExitsFinishUnlessTorn is inductive next to AnyTicks.                    *)

LEMMA ExitsFinishInit == PInit => ExitsFinishUnlessTorn
  BY DEF PInit, Init, ExitsFinishUnlessTorn

LEMMA ExitsFinishStep ==
    ASSUME AnyTicks, ExitsFinishUnlessTorn, [PNext]_pvars
    PROVE  ExitsFinishUnlessTorn'
<1> USE ConstantsAssumption
<1> DEFINE Late == {"x_head", "x_free", "x_clear"}
<1>0. /\ PTypeOK /\ RunningIsTask /\ ReleasedIsFree /\ tasks \subseteq Task
  BY DEF AnyTicks, PTypeOK
<1> SUFFICES ASSUME torn' \cap {"x_head", "x_free"} = {},
                    NEW x \in tasks', pc'[x] \in Late
             PROVE  x = current_task'
  BY DEF ExitsFinishUnlessTorn
<1>1. \A y \in tasks : pc[y] \in Late => y = current_task
  BY TornGrows DEF ExitsFinishUnlessTorn
<1>2. ASSUME NEW t \in Task, Boot(t) PROVE x = current_task'
  <2>1. \A y \in Task : pc'[y] = "run"
    BY <1>2, BootEffect
  <2> QED
    BY <1>0, <1>2, <2>1, BootEffect
<1>3. ASSUME NEW t \in Task, CreateAlloc(t) PROVE x = current_task'
  <2>1. /\ tasks' = tasks \cup {t} /\ pc'[current_task] = "c_id" /\ pc'[t] = "run"
        /\ \A y \in tasks \ {current_task} : pc'[y] = pc[y]
    BY <1>3, AllocEffect
  <2> QED
    BY <1>1, <2>1
<1>4. CASE CreateReadId \/ CreateStoreId \/ CreateLink \/ CreatePublish
  <2>1. /\ tasks' = tasks /\ current_task' = current_task
        /\ \A y \in Task \ {current_task} : pc'[y] = pc[y]
    BY <1>4, CreateEffect
  <2> QED
    BY <1>0, <1>1, <2>1
<1>5. CASE ExitCall \/ ExitScan \/ ExitMissed \/ ExitUnlink \/ ExitHead
               \/ ExitFree \/ ExitClear
  <2>1. /\ tasks' \subseteq tasks
        /\ current_task' = current_task \/ ExitClear
        /\ \A y \in Task \ {current_task} : pc'[y] = pc[y]
    BY <1>5, ExitEffect
  <2>2. CASE current_task' = current_task
    BY <1>0, <1>1, <2>1, <2>2
  <2>3. CASE ExitClear
    <3>1. pc[current_task] = "x_clear" /\ tasks' = tasks
      BY <2>3 DEF ExitClear, At
    <3>2. x # current_task
      BY <1>0, <3>1 DEF ReleasedIsFree
    <3> QED
      BY <1>0, <1>1, <2>1, <3>1, <3>2
  <2> QED
    BY <2>1, <2>2, <2>3
<1>6. ASSUME NEW i \in StopIds, KillTask(i) PROVE x = current_task'
  <2>1. /\ tasks' \subseteq tasks /\ current_task' = current_task /\ pc' = pc
    BY <1>6, KillEffect
  <2> QED
    BY <1>1, <2>1
<1>7. CASE Interrupt
  <2>1. /\ tasks' = tasks /\ pc' = pc /\ cpu # "lost"
        /\ torn' = torn \cup {l \in Critical : cpu = "task" /\ l = pc[current_task]}
    BY <1>7, InterruptEffect
  <2>2. x \in tasks /\ x = current_task /\ pc[current_task] \in {"x_head", "x_free"}
    BY <1>0, <1>1, <2>1 DEF ReleasedIsFree
  <2>3. cpu = "task"
    BY <1>0, <2>1, <2>2 DEF RunningIsTask, PTypeOK, Modes
  <2>4. pc[current_task] \in torn'
    BY <2>1, <2>2, <2>3 DEF Critical, Labels, ExitLabels
  <2> QED
    BY <2>2, <2>4
<1>8. CASE UNCHANGED pvars
  BY <1>1, <1>8 DEF pvars, vars, locals
<1> QED
  BY <1>2, <1>3, <1>4, <1>5, <1>6, <1>7, <1>8 DEF PNext

\* A task that has left the ring finishes its exit, with the event sent and
\* the memory freed, unless a tick lands between the store that takes it out
\* and its release.
THEOREM ExitsFinish == PSpec => []ExitsFinishUnlessTorn
  BY ExitsFinishInit, ExitsFinishStep, AlwaysAnyTicks, PTL DEF PSpec

-----------------------------------------------------------------------------
(* Ids: distinct while the counter has not wrapped and no tick lands       *)
(* between its load and its store.                                         *)

LEMMA IdsInit == PInit => IdsDistinct /\ IdsReserved
  BY DEF PInit, Init, IdsDistinct, IdsReserved, Published

\* A step that hands out no id and reserves none.
LEMMA IdsQuiet ==
    ASSUME AnyTicks, IdsDistinct, IdsReserved,
           tasks' \subseteq tasks, fresh \subseteq tasks',
           Published' \subseteq Published,
           \A x \in tasks' : id'[x] = id[x],
           next_task_id' = next_task_id,
           \A x \in tasks' : pc'[x] # "c_id_store",
           \A x \in tasks' : pc'[x] \in {"c_link", "c_publish"} =>
               pc[x] \in {"c_link", "c_publish"} /\ new'[x] = new[x]
    PROVE  IdsDistinct' /\ IdsReserved'
<1>1. BuildsItsOwn
  BY DEF AnyTicks
<1>2. \A x \in tasks : pc[x] \in {"c_link", "c_publish"} => new[x] \in fresh
  BY <1>1 DEF BuildsItsOwn, CreateLabels
<1>3. Published' \subseteq tasks'
  BY DEF Published
<1>4. IdsDistinct'
  <2>1. next_task_id' \in CreateIds => \A x \in tasks' : id'[x] < next_task_id'
    BY DEF IdsDistinct
  <2>2. \A x, y \in tasks' : id'[x] = id'[y] /\ id'[x] # 0 => x = y
    BY DEF IdsDistinct
  <2>3. \A x \in Published' : id'[x] # 0
    BY <1>3 DEF IdsDistinct
  <2> QED
    BY <2>1, <2>2, <2>3 DEF IdsDistinct
<1>5. IdsReserved'
  BY <1>2 DEF IdsReserved
<1> QED
  BY <1>4, <1>5

LEMMA IdsBoot ==
    ASSUME AnyTicks, NoWrap, IdsDistinct, IdsReserved, NEW t \in Task, Boot(t)
    PROVE  IdsDistinct' /\ IdsReserved'
<1> USE ConstantsAssumption
<1>1. /\ t \notin tasks /\ fresh = {} /\ fresh' = fresh
      /\ \A x \in Task : pc'[x] = "run"
      /\ tasks' = tasks \cup {t}
      /\ next_task_id \in CreateIds
      /\ next_task_id' = (next_task_id + 1) % IdModulus
      /\ id' = With(id, t, next_task_id)
  BY BootEffect
<1>2. /\ next_task_id \in Nat /\ next_task_id < IdModulus /\ next_task_id # 0
      /\ \A x \in tasks : id[x] \in Nat
      /\ tasks \subseteq Task
  BY <1>1 DEF AnyTicks, PTypeOK, NoWrap, Ids
<1>3. /\ id'[t] = next_task_id
      /\ \A x \in tasks : id'[x] = id[x] /\ id[x] < next_task_id
  BY <1>1 DEF With, IdsDistinct
<1>4. \A x, y \in tasks' : id'[x] = id'[y] /\ id'[x] # 0 => x = y
  BY <1>1, <1>2, <1>3 DEF IdsDistinct
<1>5. \A x \in Published' : id'[x] # 0
  BY <1>1, <1>2, <1>3 DEF IdsDistinct, Published
<1>6. next_task_id' \in CreateIds => \A x \in tasks' : id'[x] < next_task_id'
  <2>1. CASE next_task_id + 1 = IdModulus
    <3>1. next_task_id' = 0
      BY <1>1, <1>2, <2>1
    <3> QED
      BY <3>1 DEF NoWrap
  <2>2. CASE next_task_id + 1 < IdModulus
    <3>1. next_task_id' = next_task_id + 1
      BY <1>1, <1>2, <2>2
    <3> QED
      BY <1>1, <1>2, <1>3, <3>1
  <2> QED
    BY <1>2, <2>1, <2>2
<1>7. IdsReserved'
  BY <1>1, <1>2 DEF IdsReserved
<1> QED
  BY <1>4, <1>5, <1>6, <1>7 DEF IdsDistinct

LEMMA IdsAlloc ==
    ASSUME AnyTicks, NoWrap, IdsDistinct, IdsReserved, NEW t \in Task, CreateAlloc(t)
    PROVE  IdsDistinct' /\ IdsReserved'
<1>1. /\ t \notin tasks /\ tasks' = tasks \cup {t}
      /\ pc[current_task] = "run" /\ current_task \in tasks
      /\ pc'[current_task] = "c_id" /\ pc'[t] = "run"
      /\ \A x \in tasks \ {current_task} : pc'[x] = pc[x] /\ new'[x] = new[x]
      /\ id'[t] = 0 /\ \A x \in tasks : id'[x] = id[x]
      /\ Published' = Published
      /\ UNCHANGED <<current_task, next_task_id, id_read>>
  BY AllocEffect
<1>2. BuildsItsOwn /\ fresh \subseteq tasks /\ next_task_id \in Nat
  BY DEF AnyTicks, PTypeOK, Ids
<1>3. \A x \in Published : id[x] # 0 /\ x \in tasks
  BY DEF IdsDistinct, Published
<1>4. IdsDistinct'
  <2>1. next_task_id \in CreateIds => 0 < next_task_id
    BY <1>2, ConstantsAssumption DEF NoWrap
  <2>2. next_task_id' \in CreateIds => \A x \in tasks' : id'[x] < next_task_id'
    BY <1>1, <2>1 DEF IdsDistinct
  <2>3. \A x, y \in tasks' : id'[x] = id'[y] /\ id'[x] # 0 => x = y
    BY <1>1 DEF IdsDistinct
  <2> QED
    BY <1>1, <1>3, <2>2, <2>3 DEF IdsDistinct
<1>5. IdsReserved'
  <2>1. \A x \in tasks' : pc'[x] \in {"c_id_store", "c_link", "c_publish"} =>
            x \in tasks /\ pc'[x] = pc[x] /\ new'[x] = new[x]
    BY <1>1
  <2>2. \A x \in tasks : pc[x] \in {"c_link", "c_publish"} => new[x] \in tasks
    BY <1>2 DEF BuildsItsOwn, CreateLabels
  <2> QED
    BY <1>1, <2>1, <2>2 DEF IdsReserved
<1> QED
  BY <1>4, <1>5

LEMMA IdsCreate ==
    ASSUME AnyTicks, NoWrap, IdsDistinct, IdsReserved,
           CreateReadId \/ CreateStoreId \/ CreateLink \/ CreatePublish
    PROVE  IdsDistinct' /\ IdsReserved'
<1> USE ConstantsAssumption
<1>1. /\ current_task \in Task /\ current_task \in tasks
      /\ new[current_task] \in fresh /\ new[current_task] \in tasks
      /\ \A x \in Task \ {current_task} : pc'[x] = pc[x] /\ new'[x] = new[x]
      /\ tasks' = tasks /\ current_task' = current_task
  BY CreateEffect
<1>2. /\ tasks \subseteq Task /\ fresh \subseteq tasks
      /\ pc \in [Task -> Labels] /\ id_read \in [Task -> Ids]
      /\ id \in [tasks -> Ids] /\ BuildsItsOwn
  BY DEF AnyTicks, PTypeOK
<1>3. \A x \in tasks : x # current_task => pc'[x] = pc[x] /\ new'[x] = new[x]
  BY <1>1, <1>2
<1>4. CASE CreateReadId
  <2>1. /\ next_task_id \in CreateIds
        /\ id_read' = [id_read EXCEPT ![current_task] = next_task_id]
        /\ pc' = [pc EXCEPT ![current_task] = "c_id_store"]
        /\ UNCHANGED <<next, id, next_task_id, new, fresh>>
    BY <1>4 DEF CreateReadId, Goto, vars
  <2>2. pc'[current_task] = "c_id_store" /\ id_read'[current_task] = next_task_id
    BY <1>1, <1>2, <2>1
  <2>3. IdsReserved'
    <3>1. \A x \in tasks : x # current_task => pc'[x] # "c_id_store"
      BY <1>1, <1>3 DEF IdsReserved
    <3>2. \A x \in tasks : pc'[x] \in {"c_link", "c_publish"} =>
              pc[x] \in {"c_link", "c_publish"} /\ id'[new'[x]] = id[new[x]]
      BY <1>3, <2>1, <2>2
    <3> QED
      BY <1>1, <2>1, <2>2, <3>1, <3>2 DEF IdsReserved
  <2>4. IdsDistinct'
    BY <1>1, <2>1 DEF IdsDistinct, Published
  <2> QED
    BY <2>3, <2>4
<1>5. CASE CreateStoreId
  <2> DEFINE n == id_read[current_task]
  <2>1. /\ pc[current_task] = "c_id_store"
        /\ next_task_id' = (n + 1) % IdModulus
        /\ id' = [id EXCEPT ![new[current_task]] = n]
        /\ pc' = [pc EXCEPT ![current_task] = "c_link"]
        /\ UNCHANGED <<new, fresh>>
    BY <1>5 DEF CreateStoreId, At, Goto
  <2>2. n = next_task_id /\ n \in CreateIds
    BY <1>1, <2>1 DEF IdsReserved
  <2> HIDE DEF n
  <2>3. n \in Nat /\ n < IdModulus /\ n # 0
    BY <2>2 DEF NoWrap, Ids
  <2>4. /\ id'[new[current_task]] = n
        /\ \A x \in tasks : x # new[current_task] => id'[x] = id[x]
        /\ \A x \in tasks : id[x] < n /\ id[x] \in Nat
        /\ pc'[current_task] = "c_link"
    BY <1>1, <1>2, <2>1, <2>2 DEF IdsDistinct, Ids
  <2>5. \A x, y \in tasks' : id'[x] = id'[y] /\ id'[x] # 0 => x = y
    BY <1>1, <2>3, <2>4 DEF IdsDistinct
  <2>6. \A x \in Published' : id'[x] # 0
    BY <1>1, <2>1, <2>3, <2>4 DEF IdsDistinct, Published
  <2>7. next_task_id' \in CreateIds => \A x \in tasks' : id'[x] < next_task_id'
    <3>1. CASE n + 1 = IdModulus
      <4>1. next_task_id' = 0
        BY <2>1, <2>3, <3>1
      <4> QED
        BY <4>1 DEF NoWrap
    <3>2. CASE n + 1 < IdModulus
      <4>1. next_task_id' = n + 1
        BY <2>1, <2>3, <3>2
      <4>2. \A x \in tasks : id'[x] < n + 1
        BY <2>3, <2>4
      <4> QED
        BY <1>1, <4>1, <4>2
    <3> QED
      BY <2>3, <3>1, <3>2
  <2>8. IdsReserved'
    <3>1. \A x \in tasks : pc'[x] # "c_id_store"
      BY <1>1, <1>3, <2>1, <2>4 DEF IdsReserved
    <3>2. \A x \in tasks : pc[x] \in CreateLabels => new[x] \in tasks
      BY <1>2 DEF BuildsItsOwn
    <3>3. \A x \in tasks : x # current_task /\ pc[x] \in {"c_link", "c_publish"}
              => id'[new[x]] # 0
      BY <2>3, <2>4, <3>2 DEF IdsReserved, CreateLabels
    <3>4. new' = new
      BY <2>1
    <3> QED
      BY <1>1, <1>3, <2>3, <2>4, <3>1, <3>3, <3>4 DEF IdsReserved
  <2> QED
    BY <2>5, <2>6, <2>7, <2>8 DEF IdsDistinct
<1>6. CASE CreateLink
  <2>1. /\ pc[current_task] = "c_link" /\ pc' = [pc EXCEPT ![current_task] = "c_publish"]
        /\ UNCHANGED <<id, next_task_id, new, fresh>>
    BY <1>6 DEF CreateLink, At, Goto
  <2>2. pc'[current_task] = "c_publish"
    BY <1>1, <1>2, <2>1
  <2>3. \A x \in tasks : pc'[x] # "c_id_store"
    BY <1>1, <1>3, <2>1, <2>2 DEF IdsReserved
  <2>4. \A x \in tasks : pc'[x] \in {"c_link", "c_publish"} =>
            pc[x] \in {"c_link", "c_publish"} /\ new'[x] = new[x]
    BY <1>3, <2>1, <2>2
  <2>5. Published' = Published
    BY <1>1, <2>1 DEF Published
  <2> QED
    BY <1>1, <1>2, <2>1, <2>3, <2>4, <2>5, IdsQuiet
<1>7. CASE CreatePublish
  <2>1. /\ pc[current_task] = "c_publish" /\ pc' = [pc EXCEPT ![current_task] = "run"]
        /\ fresh' = fresh \ {new[current_task]}
        /\ UNCHANGED <<id, next_task_id>>
    BY <1>7 DEF CreatePublish, At, Goto
  <2>2. pc'[current_task] = "run"
    BY <1>1, <1>2, <2>1
  <2>3. id[new[current_task]] # 0
    BY <1>1, <2>1 DEF IdsReserved
  <2>4. Published' = Published \cup {new[current_task]}
    BY <1>1, <2>1 DEF Published
  <2>5. IdsDistinct'
    BY <1>1, <2>1, <2>3, <2>4 DEF IdsDistinct
  <2>6. IdsReserved'
    <3>1. \A x \in tasks : pc'[x] # "c_id_store"
      BY <1>1, <1>3, <2>1, <2>2 DEF IdsReserved
    <3>2. \A x \in tasks : pc'[x] \in {"c_link", "c_publish"} =>
              pc[x] \in {"c_link", "c_publish"} /\ id'[new'[x]] = id[new[x]]
      BY <1>3, <2>1, <2>2
    <3> QED
      BY <1>1, <3>1, <3>2 DEF IdsReserved
  <2> QED
    BY <2>5, <2>6
<1> QED
  BY <1>4, <1>5, <1>6, <1>7

LEMMA IdsExit ==
    ASSUME AnyTicks, IdsDistinct, IdsReserved,
           ExitCall \/ ExitScan \/ ExitMissed \/ ExitUnlink \/ ExitHead
               \/ ExitFree \/ ExitClear
    PROVE  IdsDistinct' /\ IdsReserved'
<1>1. /\ cpu = "task" /\ current_task \in Task
      /\ pc[current_task] \notin CreateLabels /\ pc'[current_task] \notin CreateLabels
      /\ \A x \in Task \ {current_task} : pc'[x] = pc[x]
      /\ \A x \in tasks' : id'[x] = id[x]
      /\ fresh' = fresh /\ UNCHANGED <<new, next_task_id>>
  BY ExitEffect
<1>2. tasks' \subseteq tasks
  BY ExitEffect
<1>3. tasks \subseteq Task
  BY DEF AnyTicks, PTypeOK
<1>4. fresh \subseteq tasks'
  <2>1. AnyTicks'
    BY AnyTicksExit, AnyTicksFree, AnyTicksClear
  <2> QED
    BY <1>1, <2>1 DEF AnyTicks, PTypeOK
<1>5. \A x \in tasks' : pc'[x] # "c_id_store"
  BY <1>1, <1>2, <1>3 DEF IdsReserved, CreateLabels
<1>6. \A x \in tasks' : pc'[x] \in {"c_link", "c_publish"} =>
          pc[x] \in {"c_link", "c_publish"} /\ new'[x] = new[x]
  BY <1>1, <1>2, <1>3 DEF CreateLabels
<1>7. Published' \subseteq Published
  BY <1>1, <1>2 DEF Published
<1> QED
  BY <1>1, <1>2, <1>4, <1>5, <1>6, <1>7, IdsQuiet

LEMMA IdsKill ==
    ASSUME AnyTicks, IdsDistinct, IdsReserved, NEW i \in StopIds, KillTask(i)
    PROVE  IdsDistinct' /\ IdsReserved'
<1>1. /\ pc[current_task] = "run" /\ fresh' = fresh
      /\ UNCHANGED <<next_task_id, pc, new>>
  BY KillEffect
<1>2. PICK target \in Linked \cap Published :
          tasks' = tasks \ {target} /\ id' = Without(id, target)
  BY KillEffect
<1>3. /\ tasks' \subseteq tasks /\ fresh \subseteq tasks'
      /\ \A x \in tasks' : id'[x] = id[x]
  BY <1>2 DEF AnyTicks, PTypeOK, Published, Without
<1>4. \A x \in tasks' : pc'[x] # "c_id_store"
  BY <1>1, <1>3 DEF IdsReserved
<1>5. Published' \subseteq Published
  BY <1>1, <1>3 DEF Published
<1> QED
  BY <1>1, <1>3, <1>4, <1>5, IdsQuiet

LEMMA IdsInterrupt ==
    ASSUME AnyTicks, IdsDistinct, IdsReserved, Interrupt, "c_id_store" \notin torn'
    PROVE  IdsDistinct' /\ IdsReserved'
<1> USE ConstantsAssumption
<1>1. /\ UNCHANGED <<tasks, id, next_task_id, pc, new, fresh>> /\ cpu # "lost"
      /\ torn' = torn \cup {l \in Critical : cpu = "task" /\ l = pc[current_task]}
  BY InterruptEffect
<1>2. PTypeOK /\ RunningIsTask /\ tasks \subseteq Task /\ fresh \subseteq tasks
  BY DEF AnyTicks, PTypeOK
<1>3. \A x \in tasks' : pc'[x] # "c_id_store"
  <2>1. CASE cpu = "task"
    <3>1. pc[current_task] # "c_id_store"
      BY <1>1, <2>1 DEF Critical, Labels, CreateLabels
    <3> QED
      BY <1>1, <3>1 DEF IdsReserved
  <2>2. CASE cpu # "task"
    <3>1. current_task = NULL
      BY <1>1, <1>2, <2>2 DEF RunningIsTask, PTypeOK, Modes
    <3> QED
      BY <1>1, <1>2, <3>1 DEF IdsReserved
  <2> QED
    BY <2>1, <2>2
<1>4. Published' = Published
  BY <1>1 DEF Published
<1> QED
  BY <1>1, <1>2, <1>3, <1>4, IdsQuiet

LEMMA IdsStep ==
    ASSUME AnyTicks, IdsUntorn => IdsDistinct /\ IdsReserved,
           [PNext]_pvars, IdsUntorn'
    PROVE  IdsDistinct' /\ IdsReserved'
<1>1. NoWrap /\ IdsDistinct /\ IdsReserved
  BY TornGrows DEF IdsUntorn, NoWrap
<1>2. CASE \E t \in Task : Boot(t) \/ CreateAlloc(t)
  BY <1>1, <1>2, IdsBoot, IdsAlloc
<1>3. CASE CreateReadId \/ CreateStoreId \/ CreateLink \/ CreatePublish
  BY <1>1, <1>3, IdsCreate
<1>4. CASE ExitCall \/ ExitScan \/ ExitMissed \/ ExitUnlink \/ ExitHead
               \/ ExitFree \/ ExitClear
  BY <1>1, <1>4, IdsExit
<1>5. CASE \E i \in StopIds : KillTask(i)
  BY <1>1, <1>5, IdsKill
<1>6. CASE Interrupt
  BY <1>1, <1>6, IdsInterrupt DEF IdsUntorn
<1>7. CASE UNCHANGED pvars
  <2>1. UNCHANGED <<tasks, id, next_task_id, current_task, pc, new, id_read, fresh>>
    BY <1>7 DEF pvars, vars, locals
  <2> QED
    BY <1>1, <2>1 DEF IdsDistinct, IdsReserved, Published
<1> QED
  BY <1>2, <1>3, <1>4, <1>5, <1>6, <1>7 DEF PNext

LEMMA AlwaysIdsDistinct == PSpec => [](IdsUntorn => IdsDistinct /\ IdsReserved)
<1>1. AnyTicks /\ (IdsUntorn => IdsDistinct /\ IdsReserved) /\ [PNext]_pvars
          => (IdsUntorn => IdsDistinct /\ IdsReserved)'
  BY IdsStep
<1>2. PInit => (IdsUntorn => IdsDistinct /\ IdsReserved)
  BY IdsInit
<1> QED
  BY <1>1, <1>2, AlwaysAnyTicks, PTL DEF PSpec

\* While the id counter has not wrapped, two tasks of the ring have the same
\* id only if a tick has landed between the load and the store of
\* next_task_id++, whatever else it has interrupted.
THEOREM IdsSurviveTicks == ASSUME NoWrap PROVE PSpec => []IdsClashOnlyIfTorn
<1>1. (IdsUntorn => IdsDistinct /\ IdsReserved) => IdsClashOnlyIfTorn
  <2> SUFFICES ASSUME IdsDistinct, NEW s \in Linked \cap Published,
                      NEW t \in Linked \cap Published, id[s] = id[t]
               PROVE  s = t
    BY NoWrap DEF IdsUntorn, IdsClashOnlyIfTorn
  <2> QED
    BY DEF IdsDistinct, Published
<1> QED
  BY <1>1, AlwaysIdsDistinct, PTL

-----------------------------------------------------------------------------
(* Who calls task_create, and the counter between its store and the        *)
(* publication: what the atomic view below needs.                          *)

LEMMA CallersInit == PInit => CallersAndCounter
  BY DEF PInit, Init, CallersAndCounter

\* In a step that leaves nobody with an id stored and not published.
LEMMA CallersQuiet ==
    ASSUME AnyTicks, CallersAndCounter,
           tasks' \subseteq tasks, fresh' \subseteq fresh \cap tasks',
           \A x \in tasks' : entry'[x] = entry[x],
           \A x \in tasks' :
               /\ pc'[x] \in CreateLabels => pc[x] \in CreateLabels
               /\ pc'[x] \in ExitLabels =>
                      pc[x] \in ExitLabels \/ entry[x] = "vm_interpreter_loop",
           torn' = {} =>
               \A x \in tasks' : pc'[x] \notin {"c_id_store", "c_link", "c_publish"}
    PROVE  CallersAndCounter'
<1>1. \A t \in fresh' : entry'[t] = "vm_interpreter_loop"
  BY DEF CallersAndCounter
<1>2. \A t \in tasks' :
          /\ pc'[t] \in CreateLabels => entry'[t] # "idle_task"
          /\ pc'[t] \in ExitLabels => entry'[t] = "vm_interpreter_loop"
  BY DEF CallersAndCounter
<1> QED
  BY <1>1, <1>2 DEF CallersAndCounter

LEMMA CallersCreate ==
    ASSUME AnyTicks, CallersAndCounter,
           CreateReadId \/ CreateStoreId \/ CreateLink \/ CreatePublish
    PROVE  CallersAndCounter'
<1>1. /\ current_task \in Task /\ current_task \in tasks
      /\ current_task \in Published
      /\ pc[current_task] \in CreateLabels
      /\ pc'[current_task] \in CreateLabels \cup {"run"}
      /\ new[current_task] \in fresh /\ new[current_task] \in tasks
      /\ \A x \in Task \ {current_task} : pc'[x] = pc[x] /\ new'[x] = new[x]
      /\ UNCHANGED <<tasks, entry, current_task, torn>>
  BY CreateEffect
<1>2. /\ tasks \subseteq Task /\ fresh \subseteq tasks
      /\ pc \in [Task -> Labels] /\ id_read \in [Task -> Ids]
      /\ id \in [tasks -> Ids]
  BY DEF AnyTicks, PTypeOK
<1>3. fresh' \subseteq fresh
  BY DEF CreateReadId, CreateStoreId, CreateLink, CreatePublish
<1>4. \A t \in fresh' : entry'[t] = "vm_interpreter_loop"
  BY <1>1, <1>3 DEF CallersAndCounter
<1>5. \A t \in tasks' :
          /\ pc'[t] \in CreateLabels => entry'[t] # "idle_task"
          /\ pc'[t] \in ExitLabels => entry'[t] = "vm_interpreter_loop"
  <2>1. "run" \notin ExitLabels /\ CreateLabels \cap ExitLabels = {}
    BY DEF CreateLabels, ExitLabels
  <2> QED
    BY <1>1, <1>2, <2>1 DEF CallersAndCounter
<1>6. ASSUME torn' = {}, NEW t \in tasks'
      PROVE  /\ pc'[t] = "c_id_store" =>
                    /\ t = current_task'
                    /\ id_read'[t] = next_task_id' /\ next_task_id' \in CreateIds
             /\ pc'[t] \in {"c_link", "c_publish"} =>
                    /\ t = current_task'
                    /\ id'[new'[t]] \in CreateIds
                    /\ next_task_id' = (id'[new'[t]] + 1) % IdModulus
  <2>1. \A x \in tasks :
            /\ pc[x] = "c_id_store" =>
                   /\ x = current_task
                   /\ id_read[x] = next_task_id /\ next_task_id \in CreateIds
            /\ pc[x] \in {"c_link", "c_publish"} =>
                   /\ x = current_task
                   /\ id[new[x]] \in CreateIds
                   /\ next_task_id = (id[new[x]] + 1) % IdModulus
    BY <1>1, <1>6 DEF CallersAndCounter
  <2>2. CASE t # current_task
    BY <1>1, <1>2, <2>1, <2>2
  <2>3. CASE t = current_task /\ CreateReadId
    <3>1. /\ next_task_id \in CreateIds /\ next_task_id' = next_task_id
          /\ id_read' = [id_read EXCEPT ![current_task] = next_task_id]
          /\ pc' = [pc EXCEPT ![current_task] = "c_id_store"]
      BY <2>3 DEF CreateReadId, Goto, vars
    <3>2. pc'[current_task] = "c_id_store" /\ id_read'[current_task] = next_task_id
      BY <1>1, <1>2, <3>1
    <3> QED
      BY <1>1, <2>3, <3>1, <3>2
  <2>4. CASE t = current_task /\ CreateStoreId
    <3>1. /\ pc[current_task] = "c_id_store"
          /\ next_task_id' = (id_read[current_task] + 1) % IdModulus
          /\ id' = [id EXCEPT ![new[current_task]] = id_read[current_task]]
          /\ pc' = [pc EXCEPT ![current_task] = "c_link"] /\ new' = new
      BY <2>4 DEF CreateStoreId, At, Goto
    <3>2. pc'[current_task] = "c_link" /\ id'[new[current_task]] = id_read[current_task]
      BY <1>1, <1>2, <3>1
    <3>3. id_read[current_task] \in CreateIds
      BY <1>1, <2>1, <3>1
    <3> QED
      BY <1>1, <2>4, <3>1, <3>2, <3>3
  <2>5. CASE t = current_task /\ CreateLink
    <3>1. /\ pc[current_task] = "c_link" /\ UNCHANGED <<id, new, next_task_id>>
          /\ pc' = [pc EXCEPT ![current_task] = "c_publish"]
      BY <2>5 DEF CreateLink, At, Goto
    <3>2. pc'[current_task] = "c_publish"
      BY <1>1, <1>2, <3>1
    <3> QED
      BY <1>1, <2>1, <2>5, <3>1, <3>2
  <2>6. CASE t = current_task /\ CreatePublish
    <3>1. pc' = [pc EXCEPT ![current_task] = "run"]
      BY <2>6 DEF CreatePublish, Goto
    <3>2. pc'[current_task] = "run"
      BY <1>1, <1>2, <3>1
    <3> QED
      BY <2>6, <3>2
  <2> QED
    BY <2>2, <2>3, <2>4, <2>5, <2>6
<1> QED
  BY <1>4, <1>5, <1>6 DEF CallersAndCounter

LEMMA CallersStep ==
    ASSUME AnyTicks, CallersAndCounter, [PNext]_pvars
    PROVE  CallersAndCounter'
<1> USE ConstantsAssumption
<1>0. /\ PTypeOK /\ RunningIsTask /\ tasks \subseteq Task /\ fresh \subseteq tasks
  BY DEF AnyTicks, PTypeOK
<1>1. torn' = {} => torn = {}
  BY TornGrows
<1>2. torn = {} => \A x \in tasks :
          pc[x] \in {"c_id_store", "c_link", "c_publish"} => x = current_task
  BY DEF CallersAndCounter
<1>3. ASSUME NEW t \in Task, Boot(t) PROVE CallersAndCounter'
  <2>1. /\ fresh' = {} /\ \A x \in Task : pc'[x] = "run"
        /\ tasks' = tasks \cup {t}
    BY <1>3, BootEffect
  <2>2. \A x \in tasks' : pc'[x] = "run"
    BY <1>0, <2>1
  <2> QED
    BY <2>1, <2>2 DEF CallersAndCounter, CreateLabels, ExitLabels
<1>4. ASSUME NEW t \in Task, CreateAlloc(t) PROVE CallersAndCounter'
  <2>1. /\ current_task \in tasks /\ pc[current_task] = "run"
        /\ entry[current_task] # "idle_task"
        /\ t \notin tasks /\ tasks' = tasks \cup {t} /\ fresh' = fresh \cup {t}
        /\ pc'[current_task] = "c_id" /\ pc'[t] = "run"
        /\ \A x \in tasks \ {current_task} : pc'[x] = pc[x]
        /\ entry'[t] = "vm_interpreter_loop"
        /\ \A x \in tasks : entry'[x] = entry[x]
    BY <1>4, AllocEffect
  <2>2. \A x \in fresh' : entry'[x] = "vm_interpreter_loop"
    BY <1>0, <2>1 DEF CallersAndCounter
  <2>3. \A x \in tasks' :
            /\ pc'[x] \in CreateLabels => entry'[x] # "idle_task"
            /\ pc'[x] \in ExitLabels => entry'[x] = "vm_interpreter_loop"
    BY <2>1 DEF CallersAndCounter, CreateLabels, ExitLabels
  <2>4. torn' = {} => \A x \in tasks' :
            pc'[x] \notin {"c_id_store", "c_link", "c_publish"}
    BY <1>1, <1>2, <2>1
  <2> QED
    BY <2>2, <2>3, <2>4 DEF CallersAndCounter
<1>5. CASE CreateReadId \/ CreateStoreId \/ CreateLink \/ CreatePublish
  BY <1>5, CallersCreate
<1>6. CASE ExitCall \/ ExitScan \/ ExitMissed \/ ExitUnlink \/ ExitHead
               \/ ExitFree \/ ExitClear
  <2>1. /\ current_task \in Task
        /\ pc[current_task] \notin CreateLabels /\ pc'[current_task] \notin CreateLabels
        /\ \A x \in Task \ {current_task} : pc'[x] = pc[x]
        /\ \A x \in tasks' : entry'[x] = entry[x]
        /\ fresh' = fresh /\ tasks' \subseteq tasks
    BY <1>6, ExitEffect
  <2>2. fresh' \subseteq fresh \cap tasks'
    <3>1. AnyTicks'
      BY <1>6, AnyTicksExit, AnyTicksFree, AnyTicksClear
    <3> QED
      BY <2>1, <3>1 DEF AnyTicks, PTypeOK
  <2>3. pc[current_task] \in ExitLabels \/ entry[current_task] = "vm_interpreter_loop"
    BY <1>6 DEF ExitCall, ExitScan, ExitMissed, ExitUnlink, ExitHead, ExitFree,
                ExitClear, At, ExitLabels
  <2>4. \A x \in tasks' :
            /\ pc'[x] \in CreateLabels => pc[x] \in CreateLabels
            /\ pc'[x] \in ExitLabels =>
                   pc[x] \in ExitLabels \/ entry[x] = "vm_interpreter_loop"
    BY <1>0, <2>1, <2>3
  <2>5. torn' = {} => \A x \in tasks' :
            pc'[x] \notin {"c_id_store", "c_link", "c_publish"}
    BY <1>0, <1>1, <1>2, <2>1 DEF CreateLabels
  <2> QED
    BY <2>1, <2>2, <2>4, <2>5, CallersQuiet
<1>7. ASSUME NEW i \in StopIds, KillTask(i) PROVE CallersAndCounter'
  <2>1. pc[current_task] = "run" /\ fresh' = fresh /\ pc' = pc
    BY <1>7, KillEffect
  <2>2. PICK target \in Linked \cap Published :
            tasks' = tasks \ {target} /\ entry' = Without(entry, target)
    BY <1>7, KillEffect
  <2>3. /\ tasks' \subseteq tasks /\ fresh' \subseteq fresh \cap tasks'
        /\ \A x \in tasks' : entry'[x] = entry[x]
    BY <1>0, <2>1, <2>2 DEF Published, Without
  <2>4. torn' = {} => \A x \in tasks' :
            pc'[x] \notin {"c_id_store", "c_link", "c_publish"}
    BY <1>1, <1>2, <2>1, <2>3
  <2> QED
    BY <2>1, <2>3, <2>4, CallersQuiet
<1>8. CASE Interrupt
  <2>1. /\ UNCHANGED <<tasks, entry, pc, fresh>> /\ cpu # "lost"
        /\ torn' = torn \cup {l \in Critical : cpu = "task" /\ l = pc[current_task]}
    BY <1>8, InterruptEffect
  <2>2. ASSUME torn' = {}, NEW x \in tasks,
               pc[x] \in {"c_id_store", "c_link", "c_publish"}
        PROVE  FALSE
    <3>1. x = current_task
      BY <1>1, <1>2, <2>2
    <3>2. cpu = "task"
      BY <1>0, <2>1, <3>1 DEF RunningIsTask, PTypeOK, Modes
    <3>3. pc[current_task] \in torn'
      BY <2>1, <2>2, <3>1, <3>2 DEF Critical, Labels, CreateLabels
    <3> QED
      BY <2>2, <3>3
  <2> QED
    BY <1>0, <2>1, <2>2, CallersQuiet
<1>9. CASE UNCHANGED pvars
  <2>1. UNCHANGED <<tasks, id, entry, next_task_id, current_task, pc, new,
                    id_read, fresh, torn>>
    BY <1>9 DEF pvars, vars, locals
  <2> QED
    BY <2>1 DEF CallersAndCounter
<1> QED
  BY <1>3, <1>4, <1>5, <1>6, <1>7, <1>8, <1>9 DEF PNext

LEMMA AlwaysCallers == PSpec => []CallersAndCounter
  BY CallersInit, CallersStep, AlwaysAnyTicks, PTL DEF PSpec

-----------------------------------------------------------------------------
(* The atomic view.  While no tick has landed inside a critical label the  *)
(* functions of scheduler.c take effect at one of their stores, as the     *)
(* operations of module Scheduler, and change nothing of it elsewhere.     *)

\* A step that moves nothing the atomic view shows.
LEMMA ViewQuiet ==
    ASSUME Members' = Members,
           \A x \in Members : next'[x] = next[x] /\ id'[x] = id[x] /\ entry'[x] = entry[x],
           ViewHead' = ViewHead, ViewCurrent' = ViewCurrent,
           ViewCounter' = ViewCounter, ViewCpu' = ViewCpu, timer_on' = timer_on
    PROVE  UNCHANGED S!vars
<1>1. ViewNext' = ViewNext /\ ViewId' = ViewId /\ ViewEntry' = ViewEntry
  BY DEF ViewNext, ViewId, ViewEntry
<1> QED
  BY <1>1 DEF S!vars

LEMMA ViewInit == PInit => S!Init
<1> SUFFICES ASSUME PInit PROVE S!Init
  OBVIOUS
<1>1. /\ tasks = {} /\ ready_list = NULL /\ current_task = NULL
      /\ next_task_id = 1 /\ timer_on = FALSE /\ cpu = "boot"
  BY DEF PInit, Init
<1>2. ~Leaving /\ ~Building
  BY <1>1 DEF Leaving, Building
<1>3. Members = {}
  BY <1>1, <1>2 DEF Members, Published
<1>4. /\ ViewNext = [t \in {} |-> NULL] /\ ViewId = [t \in {} |-> 0]
      /\ ViewEntry = [t \in {} |-> "idle_task"]
  BY <1>3 DEF ViewNext, ViewId, ViewEntry
<1>5. ViewHead = NULL /\ ViewCurrent = NULL /\ ViewCounter = 1 /\ ViewCpu = "boot"
  BY <1>1, <1>2 DEF ViewHead, ViewCurrent, ViewCounter, ViewCpu
<1> QED
  BY <1>1, <1>3, <1>4, <1>5 DEF S!Init

\* What the atomic view rests on.
Untorn ==
    /\ torn = {} /\ AnyTicks /\ RingWhole /\ CallersAndCounter
    /\ ExitsFinishUnlessTorn

\* The boot code sees the scheduler as it is.
LEMMA ViewBoot ==
    ASSUME Untorn, NEW t \in Task, Boot(t)
    PROVE  S!Next
<1>1. /\ cpu = "boot" /\ cpu' = "boot" /\ current_task = NULL /\ current_task' = NULL
      /\ fresh = {} /\ fresh' = {} /\ tasks' = tasks \cup {t}
      /\ \E e \in Entries : entry' = With(entry, t, e)
      /\ id' = With(id, t, next_task_id)
      /\ next' = IF ready_list = NULL THEN With(next, t, t)
                 ELSE [x \in tasks \cup {t} |->
                          IF x = ready_list THEN t
                          ELSE IF x = t THEN next[ready_list] ELSE next[x]]
  BY BootEffect DEF Untorn
<1>2. ~Leaving /\ ~Building /\ ~Leaving' /\ ~Building'
  BY <1>1 DEF Leaving, Building
<1>3. Members = tasks /\ Members' = tasks'
  BY <1>1, <1>2 DEF Members, Published
<1>4. /\ next = [x \in tasks |-> next[x]] /\ id = [x \in tasks |-> id[x]]
      /\ entry = [x \in tasks |-> entry[x]]
  BY DEF Untorn, AnyTicks, PTypeOK
<1>5. /\ next' = [x \in tasks' |-> next'[x]] /\ id' = [x \in tasks' |-> id'[x]]
      /\ entry' = [x \in tasks' |-> entry'[x]]
  <2>1. AnyTicks'
    BY AnyTicksBoot DEF Untorn
  <2> QED
    BY <2>1 DEF AnyTicks, PTypeOK
<1>6. /\ ViewNext = next /\ ViewId = id /\ ViewEntry = entry
      /\ ViewNext' = next' /\ ViewId' = id' /\ ViewEntry' = entry'
  BY <1>3, <1>4, <1>5 DEF ViewNext, ViewId, ViewEntry
<1>7. /\ ViewHead = ready_list /\ ViewCurrent = current_task
      /\ ViewCounter = next_task_id /\ ViewCpu = cpu
      /\ ViewHead' = ready_list' /\ ViewCurrent' = current_task'
      /\ ViewCounter' = next_task_id' /\ ViewCpu' = cpu'
  BY <1>2 DEF ViewHead, ViewCurrent, ViewCounter, ViewCpu
<1>8. \A e : TaskCreate(t, e) => S!TaskCreate(t, e)
  BY <1>3, <1>6, <1>7 DEF TaskCreate, S!TaskCreate, With, S!With, InsertTask, S!InsertTask
<1>9. CASE EventSystemInit(t)
  <2>1. S!EventSystemInit(t)
    BY <1>3, <1>6, <1>7, <1>8, <1>9 DEF EventSystemInit, S!EventSystemInit
  <2> QED
    BY <2>1 DEF S!Next
<1>10. CASE SchedulerInit(t)
  <2>1. S!SchedulerInit(t)
    BY <1>7, <1>8, <1>10 DEF SchedulerInit, S!SchedulerInit
  <2> QED
    BY <2>1 DEF S!Next
<1>11. CASE LoadApp(t)
  <2>1. S!LoadApp(t)
    BY <1>1, <1>7, <1>8, <1>11 DEF LoadApp, S!LoadApp
  <2> QED
    BY <2>1 DEF S!Next
<1> QED
  BY <1>9, <1>10, <1>11 DEF Boot

\* task_create up to its last store shows nothing.
LEMMA ViewBuild ==
    ASSUME Untorn,
           (\E t \in Task : CreateAlloc(t)) \/ CreateReadId \/ CreateStoreId \/ CreateLink
    PROVE  UNCHANGED S!vars
<1> USE ConstantsAssumption
<1>0. /\ AnyTicks /\ PTypeOK /\ BuildsItsOwn /\ CallersAndCounter /\ torn = {}
      /\ tasks \subseteq Task
  BY DEF Untorn, AnyTicks, PTypeOK
<1>1. ASSUME NEW t \in Task, CreateAlloc(t) PROVE UNCHANGED S!vars
  <2>1. /\ cpu = "task" /\ current_task \in tasks /\ pc[current_task] = "run"
        /\ Published' = Published /\ pc'[current_task] = "c_id"
        /\ \A x \in tasks : next'[x] = next[x] /\ id'[x] = id[x] /\ entry'[x] = entry[x]
        /\ UNCHANGED <<current_task, ready_list, next_task_id, cpu, timer_on>>
    BY <1>0, <1>1, AllocEffect
  <2>2. ~Leaving /\ ~Building /\ ~Leaving' /\ ~Building'
    BY <2>1 DEF Leaving, Building
  <2>3. Members = Published /\ Members' = Published'
    BY <2>2 DEF Members
  <2>4. /\ ViewHead' = ViewHead /\ ViewCurrent' = ViewCurrent
        /\ ViewCounter' = ViewCounter /\ ViewCpu' = ViewCpu
    BY <2>1, <2>2 DEF ViewHead, ViewCurrent, ViewCounter, ViewCpu
  <2> QED
    BY <2>1, <2>3, <2>4, ViewQuiet DEF Published
<1>2. CASE CreateReadId \/ CreateStoreId \/ CreateLink
  <2>1. /\ cpu = "task" /\ current_task \in Task /\ current_task \in tasks
        /\ pc[current_task] \in CreateLabels
        /\ new[current_task] \in fresh /\ new[current_task] \in tasks
        /\ UNCHANGED <<tasks, entry, current_task, ready_list, cpu, timer_on>>
    BY <1>0, <1>2, CreateEffect
  <2>2. pc'[current_task] \in CreateLabels /\ fresh' = fresh /\ new' = new
    BY <1>0, <1>2, <2>1 DEF CreateReadId, CreateStoreId, CreateLink, Goto,
       CreateLabels, PTypeOK
  <2>3. ~Leaving /\ ~Leaving'
    BY <2>1, <2>2 DEF Leaving, CreateLabels
  <2>4. Members = Published /\ Members' = Members
    BY <2>1, <2>2, <2>3 DEF Members, Published
  <2>5. \A x \in Published :
            next'[x] = next[x] /\ id'[x] = id[x] /\ entry'[x] = entry[x]
    BY <1>0, <1>2, <2>1 DEF CreateReadId, CreateStoreId, CreateLink, vars,
       Published, PTypeOK
  <2>6. ViewHead' = ViewHead /\ ViewCurrent' = ViewCurrent /\ ViewCpu' = ViewCpu
    BY <2>1, <2>3 DEF ViewHead, ViewCurrent, ViewCpu
  <2>7. ViewCounter' = ViewCounter
    <3>1. CASE CreateReadId
      <4>1. /\ pc[current_task] = "c_id" /\ next_task_id' = next_task_id
            /\ pc' = [pc EXCEPT ![current_task] = "c_id_store"]
        BY <3>1 DEF CreateReadId, At, Goto, vars
      <4>2. pc'[current_task] = "c_id_store"
        BY <1>0, <2>1, <4>1 DEF PTypeOK
      <4> QED
        BY <2>1, <4>1, <4>2 DEF ViewCounter, Building
    <3>2. CASE CreateStoreId
      <4>1. /\ pc[current_task] = "c_id_store"
            /\ id' = [id EXCEPT ![new[current_task]] = id_read[current_task]]
            /\ pc' = [pc EXCEPT ![current_task] = "c_link"]
        BY <3>2 DEF CreateStoreId, At, Goto
      <4>2. pc'[current_task] = "c_link" /\ id'[new[current_task]] = id_read[current_task]
        BY <1>0, <2>1, <4>1 DEF PTypeOK
      <4>3. id_read[current_task] = next_task_id
        BY <1>0, <2>1, <4>1 DEF CallersAndCounter
      <4>4. ViewCounter = next_task_id
        BY <4>1 DEF ViewCounter, Building
      <4>5. ViewCounter' = id'[new[current_task]]
        BY <2>1, <2>2, <4>2 DEF ViewCounter, Building
      <4> QED
        BY <4>2, <4>3, <4>4, <4>5
    <3>3. CASE CreateLink
      <4>1. /\ pc[current_task] = "c_link" /\ id' = id
            /\ pc' = [pc EXCEPT ![current_task] = "c_publish"]
        BY <3>3 DEF CreateLink, At, Goto
      <4>2. pc'[current_task] = "c_publish"
        BY <1>0, <2>1, <4>1 DEF PTypeOK
      <4> QED
        BY <2>1, <2>2, <4>1, <4>2 DEF ViewCounter, Building
    <3> QED
      BY <1>2, <3>1, <3>2, <3>3
  <2> QED
    BY <2>1, <2>4, <2>5, <2>6, <2>7, ViewQuiet
<1> QED
  BY <1>1, <1>2

\* The store into the head creates the task, with its id, behind the head.
LEMMA ViewPublish ==
    ASSUME Untorn, CreatePublish
    PROVE  S!Next
<1> USE ConstantsAssumption
<1>0. /\ AnyTicks /\ PTypeOK /\ BuildsItsOwn /\ CallersAndCounter /\ torn = {}
      /\ tasks \subseteq Task /\ fresh \subseteq tasks /\ LinkIsCurrent
  BY DEF Untorn, AnyTicks, PTypeOK, RingWhole
<1> DEFINE n == new[current_task]
<1>1. /\ cpu = "task" /\ current_task \in Task /\ current_task \in tasks
      /\ current_task \in Published /\ ready_list = current_task
      /\ current_task # NULL /\ n \in fresh /\ n \in tasks /\ n \in Task
      /\ UNCHANGED <<tasks, entry, current_task, ready_list, cpu, timer_on>>
  BY <1>0, CreateEffect
<1>2. /\ pc[current_task] = "c_publish"
      /\ next' = [next EXCEPT ![ready_list] = n]
      /\ fresh' = fresh \ {n}
      /\ pc' = [pc EXCEPT ![current_task] = "run"]
      /\ id' = id /\ next_task_id' = next_task_id
  BY DEF CreatePublish, At, Goto
<1>3. pc'[current_task] = "run"
  BY <1>0, <1>1, <1>2 DEF PTypeOK
<1>4. ~Leaving /\ ~Leaving' /\ Building /\ ~Building'
  BY <1>1, <1>2, <1>3 DEF Leaving, Building
<1>5. /\ entry[current_task] # "idle_task" /\ entry[n] = "vm_interpreter_loop"
      /\ id[n] \in CreateIds /\ next_task_id = (id[n] + 1) % IdModulus
  BY <1>0, <1>1, <1>2 DEF CallersAndCounter, CreateLabels
<1>6. ViewCounter = id[n] /\ ViewCounter' = next_task_id
  BY <1>2, <1>4 DEF ViewCounter
<1>7. next[n] = next[ready_list] /\ n # ready_list
  BY <1>0, <1>1, <1>2 DEF LinkIsCurrent, Published
<1> HIDE DEF n
<1>8. /\ Members = Published /\ Members' = Members \cup {n} /\ n \notin Members
      /\ ready_list \in Members /\ Members \subseteq tasks
  BY <1>1, <1>2, <1>4 DEF Members, Published
<1>9. /\ ViewHead = ready_list /\ ViewHead' = ready_list
      /\ ViewCurrent = current_task /\ ViewCurrent' = current_task
      /\ ViewCpu = "task" /\ ViewCpu' = "task"
  BY <1>1, <1>4 DEF ViewHead, ViewCurrent, ViewCpu
<1>10. ViewId' = S!With(ViewId, n, ViewCounter)
  BY <1>2, <1>6, <1>8 DEF ViewId, S!With
<1>11. ViewEntry' = S!With(ViewEntry, n, "vm_interpreter_loop")
  BY <1>1, <1>5, <1>8 DEF ViewEntry, S!With
<1>12. /\ next'[ready_list] = n
       /\ \A x \in Members \cup {n} : x # ready_list => next'[x] = next[x]
  BY <1>0, <1>1, <1>2, <1>8 DEF PTypeOK
<1>13. ViewNext' = [S!With(ViewNext, n, ViewNext[ViewHead]) EXCEPT ![ViewHead] = n]
  <2>1. ViewNext[ViewHead] = next[ready_list]
    BY <1>8, <1>9 DEF ViewNext
  <2>2. S!With(ViewNext, n, ViewNext[ViewHead])
            = [x \in Members \cup {n} |-> IF x = n THEN next[ready_list] ELSE next[x]]
    BY <1>8, <2>1 DEF ViewNext, S!With
  <2>3. [S!With(ViewNext, n, ViewNext[ViewHead]) EXCEPT ![ViewHead] = n]
            = [x \in Members \cup {n} |->
                  IF x = ready_list THEN n
                  ELSE IF x = n THEN next[ready_list] ELSE next[x]]
    BY <1>8, <1>9, <2>2
  <2>4. ViewNext' = [x \in Members \cup {n} |-> next'[x]]
    BY <1>8 DEF ViewNext
  <2>5. \A x \in Members \cup {n} :
            next'[x] = IF x = ready_list THEN n
                       ELSE IF x = n THEN next[ready_list] ELSE next[x]
    BY <1>7, <1>12
  <2> QED
    BY <2>3, <2>4, <2>5
<1>14. S!TaskCreate(n, "vm_interpreter_loop")
  BY <1>1, <1>5, <1>6, <1>8, <1>9, <1>10, <1>11, <1>13 DEF S!TaskCreate, S!InsertTask
<1>15. S!InKernelCall
  BY <1>1, <1>5, <1>8, <1>9 DEF S!InKernelCall, ViewEntry
<1>16. S!LoadApp(n)
  BY <1>1, <1>9, <1>14, <1>15 DEF S!LoadApp
<1> QED
  BY <1>1, <1>16 DEF S!Next

\* The search for the predecessor shows nothing.
LEMMA ViewSearch ==
    ASSUME Untorn, ExitCall \/ ExitScan
    PROVE  UNCHANGED S!vars
<1>0. /\ AnyTicks /\ PTypeOK
      /\ {"run", "x_scan"} \subseteq Labels \ {"x_free", "x_clear"}
  BY DEF Untorn, AnyTicks, Labels, ExitLabels
<1>1. PICK l \in {"run", "x_scan"} : At(l)
  BY DEF ExitCall, ExitScan
<1>2. cpu = "task" /\ current_task \in Task /\ pc[current_task] = l
  BY <1>0, <1>1, AtHead
<1>3. pc'[current_task] \in {"x_scan", "x_unlink"}
  BY <1>0, <1>2 DEF ExitCall, ExitScan, At, Goto, PTypeOK
<1>4. UNCHANGED <<tasks, next, id, entry, ready_list, current_task, next_task_id,
                  timer_on, cpu, fresh>>
  BY DEF ExitCall, ExitScan, vars
<1>5. ~Leaving /\ ~Building /\ ~Leaving' /\ ~Building'
  BY <1>2, <1>3, <1>4 DEF Leaving, Building
<1>6. Members' = Members
  BY <1>4, <1>5 DEF Members, Published
<1>7. /\ ViewHead' = ViewHead /\ ViewCurrent' = ViewCurrent
      /\ ViewCounter' = ViewCounter /\ ViewCpu' = ViewCpu
  BY <1>4, <1>5 DEF ViewHead, ViewCurrent, ViewCounter, ViewCpu
<1> QED
  BY <1>4, <1>6, <1>7, ViewQuiet

\* While nobody has been interrupted on the way out, all published tasks but
\* the one that is leaving take turns.
LEMMA MembersTakeTurns ==
    ASSUME Untorn
    PROVE  Members = Ring
<1> USE ConstantsAssumption
<1>1. /\ \A t \in tasks : pc[t] \in {"x_head", "x_free", "x_clear"} => t = current_task
      /\ ReleasedIsFree /\ tasks \subseteq Task
  BY DEF Untorn, AnyTicks, ExitsFinishUnlessTorn, PTypeOK
<1>2. CASE Leaving
  <2>1. Members = Published \ {current_task} /\ pc[current_task] \in {"x_head", "x_free", "x_clear"}
    BY <1>2 DEF Members, Leaving
  <2>2. current_task \notin Ring
    BY <1>1, <2>1 DEF Ring, Published, ReleasedIsFree
  <2> QED
    BY <1>1, <2>1, <2>2 DEF Ring, Published
<1>3. CASE ~Leaving
  <2>1. Members = Published
    BY <1>3 DEF Members
  <2>2. \A t \in tasks : pc[t] \notin {"x_head", "x_free"}
    BY <1>1, <1>3 DEF Leaving
  <2> QED
    BY <2>1, <2>2 DEF Ring, Published
<1> QED
  BY <1>2, <1>3

\* The store through prev is the exit.
LEMMA ViewUnlink ==
    ASSUME Untorn, ExitUnlink
    PROVE  S!Next
<1> USE ConstantsAssumption
<1>0. /\ AnyTicks /\ PTypeOK /\ CallersAndCounter /\ SearchIsCurrent
      /\ tasks \subseteq Task /\ Cycle(Ring, next)
  BY DEF Untorn, AnyTicks, PTypeOK, RingWhole
<1>1. At("x_unlink") /\ "x_unlink" \in Labels \ {"x_free", "x_clear"}
  BY DEF ExitUnlink, Labels, ExitLabels
<1>2. /\ cpu = "task" /\ pc[current_task] = "x_unlink" /\ ready_list = current_task
      /\ current_task \in Published /\ current_task \in tasks
      /\ current_task \in Task /\ current_task # NULL
  BY <1>0, <1>1, AtHead
<1> DEFINE p == prev[current_task]
<1>3. /\ next' = [x \in tasks |-> IF x = p THEN next[current_task] ELSE next[x]]
      /\ pc' = [pc EXCEPT ![current_task] = "x_head"]
      /\ UNCHANGED <<tasks, id, entry, ready_list, current_task, next_task_id,
                     timer_on, cpu, fresh>>
  BY DEF ExitUnlink, Goto
<1>4. p \in Ring /\ next[p] = current_task
  BY <1>0, <1>2 DEF SearchIsCurrent
<1> HIDE DEF p
<1>5. pc'[current_task] = "x_head"
  BY <1>0, <1>2, <1>3 DEF PTypeOK
<1>6. ~Leaving /\ Leaving' /\ ~Building /\ ~Building'
  BY <1>2, <1>3, <1>5 DEF Leaving, Building
<1>7. /\ Members = Published /\ Members' = Members \ {current_task}
      /\ current_task \in Members /\ Members \subseteq tasks /\ Members = Ring
  BY <1>2, <1>3, <1>6, MembersTakeTurns DEF Members, Published
<1>8. /\ ViewHead = ready_list /\ ViewCurrent = current_task /\ ViewCpu = "task"
      /\ ViewCurrent' = NULL /\ ViewCpu' = "exited"
      /\ ViewCounter' = ViewCounter
  BY <1>2, <1>3, <1>6 DEF ViewHead, ViewCurrent, ViewCpu, ViewCounter
<1>9. next'[current_task] = next[current_task]
  <2>1. next'[current_task] = IF current_task = p THEN next[current_task]
                              ELSE next[current_task]
    BY <1>2, <1>3
  <2> QED
    BY <2>1
<1>10. ViewHead' = IF next[current_task] = current_task THEN NULL ELSE next[current_task]
  BY <1>3, <1>5, <1>6, <1>9 DEF ViewHead
<1>11. /\ ViewNext[current_task] = next[current_task]
       /\ ViewEntry[current_task] = entry[current_task]
  BY <1>7 DEF ViewNext, ViewEntry
<1>12. ViewNext' = S!Unlinked(Members, current_task)
  <2>1. S!Unlinked(Members, current_task)
            = [x \in Members \ {current_task} |->
                  IF next[x] = current_task THEN next[current_task] ELSE next[x]]
    BY <1>7, <1>11 DEF S!Unlinked, ViewNext
  <2>2. ViewNext' = [x \in Members \ {current_task} |-> next'[x]]
    BY <1>7 DEF ViewNext
  <2>3. \A x \in Members \ {current_task} : next[x] = current_task <=> x = p
    BY <1>0, <1>4, <1>7 DEF Cycle
  <2>4. \A x \in Members \ {current_task} :
            next'[x] = IF next[x] = current_task THEN next[current_task] ELSE next[x]
    BY <1>3, <1>7, <2>3
  <2> QED
    BY <2>1, <2>2, <2>4
<1>13. S!Release(current_task)
  BY <1>3, <1>7 DEF S!Release, S!Without, ViewId, ViewEntry
<1>14. entry[current_task] = "vm_interpreter_loop"
  BY <1>0, <1>2 DEF CallersAndCounter, ExitLabels
<1>15. S!TaskDestroyCurrent
  BY <1>2, <1>3, <1>8, <1>10, <1>11, <1>12, <1>13, <1>14 DEF S!TaskDestroyCurrent
<1> QED
  BY <1>15 DEF S!Next

\* What follows in task_destroy_current shows nothing more.
LEMMA ViewLeave ==
    ASSUME Untorn, ExitHead \/ ExitFree \/ ExitClear
    PROVE  UNCHANGED S!vars
<1> USE ConstantsAssumption
<1>0. /\ AnyTicks /\ PTypeOK /\ RunningIsTask /\ HeadIsRunning /\ ReleasedIsFree
      /\ tasks \subseteq Task
  BY DEF Untorn, AnyTicks, PTypeOK
<1>1. /\ cpu = "task" /\ current_task \in Task /\ current_task # NULL
      /\ pc[current_task] \in {"x_head", "x_free", "x_clear"}
  BY <1>0 DEF ExitHead, ExitFree, ExitClear, At, RunningIsTask
<1>2. Leaving /\ ~Building /\ Members = Published \ {current_task}
      /\ ViewCurrent = NULL /\ ViewCpu = "exited" /\ ViewCounter = next_task_id
  BY <1>1 DEF Leaving, Building, Members, ViewCurrent, ViewCpu, ViewCounter
<1>3. CASE ExitHead
  <2>1. /\ pc[current_task] = "x_head"
        /\ pc' = [pc EXCEPT ![current_task] = "x_free"]
        /\ ready_list' = IF current_task # ready_list THEN ready_list
                         ELSE IF next[current_task] = current_task THEN NULL
                         ELSE next[current_task]
        /\ UNCHANGED <<tasks, next, id, entry, current_task, next_task_id,
                       timer_on, cpu, fresh>>
    BY <1>3 DEF ExitHead, At, Goto
  <2>2. pc'[current_task] = "x_free"
    BY <1>0, <1>1, <2>1 DEF PTypeOK
  <2>3. /\ Leaving' /\ ~Building' /\ Members' = Members
        /\ ViewCurrent' = NULL /\ ViewCpu' = "exited" /\ ViewCounter' = next_task_id
    BY <1>1, <1>2, <2>1, <2>2 DEF Leaving, Building, Members, Published, ViewCurrent,
       ViewCpu, ViewCounter
  <2>4. ready_list = current_task
    BY <1>0, <1>1, <2>1 DEF HeadIsRunning
  <2>5. ViewHead = IF next[current_task] = current_task THEN NULL ELSE next[current_task]
    BY <1>2, <2>1 DEF ViewHead
  <2>6. ViewHead' = ready_list'
    BY <2>1, <2>2 DEF ViewHead
  <2> QED
    BY <1>2, <2>1, <2>3, <2>4, <2>5, <2>6, ViewQuiet
<1>4. CASE ExitFree
  <2>1. /\ pc[current_task] = "x_free"
        /\ pc' = [pc EXCEPT ![current_task] = "x_clear"]
        /\ next' = Without(next, current_task) /\ tasks' = tasks \ {current_task}
        /\ id' = Without(id, current_task) /\ entry' = Without(entry, current_task)
        /\ fresh' = fresh \cap tasks'
        /\ UNCHANGED <<ready_list, current_task, next_task_id, timer_on, cpu>>
    BY <1>4 DEF ExitFree, At, Goto, Release
  <2>2. pc'[current_task] = "x_clear"
    BY <1>0, <1>1, <2>1 DEF PTypeOK
  <2>3. Published' = Published \ {current_task}
    BY <2>1 DEF Published
  <2>4. /\ Leaving' /\ ~Building' /\ Members' = Members
        /\ ViewCurrent' = NULL /\ ViewCpu' = "exited" /\ ViewCounter' = next_task_id
    BY <1>1, <1>2, <2>1, <2>2, <2>3 DEF Leaving, Building, Members, ViewCurrent,
       ViewCpu, ViewCounter
  <2>5. \A x \in Members : next'[x] = next[x] /\ id'[x] = id[x] /\ entry'[x] = entry[x]
    BY <1>2, <2>1 DEF Published, Without
  <2>6. ViewHead' = ViewHead
    BY <2>1, <2>2 DEF ViewHead
  <2> QED
    BY <1>2, <2>1, <2>4, <2>5, <2>6, ViewQuiet
<1>5. CASE ExitClear
  <2>1. /\ pc[current_task] = "x_clear" /\ current_task' = NULL /\ cpu' = "exited"
        /\ UNCHANGED <<tasks, next, id, entry, ready_list, next_task_id,
                       timer_on, fresh>>
    BY <1>5 DEF ExitClear, At
  <2>2. ~Leaving' /\ ~Building'
    BY <2>1 DEF Leaving, Building
  <2>3. current_task \notin Published
    BY <1>0, <2>1 DEF Published, ReleasedIsFree
  <2>4. /\ Members' = Members
        /\ ViewCurrent' = NULL /\ ViewCpu' = "exited" /\ ViewCounter' = next_task_id
    BY <1>2, <2>1, <2>2, <2>3 DEF Members, Published, ViewCurrent, ViewCpu, ViewCounter
  <2>5. ViewHead' = ViewHead
    BY <2>1, <2>2 DEF ViewHead
  <2> QED
    BY <1>2, <2>1, <2>4, <2>5, ViewQuiet
<1> QED
  BY <1>3, <1>4, <1>5

\* The walk of task_destroy_by_id finds what the atomic operation finds.
LEMMA ViewKill ==
    ASSUME Untorn, NEW i \in StopIds, KillTask(i)
    PROVE  S!Next
<1> USE ConstantsAssumption
<1>0. /\ AnyTicks /\ PTypeOK /\ RunningIsTask /\ Cycle(Ring, next)
  BY DEF Untorn, AnyTicks, RingWhole
<1>1. /\ pc[current_task] = "run" /\ cpu = "task" /\ current_task \in Published
      /\ ready_list = current_task /\ entry[current_task] # "idle_task"
      /\ id[current_task] # i
      /\ fresh' = fresh /\ ready_list' = ready_list /\ current_task' = current_task
      /\ UNCHANGED <<next_task_id, timer_on, cpu, pc>>
  BY <1>0, KillEffect
<1>2. PICK target \in Linked \cap Published :
          /\ id[target] = i /\ target # ready_list
          /\ tasks' = tasks \ {target} /\ next' = Unlinked(Linked, target)
          /\ id' = Without(id, target) /\ entry' = Without(entry, target)
  BY <1>0, KillEffect
<1>3. ~Leaving /\ ~Building /\ ~Leaving' /\ ~Building'
  BY <1>1 DEF Leaving, Building
<1>4. Members = Published /\ Members = Ring /\ Members \subseteq tasks
  BY <1>3, MembersTakeTurns DEF Members, Published
<1>5. Linked = Members
  <2>1. /\ ready_list \in Ring /\ next[ready_list] \in Ring /\ ready_list # NULL
    BY <1>0, <1>1, <1>4 DEF Cycle, RunningIsTask
  <2> QED
    BY <1>0, <1>1, <1>4, <2>1, LinkedIsRing
<1>6. Members' = Members \ {target} /\ target \in Members /\ current_task \in Members
  BY <1>1, <1>2, <1>3, <1>4 DEF Members, Published
<1>7. /\ ViewHead = ready_list /\ ViewHead' = ready_list
      /\ ViewCurrent = current_task /\ ViewCurrent' = current_task
      /\ ViewCpu = "task" /\ ViewCpu' = "task" /\ ViewCounter' = ViewCounter
  BY <1>1, <1>3 DEF ViewHead, ViewCurrent, ViewCpu, ViewCounter
<1>8. ViewNext' = S!Unlinked(Members, target)
  <2>1. S!Unlinked(Members, target)
            = [x \in Members \ {target} |->
                  IF next[x] = target THEN next[target] ELSE next[x]]
    BY <1>6 DEF S!Unlinked, ViewNext
  <2>2. ViewNext' = [x \in Members \ {target} |-> next'[x]]
    BY <1>6 DEF ViewNext
  <2>3. \A x \in Members \ {target} :
            next'[x] = IF next[x] = target THEN next[target] ELSE next[x]
    BY <1>2, <1>4, <1>5 DEF Unlinked
  <2> QED
    BY <2>1, <2>2, <2>3
<1>9. S!Release(target)
  BY <1>2, <1>4, <1>6 DEF S!Release, S!Without, Without, ViewId, ViewEntry
<1>10. S!DestroyTarget(Members, target)
  BY <1>1, <1>2, <1>7, <1>8, <1>9 DEF S!DestroyTarget
<1>11. ViewId[target] = i /\ ViewId[current_task] # i /\ ViewEntry[current_task] # "idle_task"
  BY <1>1, <1>2, <1>6 DEF ViewId, ViewEntry
<1>12. S!TaskDestroyById(i)
  BY <1>1, <1>6, <1>7, <1>10, <1>11 DEF S!TaskDestroyById, S!InKernelCall
<1> QED
  BY <1>12 DEF S!Next

\* A tick outside the critical labels is a tick.
LEMMA ViewInterrupt ==
    ASSUME Untorn, Interrupt, torn' = {}
    PROVE  S!Next
<1> USE ConstantsAssumption
<1>0. /\ AnyTicks /\ PTypeOK /\ RunningIsTask /\ HeadIsRunning /\ ReleasedIsFree
      /\ Cycle(Ring, next) /\ HeadEntersRing /\ CallersAndCounter /\ torn = {}
      /\ tasks \subseteq Task /\ Ring \subseteq tasks /\ Ring \subseteq Published
  BY DEF Untorn, AnyTicks, PTypeOK, RingWhole, Ring, Published
<1>1. /\ UNCHANGED <<tasks, next, id, entry, next_task_id, timer_on, pc, new, fresh>>
      /\ cpu # "lost" /\ timer_on
      /\ torn' = torn \cup {l \in Critical : cpu = "task" /\ l = pc[current_task]}
  BY <1>0, InterruptEffect DEF Interrupt, Tick, SwitchToNext, FallOffIsr
<1>2. cpu = "task" => pc[current_task] \in {"run", "c_id", "x_clear"}
  BY <1>0, <1>1 DEF Critical, PTypeOK, RunningIsTask
<1>3. cpu # "task" => current_task = NULL
  BY <1>0, <1>1 DEF RunningIsTask, PTypeOK, Modes
<1>4. /\ ~Building
      /\ Leaving => /\ cpu = "task" /\ current_task \notin tasks
                    /\ current_task \in Task /\ pc[current_task] = "x_clear"
  BY <1>0, <1>2, <1>3 DEF Building, Leaving, ReleasedIsFree, RunningIsTask
<1>5. /\ Members = Ring /\ Members = Published /\ ViewHead = ready_list
      /\ ViewCurrent = IF Leaving THEN NULL ELSE current_task
      /\ ViewCpu = IF Leaving THEN "exited" ELSE cpu
      /\ ViewCounter = next_task_id
  <2>1. Members = Published
    BY <1>4 DEF Members, Published
  <2>2. Members = Ring
    BY MembersTakeTurns
  <2> QED
    BY <1>4, <2>1, <2>2 DEF ViewHead, ViewCurrent, ViewCpu, ViewCounter
<1>6. ViewCpu # "lost"
  BY <1>1, <1>5
<1>7. ready_list # NULL =>
          ready_list \in Ring /\ next[ready_list] \in Ring /\ next[ready_list] # NULL
  <2> SUFFICES ASSUME ready_list # NULL
               PROVE  ready_list \in Ring /\ next[ready_list] \in Ring
    BY <1>0
  <2>1. ~(ready_list = current_task /\ pc[current_task] = "x_head")
    BY <1>2, <1>3
  <2>2. ready_list \in Ring
    BY <1>0, <2>1 DEF HeadEntersRing
  <2> QED
    BY <1>0, <2>2 DEF Cycle
<1>8. S!CanSwitch <=> CanSwitch
  <2>1. CASE ready_list = NULL
    BY <1>5, <2>1 DEF CanSwitch, S!CanSwitch
  <2>2. CASE ready_list # NULL
    <3>1. ViewNext[ViewHead] = next[ready_list] /\ ViewHead = ready_list
      BY <1>5, <1>7, <2>2 DEF ViewNext
    <3>2. next[ready_list] = current_task <=> next[ready_list] = ViewCurrent
      BY <1>0, <1>4, <1>5, <1>7, <2>2
    <3> QED
      BY <2>2, <3>1, <3>2 DEF CanSwitch, S!CanSwitch
  <2> QED
    BY <2>1, <2>2
<1>9. CASE CanSwitch /\ cpu' = "task"
  <2>1. ready_list' = next[ready_list] /\ current_task' = next[ready_list]
    BY <1>0, <1>9, InterruptEffect
  <2>2. ready_list # NULL
    BY <1>9 DEF CanSwitch
  <2>3. current_task' \in Ring /\ ready_list \in Ring
    BY <1>7, <2>1, <2>2
  <2>4. pc'[current_task'] \notin {"x_head", "x_free", "x_clear", "c_link", "c_publish"}
    <3>1. pc[current_task'] \notin {"x_head", "x_free", "x_clear"}
      BY <1>0, <2>3 DEF Ring, ReleasedIsFree
    <3>2. \A t \in tasks : pc[t] \in {"c_link", "c_publish"} => t = current_task
      BY <1>0 DEF CallersAndCounter
    <3>3. pc[current_task'] \notin {"c_link", "c_publish"}
      BY <1>0, <1>2, <1>3, <2>3, <3>2
    <3> QED
      BY <1>1, <3>1, <3>3
  <2>5. ~Leaving' /\ ~Building'
    BY <2>4 DEF Leaving, Building
  <2>6. /\ Members' = Members
        /\ ViewHead' = next[ready_list] /\ ViewCurrent' = next[ready_list]
        /\ ViewCpu' = "task" /\ ViewCounter' = ViewCounter
    BY <1>1, <1>5, <1>9, <2>1, <2>5 DEF Members, Published, ViewHead, ViewCurrent,
       ViewCpu, ViewCounter
  <2>7. ViewNext' = ViewNext /\ ViewId' = ViewId /\ ViewEntry' = ViewEntry
    BY <1>1, <2>6 DEF ViewNext, ViewId, ViewEntry
  <2>8. ViewNext[ViewHead] = next[ready_list]
    BY <1>5, <2>3 DEF ViewNext
  <2>9. S!SwitchToNext
    BY <1>1, <1>6, <1>8, <1>9, <2>6, <2>7, <2>8 DEF S!SwitchToNext
  <2> QED
    BY <2>9 DEF S!Next, S!Tick
<1>10. CASE ~CanSwitch /\ cpu' = "lost"
  <2>1. ready_list' = ready_list /\ current_task' = current_task
    BY <1>0, <1>10, InterruptEffect
  <2>2. Leaving' = Leaving /\ ~Building'
    BY <1>1, <1>10, <2>1 DEF Leaving, Building
  <2>3. /\ Members' = Members
        /\ ViewHead' = ViewHead /\ ViewCurrent' = ViewCurrent
        /\ ViewCpu' = "lost" /\ ViewCounter' = ViewCounter
    BY <1>1, <1>5, <1>10, <2>1, <2>2 DEF Members, Published, ViewHead, ViewCurrent,
       ViewCpu, ViewCounter
  <2>4. ViewNext' = ViewNext /\ ViewId' = ViewId /\ ViewEntry' = ViewEntry
    BY <1>1, <2>3 DEF ViewNext, ViewId, ViewEntry
  <2>5. S!FallOffIsr
    BY <1>1, <1>6, <1>8, <1>10, <2>3, <2>4 DEF S!FallOffIsr
  <2> QED
    BY <2>5 DEF S!Next, S!Tick
<1> QED
  BY <1>0, <1>9, <1>10, InterruptEffect

\* Every step is one of Scheduler, or shows nothing, or a tick has hit a
\* critical label.
LEMMA ViewStep ==
    ASSUME AnyTicks, RingUntorn => RingWhole, ExitsFinishUnlessTorn,
           CallersAndCounter, [PNext]_pvars
    PROVE  [torn' # {} \/ S!Next]_(S!vars)
<1> SUFFICES ASSUME torn' = {} PROVE S!Next \/ UNCHANGED S!vars
  OBVIOUS
<1>1. torn = {}
  BY TornGrows
<1>2. Untorn
  BY <1>1 DEF Untorn, RingUntorn
<1>3. CASE \E t \in Task : Boot(t)
  BY <1>2, <1>3, ViewBoot
<1>4. CASE (\E t \in Task : CreateAlloc(t)) \/ CreateReadId \/ CreateStoreId \/ CreateLink
  BY <1>2, <1>4, ViewBuild
<1>5. CASE CreatePublish
  BY <1>2, <1>5, ViewPublish
<1>6. CASE ExitCall \/ ExitScan
  BY <1>2, <1>6, ViewSearch
<1>7. CASE ExitMissed
  BY <1>2, <1>7, SearchSucceeds DEF Untorn
<1>8. CASE ExitUnlink
  BY <1>2, <1>8, ViewUnlink
<1>9. CASE ExitHead \/ ExitFree \/ ExitClear
  BY <1>2, <1>9, ViewLeave
<1>10. CASE \E i \in StopIds : KillTask(i)
  BY <1>2, <1>10, ViewKill
<1>11. CASE Interrupt
  BY <1>2, <1>11, ViewInterrupt
<1>12. CASE UNCHANGED pvars
  <2>1. UNCHANGED <<tasks, next, id, entry, ready_list, current_task, next_task_id,
                    timer_on, cpu, pc, new, fresh>>
    BY <1>12 DEF pvars, vars, locals
  <2>2. Leaving' = Leaving /\ Building' = Building
    BY <2>1 DEF Leaving, Building
  <2>3. Members' = Members
    BY <2>1, <2>2 DEF Members, Published
  <2>4. /\ ViewHead' = ViewHead /\ ViewCurrent' = ViewCurrent
        /\ ViewCounter' = ViewCounter /\ ViewCpu' = ViewCpu
    BY <2>1, <2>2 DEF ViewHead, ViewCurrent, ViewCounter, ViewCpu
  <2> QED
    BY <2>1, <2>3, <2>4, ViewQuiet
<1> QED
  BY <1>3, <1>4, <1>5, <1>6, <1>7, <1>8, <1>9, <1>10, <1>11, <1>12 DEF PNext

\* task_create and task_destroy_current, taken apart into their accesses and
\* interleaved with ticks, implement the atomic operations of Scheduler until
\* a tick lands inside one of their critical sections: every step is a step
\* of Scheduler or changes nothing there.
THEOREM CallsAreAtomic == PSpec => AtomicCalls
<1>1. AnyTicks /\ (RingUntorn => RingWhole) /\ ExitsFinishUnlessTorn
          /\ CallersAndCounter /\ [PNext]_pvars
          => [torn' # {} \/ S!Next]_(S!vars)
  BY ViewStep
<1> QED
  BY <1>1, ViewInit, AlwaysAnyTicks, AlwaysRingWhole, ExitsFinish, AlwaysCallers, PTL
     DEF PSpec, AtomicCalls
=============================================================================
