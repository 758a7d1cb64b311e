----------------------------- MODULE Scheduler -----------------------------
(***************************************************************************)
(* The round-robin scheduler of kernel/scheduler/scheduler.c at the grain  *)
(* of its functions: the ring of Task structures, the two globals that     *)
(* point into it (ready_list, current_task), the id counter, and the core  *)
(* timer interrupt that switches tasks.  Here a tick lands between two     *)
(* calls of the scheduler's functions, never inside one; module            *)
(* SchedPreempt opens the functions up.                                    *)
(*                                                                         *)
(* A failing mem_alloc makes task_create return NULL with nothing changed: *)
(* a stuttering step, as is task_destroy_by_id of an id nobody has.        *)
(***************************************************************************)
EXTENDS Naturals, FiniteSets

CONSTANTS
    Task,       \* the Task structures the heap can hold at the same time
    NULL,       \* the null pointer
    IdModulus,  \* next_task_id is a uint32_t: it wraps at this value (2^32)
    CreateIds,  \* the values of the counter with which tasks are created: all
                \* of Ids, or fewer where it is to stop before it wraps
    StopIds     \* the ids that callers pass to task_destroy_by_id

Ids == 0 .. IdModulus - 1

ASSUME ConstantsAssumption ==
    /\ NULL \notin Task
    /\ IdModulus \in Nat /\ IdModulus > 1
    /\ CreateIds \subseteq Ids
    /\ StopIds \subseteq Ids

\* The counter is not allowed to come round to 0 and start again.
NoWrap == CreateIds \subseteq 1 .. IdModulus - 1

VARIABLES
    tasks,          \* the structures that are allocated
    next,           \* task->next
    id,             \* task->id
    entry,          \* task->entry, the function the task runs
    ready_list,     \* head of the ring
    current_task,   \* the task whose context the next tick saves
    next_task_id,
    timer_on,       \* the core timer interrupt is enabled
    cpu             \* what the processor executes, see Modes

vars == <<tasks, next, id, entry, ready_list, current_task, next_task_id,
          timer_on, cpu>>

\* "boot":   the code that initialises the kernel, on the boot stack;
\* "task":   the entry function of current_task;
\* "exited": the idle loop of task_exit_handler, after the task is gone;
\* "lost":   past the end of core_timer_isr, which has no eret.
Modes == {"boot", "task", "exited", "lost"}

Entries == {"idle_task", "event_dispatcher", "vm_interpreter_loop"}

TypeOK ==
    /\ tasks \subseteq Task
    /\ next \in [tasks -> Task]
    /\ id \in [tasks -> Ids]
    /\ entry \in [tasks -> Entries]
    /\ ready_list \in tasks \cup {NULL}
    /\ current_task \in tasks \cup {NULL}
    /\ next_task_id \in Ids
    /\ timer_on \in BOOLEAN
    /\ cpu \in Modes

Init ==
    /\ tasks = {}
    /\ next = [t \in {} |-> NULL]
    /\ id = [t \in {} |-> 0]
    /\ entry = [t \in {} |-> "idle_task"]
    /\ ready_list = NULL
    /\ current_task = NULL
    /\ next_task_id = 1
    /\ timer_on = FALSE
    /\ cpu = "boot"

-----------------------------------------------------------------------------
(* Creation. *)

\* The field f with the value v for the new structure t.
With(f, t, v) == [x \in tasks \cup {t} |-> IF x = t THEN v ELSE f[x]]

\* insert_task: the new task goes right behind the head of the ring.
InsertTask(t) ==
    IF ready_list = NULL
    THEN /\ ready_list' = t
         /\ next' = With(next, t, t)
    ELSE /\ ready_list' = ready_list
         /\ next' = [With(next, t, next[ready_list]) EXCEPT ![ready_list] = t]

\* task_create: t is the structure mem_alloc returns.
TaskCreate(t, e) ==
    /\ t \notin tasks
    /\ next_task_id \in CreateIds
    /\ tasks' = tasks \cup {t}
    /\ id' = With(id, t, next_task_id)
    /\ entry' = With(entry, t, e)
    /\ next_task_id' = (next_task_id + 1) % IdModulus
    /\ InsertTask(t)

\* event_system_init, called once by the boot code.
EventSystemInit(t) ==
    /\ cpu = "boot"
    /\ \A x \in tasks : entry[x] # "event_dispatcher"
    /\ TaskCreate(t, "event_dispatcher")
    /\ UNCHANGED <<current_task, timer_on, cpu>>

\* scheduler_init, called once by the boot code.  task_create has put the
\* idle task in the ring, so ready_list is never NULL where it is tested.
SchedulerInit(t) ==
    /\ cpu = "boot"
    /\ ~timer_on
    /\ TaskCreate(t, "idle_task")
    /\ current_task' = IF ready_list' = NULL THEN t ELSE NULL
    /\ timer_on' = TRUE
    /\ UNCHANGED cpu

\* The running task executes kernel code on behalf of an application or of
\* an event handler.  The idle task calls nothing.
InKernelCall == cpu = "task" /\ entry[current_task] # "idle_task"

\* kernel_load_app reaches task_create: from the boot code, from the intent
\* of a running application or from an event handler.
LoadApp(t) ==
    /\ cpu = "boot" \/ InKernelCall
    /\ TaskCreate(t, "vm_interpreter_loop")
    /\ UNCHANGED <<current_task, timer_on, cpu>>

-----------------------------------------------------------------------------
(* Destruction. *)

Without(f, t) == [x \in tasks \ {t} |-> f[x]]

\* t taken out of the ring with the members S: its predecessor points to its
\* successor.
Unlinked(S, t) ==
    [x \in tasks \ {t} |-> IF x \in S /\ next[x] = t THEN next[t] ELSE next[x]]

\* The structure of t is freed.
Release(t) ==
    /\ tasks' = tasks \ {t}
    /\ id' = Without(id, t)
    /\ entry' = Without(entry, t)

\* Mutant of task_destroy_current: ready_list is left on the freed structure.
TaskDestroyCurrentKeepsHead ==
    /\ cpu = "task"
    /\ entry[current_task] = "vm_interpreter_loop"
    /\ next' = Unlinked(tasks, current_task)
    /\ Release(current_task)
    /\ current_task' = NULL
    /\ cpu' = "exited"
    /\ UNCHANGED <<ready_list, next_task_id, timer_on>>

\* vm_interpreter_loop returns into task_exit_handler, which calls
\* task_destroy_current and then idles for ever on the freed stack.  The
\* other entry functions never return.
TaskDestroyCurrent ==
    /\ cpu = "task"
    /\ entry[current_task] = "vm_interpreter_loop"
    /\ next' = Unlinked(tasks, current_task)
    /\ ready_list' = IF current_task # ready_list THEN ready_list
                     ELSE IF next[current_task] = current_task THEN NULL
                     ELSE next[current_task]
    /\ Release(current_task)
    /\ current_task' = NULL
    /\ cpu' = "exited"
    /\ UNCHANGED <<next_task_id, timer_on>>

\* The target is taken out of the ring S and freed.  When it is the head the
\* code moves ready_list on and leaves the predecessor pointing at the freed
\* structure: the self-kill test is what keeps that case away.
DestroyTarget(S, target) ==
    /\ IF target = ready_list
       THEN /\ ready_list' = IF next[target] = target THEN NULL
                             ELSE next[target]
            /\ next' = Without(next, target)
       ELSE /\ ready_list' = ready_list
            /\ next' = Unlinked(S, target)
    /\ current_task' = IF current_task = target THEN NULL ELSE current_task
    /\ Release(target)

\* Mutant of task_destroy_by_id: a task may kill itself.
TaskDestroyByIdSelf(i) ==
    /\ InKernelCall
    /\ \E target \in tasks : id[target] = i /\ DestroyTarget(tasks, target)
    /\ UNCHANGED <<next_task_id, timer_on, cpu>>

\* task_destroy_by_id(i).  Ids in use are distinct (UniqueIds) unless the
\* counter has wrapped; then the loop may meet any of the equal ones first.
TaskDestroyById(i) ==
    /\ InKernelCall
    /\ id[current_task] # i
    /\ \E target \in tasks : id[target] = i /\ DestroyTarget(tasks, target)
    /\ UNCHANGED <<next_task_id, timer_on, cpu>>

-----------------------------------------------------------------------------
(* The core timer interrupt. *)

\* Mutant of switch_to_next: the next task is compared with the head.
CanSwitchFromHead == ready_list # NULL /\ next[ready_list] # ready_list

\* switch_to_next finds another task to run.
CanSwitch == ready_list # NULL /\ next[ready_list] # current_task

\* Mutant of switch_to_next: ready_list does not follow the running task.
SwitchToNextHeadStays ==
    /\ timer_on
    /\ cpu # "lost"
    /\ CanSwitch
    /\ current_task' = next[ready_list]
    /\ cpu' = "task"
    /\ UNCHANGED <<tasks, next, id, entry, next_task_id, timer_on, ready_list>>

\* Mutant of switch_to_next: the task behind the next one is taken.
SwitchToNextSkipsOne ==
    /\ timer_on
    /\ cpu # "lost"
    /\ CanSwitch
    /\ ready_list' = next[next[ready_list]]
    /\ current_task' = next[next[ready_list]]
    /\ cpu' = "task"
    /\ UNCHANGED <<tasks, next, id, entry, next_task_id, timer_on>>

\* core_timer_isr saves the context of current_task, if there is one, and
\* switch_to_next restores that of the task behind the head.
SwitchToNext ==
    /\ timer_on
    /\ cpu # "lost"
    /\ CanSwitch
    /\ ready_list' = next[ready_list]
    /\ current_task' = next[ready_list]
    /\ cpu' = "task"
    /\ UNCHANGED <<tasks, next, id, entry, next_task_id, timer_on>>

\* switch_to_next returns, timer_callback returns, and the last instruction
\* of core_timer_isr is the nop behind the call: no eret, no branch.
FallOffIsr ==
    /\ timer_on
    /\ cpu # "lost"
    /\ ~CanSwitch
    /\ cpu' = "lost"
    /\ UNCHANGED <<tasks, next, id, entry, ready_list, current_task,
                   next_task_id, timer_on>>

Tick == SwitchToNext \/ FallOffIsr

Next ==
    \/ \E t \in Task : EventSystemInit(t) \/ SchedulerInit(t) \/ LoadApp(t)
    \/ TaskDestroyCurrent
    \/ \E i \in StopIds : TaskDestroyById(i)
    \/ Tick

Spec == Init /\ [][Next]_vars

\* The core timer is periodic hardware: arch_systick_tick re-arms Compare on
\* every interrupt and every task starts with interrupts enabled.  Nothing
\* obliges a task to create, kill or exit.
FairSpec == Spec /\ WF_vars(Tick)

-----------------------------------------------------------------------------
(* What the scheduler must keep. *)

\* Following next never leaves the allocated structures: no freed Task is
\* reachable from the ring.
RingClosed == \A t \in tasks : next[t] \in tasks

\* Every task has exactly one predecessor, so unlinking repairs one pointer.
OnePredecessor ==
    /\ \A t \in tasks : \E p \in tasks : next[p] = t
    /\ \A s, t \in tasks : next[s] = next[t] => s = t

\* There is one cycle: a set of tasks closed under next is all of them, so
\* no task drops out of the rotation.
SingleCycle ==
    \A S \in SUBSET tasks :
        (S # {} /\ \A t \in S : next[t] \in S) => S = tasks

\* The ring of scheduler.c is intact between calls: it is one cycle through
\* every allocated task and nothing else, entered at ready_list.
RingIntact ==
    /\ ready_list = NULL <=> tasks = {}
    /\ RingClosed
    /\ OnePredecessor
    /\ SingleCycle

\* The running task is the head of the ring: this is what makes the self-kill
\* test of task_destroy_by_id also protect the head, whose removal the
\* function gets wrong, and what makes insertion "behind the head" mean
\* "next to run".
HeadIsCurrent ==
    /\ cpu = "task" => current_task # NULL /\ ready_list = current_task
    /\ cpu \in {"boot", "exited"} => current_task = NULL

\* core_timer_isr runs off its end only when nothing but the interrupted
\* task is left to run.
LostOnlyWhenAlone == cpu = "lost" => tasks \subseteq {current_task}

\* task->id identifies the task for as long as it lives.
UniqueIds == \A s, t \in tasks : id[s] = id[t] => s = t

\* As long as a task can still be created the counter is above every id in
\* use.
FreshIds == next_task_id \in CreateIds => \A t \in tasks : id[t] < next_task_id

\* Round robin: once no more tasks are created, every task in the ring gets the
\* processor, whatever exits and kills follow, unless it is killed first or the
\* interrupt handler has run off its end.  Without the premise it fails: a new
\* task goes in front of all that wait, and the tick after an exit skips the
\* successor of the task that ended, so that creations without end starve it.
EveryTaskRuns ==
    <>[][tasks' \subseteq tasks]_vars =>
        \A t \in Task :
            t \in tasks /\ timer_on
                ~> current_task = t \/ t \notin tasks \/ cpu = "lost"

-----------------------------------------------------------------------------
(* The queue that the pointers stand for. *)

\* The ring read as a sequence, from ready_list along next.
RingSeq ==
    LET walk[n \in 1 .. Cardinality(tasks)] ==
            IF n = 1 THEN ready_list ELSE next[walk[n - 1]]
    IN  walk

RR == INSTANCE RoundRobin WITH
        ring <- RingSeq, running <- current_task, stopped <- cpu = "lost"

\* The pointer ring of scheduler.c implements the queue of RoundRobin: every
\* call and every tick does to the ring what the queue operation does to the
\* sequence, in the order the tasks will run.
RoundRobinImplemented == RR!RRSpec
=============================================================================
