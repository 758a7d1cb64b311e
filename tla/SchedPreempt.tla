---------------------------- MODULE SchedPreempt ---------------------------
(***************************************************************************)
(* scheduler.c with task_create and task_destroy_current opened up: a core *)
(* timer tick may land between their accesses to the shared ring, the id   *)
(* counter and the two globals.  Neither function disables interrupts, so  *)
(* in the code every label is a tick point; "torn" records at which of the *)
(* labels that need a critical section a tick has landed, and every        *)
(* property says which of them it depends on.                              *)
(* task_destroy_by_id and switch_to_next run with interrupts disabled and  *)
(* stay one step.                                                          *)
(***************************************************************************)
EXTENDS Scheduler, FiniteSets

CONSTANTS
    MaxTorn,      \* bound: the critical labels hit by ticks in one behaviour
    Calls         \* bound: what the running tasks call

\* The label of a task names the access it does next.
\*   run         outside the scheduler's functions
\*   c_id        read next_task_id                    (task_create)
\*   c_id_store  store next_task_id + 1, fill the structure
\*   c_link      task->next = ready_list->next        (insert_task)
\*   c_publish   ready_list->next = task
\*   x_scan      one turn of the search for prev      (task_destroy_current)
\*   x_unlink    prev->next = current_task->next
\*   x_head      the update of ready_list
\*   x_free      event, VM reference, mem_free of the three blocks
\*   x_clear     current_task = NULL
CreateLabels == {"c_id", "c_id_store", "c_link", "c_publish"}
ExitLabels == {"x_scan", "x_unlink", "x_head", "x_free", "x_clear"}
Labels == {"run"} \cup CreateLabels \cup ExitLabels

\* Inside a read-modify-write of the counter or of the ring, or between the
\* unlinking of a task and the end of its release.
Critical == Labels \ {"run", "c_id", "x_clear"}

ASSUME PreemptAssumption ==
    /\ MaxTorn \in Nat
    /\ Calls \subseteq {"create", "kill", "exit"}

VARIABLES
    pc,       \* where each task is
    new,      \* task_create's local: the structure being built
    id_read,  \* task_create's register: the counter it has read
    prev,     \* task_destroy_current's local
    fresh,    \* structures allocated by task_create and not yet in the ring
    torn      \* history: the critical labels at which a tick has landed

locals == <<pc, new, id_read, prev, fresh, torn>>
pvars == <<vars, locals>>

PTypeOK ==
    /\ tasks \subseteq Task /\ fresh \subseteq tasks
    /\ next \in [tasks -> Task \cup {NULL}]
    /\ id \in [tasks -> Ids]
    /\ entry \in [tasks -> Entries]
    /\ ready_list \in Task \cup {NULL}
    /\ current_task \in Task \cup {NULL}
    /\ next_task_id \in Ids
    /\ timer_on \in BOOLEAN
    /\ cpu \in Modes
    /\ pc \in [Task -> Labels]
    /\ new \in [Task -> Task \cup {NULL}]
    /\ id_read \in [Task -> Ids]
    /\ prev \in [Task -> Task \cup {NULL}]
    /\ torn \subseteq Critical

PInit ==
    /\ Init
    /\ pc = [t \in Task |-> "run"]
    /\ new = [t \in Task |-> NULL]
    /\ id_read = [t \in Task |-> 0]
    /\ prev = [t \in Task |-> NULL]
    /\ fresh = {}
    /\ torn = {}

\* The structures that insert_task has put in the ring and nobody has freed.
Published == tasks \ fresh

\* The structures a walk along next visits, wherever it starts in the ring; a
\* freed or half-built one is visited but not followed.
Linked ==
    LET closed == {S \in SUBSET Task :
                      /\ next[ready_list] \in S
                      /\ \A x \in S \cap Published : next[x] \in S}
    IN  IF ready_list = NULL THEN {}
        ELSE IF ready_list \notin Published THEN {ready_list}
        ELSE {t \in Task : \A S \in closed : t \in S}

\* No freed structure is in the ring, and none that task_create is still
\* filling (as when a freed one is allocated again).  The model stops where
\* this is false: what the code does next depends on what the heap put there.
RingNeverDangles ==
    \/ ready_list = NULL
    \/ \E S \in SUBSET Published : ready_list \in S /\ \A x \in S : next[x] \in S

-----------------------------------------------------------------------------
(* The boot code loads its applications before it enables the timer        *)
(* (bound), so its calls are not interrupted.                              *)

Boot(t) ==
    /\ cpu = "boot" /\ ~timer_on
    /\ EventSystemInit(t) \/ SchedulerInit(t) \/ LoadApp(t)
    /\ UNCHANGED locals

-----------------------------------------------------------------------------
(* task_create, by the running task.                                       *)

At(label) == cpu = "task" /\ pc[current_task] = label /\ RingNeverDangles

Goto(label) == pc' = [pc EXCEPT ![current_task] = label]

\* The three mem_allocs have succeeded and gave the structure t, whose
\* context starts it in its entry function.
CreateAlloc(t) ==
    /\ "create" \in Calls
    /\ At("run") /\ InKernelCall
    /\ t \notin tasks
    /\ tasks' = tasks \cup {t} /\ fresh' = fresh \cup {t}
    /\ next' = With(next, t, NULL)
    /\ id' = With(id, t, 0)
    /\ entry' = With(entry, t, "vm_interpreter_loop")
    /\ new' = [new EXCEPT ![current_task] = t, ![t] = NULL]
    /\ prev' = [prev EXCEPT ![t] = NULL]
    /\ pc' = [pc EXCEPT ![current_task] = "c_id", ![t] = "run"]
    /\ UNCHANGED <<ready_list, current_task, next_task_id, timer_on, cpu, id_read, torn>>

CreateReadId ==
    /\ At("c_id")
    /\ next_task_id \in CreateIds
    /\ id_read' = [id_read EXCEPT ![current_task] = next_task_id]
    /\ Goto("c_id_store")
    /\ UNCHANGED <<vars, new, prev, fresh, torn>>

\* Mutant of task_create: the counter is not advanced.
CreateStoreSameId ==
    /\ At("c_id_store")
    /\ next_task_id' = id_read[current_task]
    /\ id' = [id EXCEPT ![new[current_task]] = id_read[current_task]]
    /\ id_read' = [id_read EXCEPT ![current_task] = 0]
    /\ Goto("c_link")
    /\ UNCHANGED <<tasks, next, entry, ready_list, current_task, timer_on, cpu,
                   new, prev, fresh, torn>>

CreateStoreId ==
    /\ At("c_id_store")
    /\ next_task_id' = (id_read[current_task] + 1) % IdModulus
    /\ id' = [id EXCEPT ![new[current_task]] = id_read[current_task]]
    /\ id_read' = [id_read EXCEPT ![current_task] = 0]
    /\ Goto("c_link")
    /\ UNCHANGED <<tasks, next, entry, ready_list, current_task, timer_on, cpu,
                   new, prev, fresh, torn>>

\* Mutant of insert_task: linked to the head itself, not to its successor.
CreateLinkToHead ==
    /\ At("c_link")
    /\ next' = [next EXCEPT ![new[current_task]] = ready_list]
    /\ Goto("c_publish")
    /\ UNCHANGED <<tasks, id, entry, ready_list, current_task, next_task_id,
                   timer_on, cpu, new, id_read, prev, fresh, torn>>

\* The creator runs, so the ring is not empty: the else branch of insert_task.
CreateLink ==
    /\ At("c_link")
    /\ next' = [next EXCEPT ![new[current_task]] = next[ready_list]]
    /\ Goto("c_publish")
    /\ UNCHANGED <<tasks, id, entry, ready_list, current_task, next_task_id,
                   timer_on, cpu, new, id_read, prev, fresh, torn>>

CreatePublish ==
    /\ At("c_publish")
    /\ next' = [next EXCEPT ![ready_list] = new[current_task]]
    /\ fresh' = fresh \ {new[current_task]}
    /\ new' = [new EXCEPT ![current_task] = NULL]
    /\ Goto("run")
    /\ UNCHANGED <<tasks, id, entry, ready_list, current_task, next_task_id,
                   timer_on, cpu, id_read, prev, torn>>

-----------------------------------------------------------------------------
(* task_destroy_current, called when the entry function returns.           *)

ExitCall ==
    /\ "exit" \in Calls
    /\ At("run") /\ entry[current_task] = "vm_interpreter_loop"
    /\ prev' = [prev EXCEPT ![current_task] = ready_list]
    /\ Goto("x_scan")
    /\ UNCHANGED <<vars, new, id_read, fresh, torn>>

\* One turn of the while loop.  prev may have been freed by its own exit or
\* by a kill while this task was preempted: then the load returns anything.
ExitScan ==
    /\ At("x_scan")
    /\ LET p == prev[current_task] IN
       \E n \in IF p \in tasks THEN {next[p]} ELSE Task :
          IF n = current_task
          THEN Goto("x_unlink") /\ UNCHANGED prev
          ELSE IF n = ready_list
          THEN Goto("x_unlink") /\ prev' = [prev EXCEPT ![current_task] = n]
          ELSE UNCHANGED pc /\ prev' = [prev EXCEPT ![current_task] = n]
    /\ UNCHANGED <<vars, new, id_read, fresh, torn>>

\* The test behind the loop reads prev->next once more, and finds that the
\* loop ended without a predecessor or that a tick has changed it since.
ExitMissed ==
    /\ At("x_unlink")
    /\ LET p == prev[current_task] IN p \in tasks => next[p] # current_task
    /\ prev' = [prev EXCEPT ![current_task] = NULL]
    /\ Goto("x_free")
    /\ UNCHANGED <<vars, new, id_read, fresh, torn>>

\* The test succeeds, perhaps before a tick that makes it false: then prev no
\* longer is the predecessor, and a store through a prev that has been freed
\* changes no pointer of the ring.
ExitUnlink ==
    /\ At("x_unlink")
    /\ next' = [x \in tasks |-> IF x = prev[current_task]
                                THEN next[current_task] ELSE next[x]]
    /\ prev' = [prev EXCEPT ![current_task] = NULL]
    /\ Goto("x_head")
    /\ UNCHANGED <<tasks, id, entry, ready_list, current_task, next_task_id,
                   timer_on, cpu, new, id_read, fresh, torn>>

\* Mutant of task_destroy_current: the head stays on the leaving task.
ExitHeadStays ==
    /\ At("x_head")
    /\ Goto("x_free")
    /\ UNCHANGED <<vars, new, id_read, prev, fresh, torn>>

\* Mutant of task_destroy_current: current_task is cleared before the event
\* is sent and the memory freed.
ExitHeadClearFirst ==
    /\ At("x_head")
    /\ ready_list' = IF current_task # ready_list THEN ready_list
                     ELSE IF next[current_task] = current_task THEN NULL
                     ELSE next[current_task]
    /\ Goto("x_clear")
    /\ UNCHANGED <<tasks, next, id, entry, current_task, next_task_id,
                   timer_on, cpu, new, id_read, prev, fresh, torn>>

ExitHead ==
    /\ At("x_head")
    /\ ready_list' = IF current_task # ready_list THEN ready_list
                     ELSE IF next[current_task] = current_task THEN NULL
                     ELSE next[current_task]
    /\ Goto("x_free")
    /\ UNCHANGED <<tasks, next, id, entry, current_task, next_task_id,
                   timer_on, cpu, new, id_read, prev, fresh, torn>>

ExitFree ==
    /\ At("x_free")
    /\ next' = Without(next, current_task)
    /\ Release(current_task)
    /\ fresh' = fresh \cap tasks'
    /\ Goto("x_clear")
    /\ UNCHANGED <<ready_list, current_task, next_task_id, timer_on, cpu,
                   new, id_read, prev, torn>>

ExitClear ==
    /\ At("x_clear")
    /\ current_task' = NULL
    /\ cpu' = "exited"
    /\ Goto("run")
    /\ UNCHANGED <<tasks, next, id, entry, ready_list, next_task_id, timer_on,
                   new, id_read, prev, fresh, torn>>

-----------------------------------------------------------------------------
(* The two operations that run with interrupts disabled.                   *)

\* task_destroy_by_id searches the ring only: a structure that another task
\* is still building, or has taken out, is not found.  What the killed task
\* was doing is abandoned where it was.
KillTask(i) ==
    /\ "kill" \in Calls
    /\ At("run") /\ InKernelCall
    /\ id[current_task] # i
    /\ \E target \in Linked : id[target] = i /\ DestroyTarget(Linked, target)
    /\ fresh' = fresh \cap tasks'
    /\ UNCHANGED <<next_task_id, timer_on, cpu, pc, new, id_read, prev, torn>>

Interrupt ==
    /\ RingNeverDangles
    /\ Tick
    /\ torn' = torn \cup {l \in Critical : cpu = "task" /\ l = pc[current_task]}
    /\ Cardinality(torn') <= MaxTorn
    /\ UNCHANGED <<pc, new, id_read, prev, fresh>>

-----------------------------------------------------------------------------

PNext ==
    \/ \E t \in Task : Boot(t) \/ CreateAlloc(t)
    \/ CreateReadId \/ CreateStoreId \/ CreateLink \/ CreatePublish
    \/ ExitCall \/ ExitScan \/ ExitMissed \/ ExitUnlink
    \/ ExitHead \/ ExitFree \/ ExitClear
    \/ \E i \in StopIds : KillTask(i)
    \/ Interrupt

PSpec == PInit /\ [][PNext]_pvars

-----------------------------------------------------------------------------

\* The running task has left the ring and not finished leaving.
Leaving ==
    current_task # NULL /\ pc[current_task] \in {"x_head", "x_free", "x_clear"}

\* A task that has been put in the ring stays in it until it destroys itself
\* or is destroyed: no interleaved pointer update makes the rotation forget it.
NoTaskDropped ==
    \A t \in Published : t \in Linked \/ pc[t] \in {"x_head", "x_free"}

\* No freed Task structure comes back into the ring, and no task is dropped
\* from it, unless a tick has landed between the two stores of insert_task, or
\* between the search of task_destroy_current and its store.
RingWholeUnlessTorn ==
    torn \cap {"c_publish", "x_scan", "x_unlink"} = {} =>
        RingNeverDangles /\ NoTaskDropped

\* The running task is the head of the ring, until task_destroy_current has
\* moved the head, wherever ticks land: insert_task and the self-kill test
\* rely on it.
HeadIsRunning ==
    cpu = "task" =>
        ready_list = current_task \/ pc[current_task] \in {"x_free", "x_clear"}

\* What holds wherever ticks land: the variables keep their types, and the
\* running task is the head of the ring.
PreemptInvariant == PTypeOK /\ HeadIsRunning

\* Two tasks of the ring have the same id only if a tick has landed between
\* the load and the store of next_task_id++.
IdsClashOnlyIfTorn ==
    "c_id_store" \notin torn =>
        \A s, t \in Linked \cap Published : id[s] = id[t] => s = t

\* A task that has left the ring finishes its exit, so that its event is sent
\* and its memory freed, unless a tick has switched away from it right there.
ExitsFinishUnlessTorn ==
    torn \cap {"x_head", "x_free"} = {} =>
        \A t \in tasks : pc[t] \in {"x_head", "x_free", "x_clear"} => t = current_task

-----------------------------------------------------------------------------
(* The functions of scheduler.c as atomic operations: module Scheduler.    *)

\* A task counts as gone from the moment its predecessor no longer points to
\* it, and as created from the moment the head points to it; the counter
\* counts as advanced at the same moment.
Members == Published \ IF Leaving THEN {current_task} ELSE {}
Building == cpu = "task" /\ pc[current_task] \in {"c_link", "c_publish"}

ViewNext == [t \in Members |-> next[t]]
ViewId == [t \in Members |-> id[t]]
ViewEntry == [t \in Members |-> entry[t]]
ViewHead ==
    IF ~(Leaving /\ pc[current_task] = "x_head") THEN ready_list
    ELSE IF next[current_task] = current_task THEN NULL
    ELSE next[current_task]
ViewCurrent == IF Leaving THEN NULL ELSE current_task
ViewCounter == IF Building THEN id[new[current_task]] ELSE next_task_id
ViewCpu == IF Leaving /\ cpu = "task" THEN "exited" ELSE cpu

S == INSTANCE Scheduler WITH
        tasks <- Members, next <- ViewNext, id <- ViewId, entry <- ViewEntry,
        ready_list <- ViewHead, current_task <- ViewCurrent,
        next_task_id <- ViewCounter, cpu <- ViewCpu

\* As long as no tick has landed inside a critical label the functions of
\* scheduler.c are atomic: every step of theirs is a step of Scheduler or
\* changes nothing there.
AtomicCalls == S!Init /\ [][torn' # {} \/ S!Next]_(S!vars)
=============================================================================
