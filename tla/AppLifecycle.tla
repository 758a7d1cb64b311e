---------------------------- MODULE AppLifecycle ---------------------------
(***************************************************************************)
(* The life of an application: kernel_load_app (kernel/loader/app_loader.c)*)
(* makes a VM and a task that interprets it, and stores the VM in the      *)
(* task's priv_data; the task's end or its killing drops the reference the *)
(* task holds on the VM (kernel/vm/vm_core.c, kernel/scheduler/scheduler.c)*)
(* The task and the VM of an application have one name; the scheduler may  *)
(* run the live tasks in any order.                                        *)
(***************************************************************************)
EXTENDS Naturals

CONSTANTS
    App,        \* the VMContext structures the heap can hold at the same time
    BOOT,       \* the boot code, which also loads applications
    NULL,
    Happens     \* bound: the incidents that happen in the runs of the system

\* A task is killed, task_create fails, a tick lands in kernel_load_app between
\* task_create and the store to priv_data, or in task_destroy_current after the
\* task has left the ring.
Incidents == {"kill", "task_fail", "tick_before_priv", "lost_exit"}

ASSUME AppAssumption ==
    /\ BOOT \notin App /\ NULL \notin App \cup {BOOT}
    /\ Happens \subseteq Incidents

Loader == App \cup {BOOT}

VARIABLES
    state,      \* vm->state, "free" while the structure is not allocated
    ref_count,  \* vm->ref_count
    task,       \* the application's task is in the ring
    priv_data,  \* task->priv_data points to the VM
    loading,    \* kernel_load_app's locals of each loader: the new VM
    lpc,        \* and how far the call is
    exiting,    \* how far task_destroy_current is: the task has left the ring
                \* ("unlinked"), has dropped its reference ("released")
    happened    \* history: the incidents so far

avars == <<state, ref_count, task, priv_data, loading, lpc, exiting, happened>>

AppTypeOK ==
    /\ state \in [App -> {"free", "READY", "RUNNING", "HALTED", "ERROR"}]
    /\ ref_count \in [App -> 0 .. 1]
    /\ task \in [App -> BOOLEAN]
    /\ priv_data \in [App -> BOOLEAN]
    /\ loading \in [Loader -> App \cup {NULL}]
    /\ lpc \in [Loader -> {"none", "vm", "task"}]
    /\ exiting \in [App -> {"no", "unlinked", "released"}]
    /\ happened \subseteq Happens

AppInit ==
    /\ state = [a \in App |-> "free"]
    /\ ref_count = [a \in App |-> 0]
    /\ task = [a \in App |-> FALSE]
    /\ priv_data = [a \in App |-> FALSE]
    /\ loading = [p \in Loader |-> NULL]
    /\ lpc = [p \in Loader |-> "none"]
    /\ exiting = [a \in App |-> "no"]
    /\ happened = {}

-----------------------------------------------------------------------------

\* p executes: it is the boot code or its interpreter loop runs.
Runs(p) == IF p = BOOT THEN TRUE ELSE task[p] /\ state[p] = "RUNNING"

\* The incidents that a step of the system brings: a loader was about to store
\* priv_data.
Notes(incident) ==
    /\ happened' = happened \cup incident \cup
            IF \E p \in Loader : lpc[p] = "task" THEN {"tick_before_priv"} ELSE {}
    /\ happened' \subseteq Happens

\* A tick has taken the processor from a task that has left the ring: it does
\* not come back to it.
Tick ==
    IF \E a \in App : exiting[a] # "no" THEN {"lost_exit"} ELSE {}

\* A step of anyone but a loader that is about to store priv_data and a task
\* that exits.
Step(incident) ==
    /\ Notes(incident \cup Tick)
    /\ exiting' = [a \in App |-> "no"]

\* vm_ref_dec and, where it calls it, vm_destroy: the VM is freed only in a
\* final state.
RefDec(a) ==
    /\ ref_count' = [ref_count EXCEPT ![a] = IF @ > 0 THEN @ - 1 ELSE 0]
    /\ state' = [state EXCEPT ![a] =
                    IF ref_count[a] <= 1 /\ @ \in {"HALTED", "ERROR"}
                    THEN "free" ELSE @]

\* Mutant of Release: the task's reference on the VM is not dropped.
ReleaseNothing(a) == UNCHANGED <<ref_count, state, priv_data>>

\* The task's reference on the VM is dropped, if it has one.
Release(a) ==
    /\ IF priv_data[a] THEN RefDec(a) ELSE UNCHANGED <<ref_count, state>>
    /\ priv_data' = [priv_data EXCEPT ![a] = FALSE]

\* The task of a is taken out of the ring; a load it was in the middle of is
\* abandoned.
Unlink(a) ==
    /\ task' = [task EXCEPT ![a] = FALSE]
    /\ lpc' = [lpc EXCEPT ![a] = "none"]
    /\ loading' = [loading EXCEPT ![a] = NULL]

-----------------------------------------------------------------------------
(* kernel_load_app, by p, into the structure a. *)

\* The header is good and vm_create succeeds; otherwise nothing changes.
LoadVm(p, a) ==
    /\ Step({})
    /\ Runs(p) /\ lpc[p] = "none" /\ state[a] = "free"
    /\ state' = [state EXCEPT ![a] = "READY"]
    /\ ref_count' = [ref_count EXCEPT ![a] = 1]
    /\ loading' = [loading EXCEPT ![p] = a]
    /\ lpc' = [lpc EXCEPT ![p] = "vm"]
    /\ UNCHANGED <<task, priv_data>>

\* task_create fails.  vm_destroy finds ref_count 1, which nobody will drop,
\* and only marks the VM.
LoadTaskFails(p) ==
    /\ Step({"task_fail"})
    /\ Runs(p) /\ lpc[p] = "vm"
    /\ state' = [state EXCEPT ![loading[p]] =
                    IF ref_count[loading[p]] > 0 THEN "HALTED" ELSE "free"]
    /\ lpc' = [lpc EXCEPT ![p] = "none"]
    /\ loading' = [loading EXCEPT ![p] = NULL]
    /\ UNCHANGED <<ref_count, task, priv_data>>

\* task_create: from here on the task may run.
LoadTask(p) ==
    /\ Step({})
    /\ Runs(p) /\ lpc[p] = "vm"
    /\ task' = [task EXCEPT ![loading[p]] = TRUE]
    /\ lpc' = [lpc EXCEPT ![p] = "task"]
    /\ UNCHANGED <<state, ref_count, priv_data, loading>>

\* Mutant of kernel_load_app: priv_data is left as task_create set it.
LoadNoPriv(p) ==
    /\ Runs(p) /\ lpc[p] = "task"
    /\ UNCHANGED priv_data
    /\ lpc' = [lpc EXCEPT ![p] = "none"]
    /\ loading' = [loading EXCEPT ![p] = NULL]
    /\ UNCHANGED <<state, ref_count, task, exiting, happened>>

\* task->priv_data = vm.  If the task is gone the store hits freed memory, or a
\* task that nobody will run again.
LoadPriv(p) ==
    /\ Runs(p) /\ lpc[p] = "task"
    /\ happened' = happened \cup Tick
    /\ happened' \subseteq Happens
    /\ exiting' = [a \in App |-> "no"]
    /\ priv_data' = [priv_data EXCEPT ![loading[p]] = task[loading[p]]]
    /\ lpc' = [lpc EXCEPT ![p] = "none"]
    /\ loading' = [loading EXCEPT ![p] = NULL]
    /\ UNCHANGED <<state, ref_count, task>>

-----------------------------------------------------------------------------
(* The task. *)

\* vm_interpreter_loop begins.
Start(a) ==
    /\ Step({})
    /\ task[a] /\ state[a] = "READY"
    /\ state' = [state EXCEPT ![a] = "RUNNING"]
    /\ UNCHANGED <<ref_count, task, priv_data, loading, lpc>>

\* Mutant of vm_step: OP_HALT drops the reference that the task's end drops.
FinishReleases(a) ==
    /\ Step({})
    /\ task[a] /\ state[a] = "RUNNING" /\ lpc[a] = "none"
    /\ ref_count' = [ref_count EXCEPT ![a] = 0]
    /\ state' = [state EXCEPT ![a] = "free"]
    /\ UNCHANGED <<task, priv_data, loading, lpc>>

\* An instruction ends the program, well or badly.  A VCALL that loads an
\* application is one instruction and is over first.
Finish(a) ==
    /\ Step({})
    /\ task[a] /\ state[a] = "RUNNING" /\ lpc[a] = "none"
    /\ \E final \in {"HALTED", "ERROR"} :
          state' = [state EXCEPT ![a] = final]
    /\ UNCHANGED <<ref_count, task, priv_data, loading, lpc>>

\* The loop returns and task_exit_handler calls task_destroy_current, whose
\* task first leaves the ring.
ExitUnlink(a) ==
    /\ Notes(Tick)
    /\ task[a] /\ state[a] \in {"HALTED", "ERROR"}
    /\ exiting' = [b \in App |-> IF b = a THEN "unlinked" ELSE "no"]
    /\ Unlink(a)
    /\ UNCHANGED <<state, ref_count, priv_data>>

\* It triggers EVENT_TASK_TERMINATED and drops its reference,
ExitRelease(a) ==
    /\ Notes({})
    /\ exiting[a] = "unlinked"
    /\ Release(a)
    /\ exiting' = [exiting EXCEPT ![a] = "released"]
    /\ UNCHANGED <<task, loading, lpc>>

\* and frees its context, its stack and itself.
ExitFree(a) ==
    /\ Notes({})
    /\ exiting[a] = "released"
    /\ exiting' = [exiting EXCEPT ![a] = "no"]
    /\ UNCHANGED <<state, ref_count, task, priv_data, loading, lpc>>

Exit(a) == ExitUnlink(a) \/ ExitRelease(a) \/ ExitFree(a)

\* The intent ACTION_STOP: task_destroy_by_id of another task, whatever it is
\* doing, with interrupts disabled.
Stop(p, a) ==
    /\ Step({"kill"})
    /\ p # a /\ p # BOOT /\ Runs(p) /\ lpc[p] = "none"
    /\ task[a]
    /\ Unlink(a)
    /\ Release(a)

AppNext ==
    \/ \E p \in Loader, a \in App : LoadVm(p, a)
    \/ \E p \in Loader : LoadTaskFails(p) \/ LoadTask(p) \/ LoadPriv(p)
    \/ \E a \in App : Start(a) \/ Finish(a) \/ Exit(a)
    \/ \E p, a \in App : Stop(p, a)

AppSpec == AppInit /\ [][AppNext]_avars

-----------------------------------------------------------------------------

\* No task runs on a freed VM, exits with a reference on one, or is in the
\* middle of loading one, whatever is killed, fails or is interrupted.
VmOutlivesUsers ==
    /\ \A a \in App : task[a] => state[a] # "free"
    /\ \A a \in App : exiting[a] = "unlinked" => state[a] # "free"
    /\ \A p \in Loader : loading[p] # NULL => state[loading[p]] # "free"

\* What holds after any kill, failure or interruption: at most one reference
\* is ever counted, and whoever uses a VM finds it allocated.
AppInvariant == AppTypeOK /\ VmOutlivesUsers

\* Every VM has a task that will release it or a load that will give it one.
NothingLeaks ==
    \A a \in App : state[a] # "free" =>
        \/ (task[a] \/ exiting[a] = "unlinked") /\ priv_data[a]
        \/ \E p \in Loader : Runs(p) /\ loading[p] = a

\* Loads and ends in any order, of applications that load others too, leave no
\* VM behind: only a kill, a failing task_create, a tick before the store to
\* priv_data or one inside task_destroy_current can.
LeaksOnlyAfterIncident == happened = {} => NothingLeaks

\* An application that has ended, and whose task gets its slices while it is in
\* the ring, gives its memory back, even where others are killed, unless one of
\* the three other incidents happens.
EndedAppsAreFreed ==
    \A a \in App :
        WF_avars(Exit(a)) =>
            (state[a] \in {"HALTED", "ERROR"} ~>
                state[a] = "free" \/ happened \ {"kill"} # {})
=============================================================================
