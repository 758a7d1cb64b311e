------------------------------ MODULE TimerIsr -----------------------------
(***************************************************************************)
(* The core timer interrupt from the saving of the registers to eret       *)
(* (arch/mips/core_timer_isr.S, switch_to_next in                          *)
(* kernel/scheduler/scheduler.c, arch/mips/impl/pic32mx_cpu_impl.S), with  *)
(* Count running on between its steps.  The ring is the sequence of the    *)
(* tasks from ready_list on; what the pointers do is module Scheduler.     *)
(***************************************************************************)
EXTENDS SysTick, Sequences, SequencesExt

CONSTANTS
    Task,
    Idle,           \* the task of scheduler_init, which never ends
    NULL

ASSUME TaskAssumption == Idle \in Task /\ NULL \notin Task

VARIABLES
    ring,           \* the tasks, from ready_list on
    current_task,
    cpu,            \* the registers
    context,        \* task->context
    total_cycles,
    last_count,
    isr,            \* how far the interrupt is
    executed,       \* history: the cycles the processor gave to each task
    stamped,        \* history: when last_count was taken
    overlong        \* history: a slice was longer than a turn of Count

tasks == <<ring, cpu, context>>
accounts == <<total_cycles, last_count, executed, stamped, overlong>>
vars == <<timer, current_task, isr, tasks, accounts>>

\* Modelled as names: a register, and what a task had in it.
General == {"ra", "sp", "gp", "fp", "a0", "a1", "a2", "a3", "v0", "v1", "hi", "lo",
            "s0", "s1", "s2", "s3", "s4", "s5", "s6", "s7", "at",
            "t0", "t1", "t2", "t3", "t4", "t5", "t6", "t7", "t8", "t9"}
Register == General \cup {"k0", "k1", "status", "epc", "pc"}
Of(t) == [r \in Register |-> <<t, r>>]

\* The fields of CpuContext that core_timer_isr stores and cpu_context_restore
\* loads: all but at.
CpuContext == (General \ {"at"}) \cup {"status", "epc"}

Freed == [f \in CpuContext |-> <<"heap", f>>]

TypeOK ==
    /\ TimerTypeOK
    /\ \A i, j \in DOMAIN ring : ring[i] \in Task /\ (ring[i] = ring[j] => i = j)
    /\ current_task \in Task \cup {NULL}
    /\ current_task # NULL => ring # <<>> /\ current_task = Head(ring)
    /\ DOMAIN cpu = Register
    /\ \A t \in Task : DOMAIN context[t] = CpuContext
    /\ total_cycles \in [Task -> 0..MaxTime]
    /\ last_count \in [Task -> 0..(CountModulus - 1)]
    /\ isr \in {"none", "timer", "switch", "resume", "lost"}
    /\ executed \in [Task -> 0..MaxTime] /\ stamped \in 0..MaxTime
    /\ overlong \in BOOLEAN

Init ==
    /\ TimerInit
    /\ ring = <<>> /\ current_task = NULL /\ isr = "none"
    /\ cpu = Of("boot")
    /\ context = [t \in Task |-> Freed]
    /\ total_cycles = [t \in Task |-> 0] /\ last_count = total_cycles
    /\ executed = total_cycles
    /\ stamped = 0 /\ overlong = FALSE

-----------------------------------------------------------------------------
(* Outside the interrupt. *)

\* What cpu_context_init writes; the other fields keep what the block held.
cpu_context_init(t) ==
    [f \in CpuContext |->
        CASE f = "epc" -> <<t, "entry">>
          [] f = "a0"  -> <<t, "arg">>
          [] f = "sp"  -> <<t, "stack_top">>
          [] f = "ra"  -> <<"kernel", "task_exit_handler">>
          [] f = "gp"  -> <<"kernel", "gp">>
          [] f = "status" -> <<"kernel", "IE">>
          [] f \in {"a1", "a2", "a3", "s0", "s1", "s2", "s3", "s4", "s5", "s6", "s7"}
                -> <<"kernel", "zero">>
          [] OTHER -> context[t][f]]

\* task_create: the task comes behind ready_list.
task_create(t) ==
    /\ isr = "none" /\ t \notin Range(ring)
    /\ ring' = IF ring = <<>> THEN <<t>> ELSE <<Head(ring), t>> \o Tail(ring)
    /\ context' = [context EXCEPT ![t] = cpu_context_init(t)]
    /\ total_cycles' = [total_cycles EXCEPT ![t] = 0]
    /\ last_count' = [last_count EXCEPT ![t] = Count]
    /\ executed' = [executed EXCEPT ![t] = 0]
    /\ UNCHANGED <<cpu, current_task, isr, stamped, overlong>>

LoadTask(t) ==
    /\ t # Idle /\ task_create(t)
    /\ UNCHANGED timer

\* scheduler_init, by the boot code: the idle task, and the timer's interrupt.
scheduler_init ==
    /\ current_task = NULL
    /\ task_create(Idle)
    /\ arch_systick_enable_interrupt

\* systick_init of kernel_tick.c, before or after scheduler_init.
systick_init ==
    /\ isr = "none"
    /\ arch_systick_init
    /\ UNCHANGED <<current_task, isr, tasks, accounts>>

\* The calls of the driver that nothing in the kernel makes, one at most.
Retime ==
    /\ isr = "none" /\ systick.initialized /\ "retimed" \notin late
    /\ \/ \E p \in NewPeriods : arch_systick_set_period(p)
       \/ arch_systick_start
       \/ arch_systick_stop
    /\ UNCHANGED <<current_task, isr, tasks, accounts>>

\* task_exit_handler: the task's structures are freed, what is left of it idles
\* until the next tick.
TaskExit ==
    /\ isr = "none" /\ current_task \notin {NULL, Idle}
    /\ ring' = Tail(ring)
    /\ current_task' = NULL
    /\ context' = [context EXCEPT ![current_task] = Freed]
    /\ total_cycles' = [total_cycles EXCEPT ![current_task] = 0]
    /\ last_count' = [last_count EXCEPT ![current_task] = 0]
    /\ executed' = [executed EXCEPT ![current_task] = 0]
    /\ UNCHANGED <<timer, isr, cpu, stamped, overlong>>

-----------------------------------------------------------------------------
(* The interrupt. *)

\* Mutant of SaveContext: the pointer to the context is used as the context
\* of the task that runs next.
SaveContextOfHead ==
    /\ isr = "none" /\ CTIF /\ CTIE
    /\ context' = IF ring = <<>> THEN context
                  ELSE [context EXCEPT ![Head(ring)] =
                           [f \in CpuContext |-> IF f = "epc" THEN cpu.pc ELSE cpu[f]]]
    /\ cpu' = [cpu EXCEPT !["epc"] = cpu.pc]
    /\ isr' = "timer"
    /\ UNCHANGED <<timer, current_task, ring, accounts>>

\* Entry: without a current task (boot code, or a task that has ended)
\* nothing is saved.
SaveContext ==
    /\ isr = "none" /\ CTIF /\ CTIE
    /\ context' = IF current_task = NULL THEN context
                  ELSE [context EXCEPT ![current_task] =
                           [f \in CpuContext |-> IF f = "epc" THEN cpu.pc ELSE cpu[f]]]
    /\ cpu' = [cpu EXCEPT !["epc"] = cpu.pc]
    /\ isr' = "timer"
    /\ UNCHANGED <<timer, current_task, ring, accounts>>

\* The flag is cleared, then Compare moved on.  From here on the kernel's code
\* uses the registers.
MoveCompare ==
    /\ isr = "timer" /\ isr' = "switch"
    /\ arch_systick_tick
    /\ cpu' = Of("kernel")
    /\ UNCHANGED <<current_task, ring, context, accounts>>

\* The cycles of the task that is leaving, a 32-bit difference.
AddCycles ==
    IF current_task = NULL THEN UNCHANGED <<total_cycles, overlong>>
    ELSE /\ total_cycles' = [total_cycles EXCEPT ![current_task] =
                @ + ((Count - last_count[current_task]) % CountModulus)]
         /\ overlong' = (overlong \/ cycles - stamped >= CountModulus)

\* ready_list->next.
NextTask == ring[IF Len(ring) = 1 THEN 1 ELSE 2]

switch_to_next ==
    /\ isr = "switch" /\ ring # <<>> /\ NextTask # current_task
    /\ AddCycles
    /\ ring' = IF Len(ring) = 1 THEN ring ELSE Append(Tail(ring), Head(ring))
    /\ current_task' = NextTask
    /\ isr' = "resume"
    /\ UNCHANGED <<timer, cpu, context, last_count, executed, stamped>>

\* Nothing to switch to: the interrupt has no way back.
FallOff ==
    /\ isr = "switch" /\ isr' = "lost"
    /\ \/ ring = <<>> /\ UNCHANGED <<total_cycles, overlong>>
       \/ ring # <<>> /\ NextTask = current_task /\ AddCycles
    /\ UNCHANGED <<timer, current_task, tasks, last_count, executed, stamped>>

\* Mutant of Resume: the account is opened at the next tick.
ResumeNoStamp ==
    /\ isr = "resume" /\ isr' = "none"
    /\ cpu' = [r \in Register |-> IF r \in CpuContext THEN context[current_task][r]
                                  ELSE IF r = "pc" THEN context[current_task].epc ELSE cpu[r]]
    /\ stamped' = cycles
    /\ UNCHANGED <<timer, current_task, ring, context, total_cycles, last_count,
                   executed, overlong>>

\* The new task's account is opened, cpu_context_restore loads its registers
\* and eret jumps to EPC.
Resume ==
    /\ isr = "resume" /\ isr' = "none"
    /\ last_count' = [last_count EXCEPT ![current_task] = Count]
    /\ cpu' = [r \in Register |-> IF r \in CpuContext THEN context[current_task][r]
                                  ELSE IF r = "pc" THEN context[current_task].epc ELSE cpu[r]]
    /\ stamped' = cycles
    /\ UNCHANGED <<timer, current_task, ring, context, total_cycles, executed, overlong>>

\* A cycle goes by, outside the interrupt as a cycle of the running task, which
\* computes in all its registers.
PassTime ==
    /\ isr # "lost"
    /\ CountUp
    /\ IF isr = "none" /\ current_task # NULL
       THEN /\ executed' = [executed EXCEPT ![current_task] = @ + 1]
            /\ cpu' = [r \in Register |-> IF r \in General \cup {"pc", "status"}
                                          THEN <<current_task, r>> ELSE cpu[r]]
       ELSE UNCHANGED <<executed, cpu>>
    /\ UNCHANGED <<current_task, isr, ring, context, total_cycles, last_count, stamped, overlong>>

Next ==
    \/ \E t \in Task : LoadTask(t)
    \/ scheduler_init \/ systick_init \/ Retime
    \/ TaskExit \/ SaveContext \/ MoveCompare \/ switch_to_next \/ FallOff \/ Resume
    \/ PassTime

Spec == Init /\ [][Next]_vars

-----------------------------------------------------------------------------
(* Properties. *)

\* task_get_cycles: what has been accounted, without the present slice; 0 for
\* an id that no task has.
task_get_cycles(t) == IF t \in Range(ring) THEN total_cycles[t] ELSE 0

\* An interrupt is pending, or being handled, exactly when one is due, period
\* after period without drift and in spite of both registers wrapping.  Four
\* things break it: an initialisation after the first period, an enabling that
\* drops the first interrupt, a retiming, an interrupt taken a period late.
TickWhenDue ==
    systick.initialized /\ late = {} /\ cycles < due + systick.period =>
        (CTIF \/ isr = "timer") = (cycles >= due)

\* Every cycle a task executes is accounted to it at the tick that ends its
\* slice, as long as no slice outlasts a turn of Count.
EveryCycleAccounted ==
    LET slice(t) == IF t = current_task /\ isr # "resume" THEN cycles - stamped ELSE 0
    IN  ~overlong => \A t \in Range(ring) : executed[t] <= task_get_cycles(t) + slice(t)

\* No cycle is counted twice: the cycles in all the accounts, told apart by task
\* and number, are not more than have gone by.
Accounted == {c \in Range(ring) \X (1..MaxTime) : c[2] <= total_cycles[c[1]]}
NoCycleTwice == Cardinality(Accounted) <= cycles

\* The accounts of the tasks, as core_timer_isr and switch_to_next keep them.
CyclesAccounted == EveryCycleAccounted /\ NoCycleTwice

\* A task that was interrupted goes on with all its registers but at, and one
\* that was never run begins at its entry, with its argument, on its stack,
\* to return into task_exit_handler.
RegistersKept ==
    isr = "none" /\ current_task # NULL =>
        IF executed[current_task] > 0
        THEN \A r \in (General \ {"at"}) \cup {"pc", "status"} : cpu[r] = <<current_task, r>>
        ELSE /\ cpu.pc = <<current_task, "entry">> /\ cpu.a0 = <<current_task, "arg">>
             /\ cpu.sp = <<current_task, "stack_top">>
             /\ cpu.ra = <<"kernel", "task_exit_handler">>
             /\ cpu.status = <<"kernel", "IE">>

\* The same with the types: what core_timer_isr and cpu_context_restore keep.
ContextKept == TypeOK /\ RegistersKept
=============================================================================
