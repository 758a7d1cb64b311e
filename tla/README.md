# TLA+ models of xhopin

xhopin is a small kernel for PIC32 microcontrollers (MIPS) that runs every
application as bytecode in a virtual machine of its own. This directory holds
TLA+ models of it, TLC configurations that check them on small instances,
and proofs, checked by TLAPS, about most of the modules for every size. Paths of sources are relative to
the repository; `scheduler.c:41` means line 41 of
`kernel/scheduler/scheduler.c` and so on.

1. [The system](#1-the-system)
2. [The modules](#2-the-modules)
3. [The runs](#3-the-runs)
4. [Known disagreements](#4-known-disagreements)
5. [The proofs](#5-the-proofs)
6. [What is not modelled, and the plan](#6-what-is-not-modelled-and-the-plan)

## 1. The system

### 1.1 Concurrency in one paragraph

There is one processor. Tasks are `Task` structures in a circular list, the
*ring*; a periodic core timer interrupt saves the running task and restores the
next one. There are no locks: a section is protected only when it runs with
interrupts disabled (`arch_cpu_disable_interrupts` ... `_restore_`). So the
question for every function is which of its accesses to shared data lie outside
such a section, because between two of those a tick may run every other task
for any time. The repository has no `main`: the order in which the boot code
calls the initialisation functions is taken from what these functions need
(`event_system_init` creates the dispatcher task, `scheduler_init` creates the
idle task and enables the timer).

### 1.2 Inventory

| Component | State | Operations | Hard part | What makes it correct |
|---|---|---|---|---|
| **Task scheduler** `kernel/scheduler` | ring of `Task` (`next`, `id`, `entry`, `priv_data`), `ready_list`, `current_task`, `next_task_id`, cycle counters | `task_create`, `task_destroy_current`, `task_destroy_by_id`, `switch_to_next`, `scheduler_init` | pointers updated with interrupts enabled; a removal of the head; nothing left to run | the ring is one cycle through exactly the live tasks; the head is the running task; ids are unique while the counter has not gone round; every task gets its turn once creations have ended |
| **Core timer interrupt, context switch** `arch/mips/core_timer_isr.S`, `arch/mips/impl/pic32mx_cpu*` | `CpuContext` of each task, the processor's registers | save, `arch_systick_tick`, `timer_callback`, `cpu_context_init`, `cpu_context_restore` | no current task at boot and after an exit; there is no way back from the interrupt when nothing is switched to | the processor always runs a live task, with the registers it had |
| **Event queue and dispatcher** `kernel/event` | linked queue (`queue_head`, `queue_tail`), the dispatcher's local `entry` | `event_trigger`, `event_dispatcher` | any task queues while the dispatcher takes; a freed entry is used again | every queued event is delivered, once, in order |
| **Handler table** `kernel/event` | `handlers[type][]`, `handler_count[type]` | `event_register`, `event_unregister`, the walk of a delivery | the table changes under the walk; the bound is tested outside the protected section | the row holds exactly the registered handlers; each is called with its own `ctx` |
| **Heap** `kernel/memory/mem_alloc.c` | bitmap of units, block headers | `mem_alloc`, `mem_free`, `find_free_units` | search that skips full words; no protection at all | blocks are disjoint, the bitmap marks exactly the blocks in use |
| **Object pool** `kernel/memory/mem_pool.c` | free list | init, alloc, free | – (no caller) | – |
| **Loader and VM lifetime** `kernel/loader`, `kernel/vm/vm_core.c` | `VMContext` (`state`, `ref_count`, code, RAM), `task->priv_data` | `kernel_load_app`, `vm_create`, `vm_destroy`, `vm_ref_dec`, `vm_interpreter_loop` | task and VM end separately, the reference is stored after the task may run, and dropped after the task has left the ring | no task runs on a freed VM; a VM that nobody uses is freed |
| **VM instructions** `kernel/vm/vm_core.c`, `opcodes.h` | registers, `pc`, RAM | `vm_step` | 32-bit sums before bounds tests | no access outside code and RAM; every instruction does what `opcodes.h` says |
| **Assembler** `asm` | – | text to bytecode | encodings must be what `vm_step` decodes | the program that runs is the one that was written |
| **Services and intents** `kernel/vm/kernel_services.c`, `kernel_intent_dispatcher.c` | – | start and stop an application, log, storage | run in the caller's task | capabilities tested before use |
| **File systems** `kernel/fs` | mount table; list of files with a first block (`ramfs`) or an array of blocks (`ramfs2`); `next_free_block`, `block_map` | mount, create, read, write, remove, rename, format | several steps of which one may fail, results of the disk ignored; lists, map and arrays changed with interrupts enabled | a map from names to contents; a file's blocks are its own |
| **Storage, RAM disk** `drivers/storage` | device list, buffer | register, read, write | registered before its memory is allocated | a device in the list works |
| **Devices, console** `kernel/device` | device table, `active_console` | register, unregister, find by name, switch | bound tested outside the protected section, duplicates not at all; an entry read again after it | the tables hold live devices, once each; the active console is a registered one |
| **System timer** `arch/mips/impl/pic32mx_systick_impl.c`, `arch/arch_core_timer.c`, `kernel/timer` | Count, Compare, interrupt flag and enable, `systick_instance` | init, enable, set period, start, stop, tick, read | both registers wrap; an interrupt comes only in the moment in which they are equal | a tick per period, cycles counted once |
| **Bus and UART drivers** `arch/arch_usart.c`, `arch_bus_*.c`, `arch/mips/impl/harmony` | callback and context per instance | open, transfer, set callback, interrupt | two tables written in two stores while interrupts and tasks use them | a callback gets its own context; only enabled instances are used |
| **Headers, toolchain** `arch`, `toolchain` | – | constants | – | – |

### 1.3 How they interact

    boot code --> event_system_init, scheduler_init, kernel_load_app
    application (bytecode) --VCALL--> intents --> kernel_load_app, task_destroy_by_id
    kernel_load_app --> vm_create --> mem_alloc;  task_create --> mem_alloc, insert_task
    vm_interpreter_loop returns --> task_exit_handler --> task_destroy_current
        --> event_trigger(EVENT_TASK_DESTROYED), vm_ref_dec, mem_free
    event_trigger --> mem_alloc, queue;   dispatcher task --> handlers, mem_free
    application --VCALL--> storage service --> mount table --> ramfs2 --> RAM disk
    drivers --> storage_register, console_register --> device_register --> event_trigger
    application --VCALL--> console_read --> uart_read --> arch_uart_read
    core timer interrupt --> arch_systick_tick; switch_to_next: any task --> the next in the ring
        --> cpu_context_restore --> eret
    UART, SPI, I2C interrupts --> the callback set for the instance

## 2. The modules

| Module | Models | Grain |
|---|---|---|
| `RoundRobin` | what the scheduler promises: a queue | one action per operation |
| `Scheduler` | `scheduler.c` with pointers | one action per call, ticks between calls |
| `SchedPreempt` | `scheduler.c`, `task_create` and `task_destroy_current` opened up | one action per access to shared data, ticks anywhere |
| `EventQueue` | `event_trigger` and the dispatcher's loop, with the blocks of the entries | one action per protected section or unprotected access |
| `EventHandlers` | the handler table and the walk over it | likewise |
| `Heap` | `mem_alloc`, `mem_free` | one action per call |
| `HeapPreempt` | the same opened up, with headers | one action per access to the bitmap or a header, ticks anywhere |
| `AppLifecycle` | loading and ending applications | one action per call made by the loader or the task, ticks between them |
| `FileMap` | what the storage service takes a file system for: a map from names to contents | one action per operation |
| `RamDisk`, `Ramfs`, `Ramfs2` | `storage_ram.c`, `ramfs.c`, `ramfs2.c` | one action per call |
| `Ramfs2Write` | `ramfs_write` of `ramfs2.c` opened up | one action per access to the map, the array or the disk |
| `Ramfs2Nodes` | its `ramfs_create` and `ramfs_remove` opened up | one action per access to the list or the map |
| `MountedFs` | the file systems with mount table and storage service | one action per call, those of ramfs2 that change a file interrupted |
| `SourceMachine` | what an assembly program means | one instruction |
| `Words` | C's operators on unsigned words, bit by bit | – |
| `Assembler`, `VmCore` | the words of `vm_asm.c`; `vm_step` | one instruction |
| `AssembledVm` | `vm_step` executing what the assembler wrote | one instruction |
| `Devices` | `kdevice.c`, `storage.c`, `console.c` | one action per protected section or unprotected access |
| `SysTick` | `pic32mx_systick_impl.c` with Count and Compare | one action per driver call, one per cycle |
| `TimerIsr` | `core_timer_isr.S`, `switch_to_next`, `pic32mx_cpu*` | the steps of the interrupt, with Count running between them |
| `BusDrivers` | UART, I2C and SPI drivers | one action per access to the tables |
| `SerialConsole` | `usart_console.c`, `arch_uart_read` | one action per turn of the loop |
| `SchedulerProofs`, `HeapPreemptProofs`, `DevicesProofs`, `TimerIsrProofs`, `BusDriversProofs` | theorems about the modules they are named after, the first also about `SchedPreempt` (section 5) | |
| `EventProofs` | theorems about `event.c`: `EventQueue` and `EventHandlers` | |
| `ServiceProofs` | theorems about what applications call: `AppLifecycle` and `MountedFs` | |
| `VmProofs` | theorems about `AssembledVm` | |
| `MC...` | instances for TLC, symmetry | |

`SchedPreempt` extends `Scheduler` (it uses its tick, its boot actions and its
removal of a target) and maps itself back to it (`Members`, the `View...` definitions, `S`);
`Scheduler` maps itself to `RoundRobin` (`RingSeq`, `RR`); `HeapPreempt` extends `Heap`
(for calls no tick hits) and maps itself back to it; `TimerIsr` extends
`SysTick`; `MountedFs` extends both file systems and maps them to `FileMap`; `AssembledVm` extends
`VmCore`, which extends `Assembler`, and maps them to `SourceMachine`; all of them take
their words from `Words`.

**Mutants.** A definition whose comment begins with "Mutant of" is not part of
any specification. It is the definition below it with a plausible mistake in
it, kept to show that the property it is paired with in `PROJECT.json` would
notice the mistake.

**History variables.** Several properties of this kernel hold only until a tick
lands in an unprotected place. Those modules do not leave such ticks out. They
have a variable that nothing in the code has and no guard reads (apart from the
bounds named below), which remembers that it has happened, and the property
says exactly what can go wrong only after what:

| Module | Variable | Remembers |
|---|---|---|
| `SchedPreempt` | `torn` | the labels of `task_create` and `task_destroy_current` at which a tick has landed |
| `EventQueue` | `aliased` | the block the dispatcher's leftover `entry` points to was allocated again |
| `EventHandlers` | `disturbed` | a handler was removed during the present delivery |
| `EventHandlers` | `raced` | two `event_register` calls were past their test together |
| `HeapPreempt` | `torn`, `corrupt` | what the interleaving has done to a search, a word or a header (2.5); memory has two owners |
| `RamDisk` | `incidents` | a row that grew, the end of the disk, no disk, a rename onto a file (`Ramfs`); a second write, unfilled array entries unmarked, a block taken that an unfinished remove had given back, a call that writes or frees the node another call is at (`Ramfs2`); two writes that took one block (`Ramfs2Write`); files dropped from the list, or hidden, by an interrupted create or remove (`Ramfs2Nodes`) |
| `SysTick` | `due`, `late` | when the next interrupt is due; what came too late for the timer |
| `TimerIsr` | `executed`, `stamped`, `overlong` | the cycles each task was given; the beginning of the slice; a slice longer than a turn of Count |
| `BusDrivers` | `accepted`, `crossed`, `called` | the last registration that returned 0; two that overlapped; the last call of a callback |
| `AssembledVm` | `misread` | an executed word did not say what its line says |
| `Devices` | `registered`, `announced`, `incidents` | registrations begun; the events of each device; what has come in between |
| `AppLifecycle` | `happened` | kills, failing `task_create`s, ticks before the store to `priv_data`, ticks inside `task_destroy_current` |

### 2.1 Scheduler

`tasks` is the set of allocated `Task` structures; `next`, `id` and `entry` are
functions on it, the fields of the structures. `ready_list`, `current_task` and
`next_task_id` are the globals. The counter keeps its width: it is counted
modulo `IdModulus` (2^32 in the code). `cpu` is what the processor executes:
the boot code, the entry function of `current_task`, the idle loop in which
`task_exit_handler` ends (`exited`: the task is gone, the processor still
executes on its freed stack until the next tick), or nothing any more (`lost`).

| Action | Code |
|---|---|
| `EventSystemInit`, `SchedulerInit` | `event.c:66`, `scheduler.c:256` |
| `LoadApp` | `task_create` as reached from `kernel_load_app` |
| `TaskDestroyCurrent` | `scheduler.c:88`, called when an entry function returns |
| `TaskDestroyById(i)` | `scheduler.c:125`; the search that precedes the removal is the choice of `target` |
| `SwitchToNext`, `FallOffIsr` | `core_timer_isr` with `switch_to_next`, the two ways it can go |

A failing `mem_alloc` leaves everything as it was and is a stuttering step. The
event that every creation and every end triggers belongs to `EventQueue`, the
VM reference to `AppLifecycle`, the blocks to `Heap`.

`DestroyTarget` models what the code does when the target is the head
(`scheduler.c:166`): it moves `ready_list` and does *not* repair the
predecessor. That would leave a pointer to a freed task in the ring. It never
happens because the head is the running task and a task cannot kill itself;
this is the content of `HeadIsCurrent`.

### 2.2 SchedPreempt

The same globals, and for each task a label `pc` that names the access it does
next. `c_...` are the accesses of `task_create`, `x_...` those of
`task_destroy_current`; `new`, `id_read` and `prev` are their locals. `fresh`
is the set of structures that have been allocated and not yet put in the ring.
`Interrupt` is `Scheduler`'s `Tick` at any label. `task_destroy_by_id` and the
tick itself run with interrupts disabled and stay atomic.

A kill leaves the victim's locals as they are, so that what it was building
stays allocated, as in the code. `Linked` is what a walk along `next` visits.
`RingNeverDangles` says that the walk meets only allocated and completely built
structures. Where that is false what the code does next depends on the contents
of freed memory, and the model stops; `RingWholeUnlessTorn` says when this can
happen.

### 2.3 EventQueue

`Block` are the heap blocks that can hold an entry. `owner` says what
`mem_alloc` has given a block for; `data` and `link` are what is written in it
(a freed block keeps its contents, as in the code). `TriggerFill` is the
unprotected first half of `event_trigger`, `TriggerQueue` the protected second
half, `TriggerDrop` the case of a full heap. The dispatcher's turn is `Take` or
`TakeStale`, then `Deliver`, then `Free`. `TakeStale` is the turn that finds
the queue empty: `entry` was not reset (it is declared outside the loop,
`event.c:40`), so the turn goes on with an entry that is already freed. It
calls the handlers of the old event once more and frees the block once more; if
it has been allocated in the meantime, that frees somebody else's memory.
`OtherAlloc` and `OtherFree` are the rest of the kernel. Each event is raised
once: an event stands for one call of `event_trigger`.

### 2.4 EventHandlers

One row of the table. A registration is a pair of a handler and a `ctx`, so
`<<r, s>>` in `called` is a call of the handler of `r` with the `ctx` of `s`.
`RegisterCheck` (test for a full row) and `Register` (the protected store) are
two steps, as are `LoadHandler` and `LoadCtxAndCall`, because the code reads
the two fields of a slot one after the other with interrupts enabled. Slots
behind the row exist in the model so that an overflow can be seen; in memory
they are the next event type's row. `EMPTY` is the `NULL` in a slot without a handler, and
`walk` is where the dispatcher is in its loop.

### 2.5 Heap and HeapPreempt

`bitmap` is the set of marked units, `blocks` the blocks their owners hold.
`Starts(n)` is the set of places where the search for `n` units may stop; it
says in one line what the two loops do, including that the count of free units
is *not* reset where a full word is skipped (`mem_alloc.c:61`). Sizes are in
units: the rounding of bytes and header to units precedes the search.

`HeapPreempt` has the loops themselves. A caller's `call` holds its locals and
a label: `word` and `bit` are the tests of the search, `set`/`set_store` and
`clear`/`clear_store` the load and the store of a bit operation (each rewrites
a whole word). Neither function disables interrupts, so any other call may come
between. Those come in two kinds: calls of the other members of `Caller`, access
by access, and `MaskedAlloc` and `MaskedFree`, whole calls that no tick hits,
such as those that `task_destroy_by_id` makes with interrupts disabled.

A call counts as done from the end of its search (an allocation) or not yet
done until its end (a release): `SettledBitmap` and `SettledBlocks` are the
refinement mapping to `Heap`. `torn` names what the interleaving has done:

| In `torn` | Means |
|---|---|
| `crossed` | the search stepped over a full word inside a row of free units (needs no tick) |
| `choice` | a unit of the row was taken between the test of its bit and the end of the search, or by a call that has not marked it yet; or the chosen block overlaps one that a `mem_free` is not done with |
| `word` | a bit operation stored a word that had changed since its load |
| `reused` | a new header was written where a `mem_free` was not done: it still reads `units` and erases the magic there after it has cleared the bit (`mem_alloc.c:136`) |
| `between` | the search ran while bits of other calls were being written; harmless for memory, but the result is not what an atomic search returns |

### 2.6 AppLifecycle

A VM and its task have one name. `LoadVm`, `LoadTask`, `LoadPriv` are the three
steps of `kernel_load_app`: create the VM (with reference count 1 for the task
to be), create the task (which may run from then on), store the VM in
`task->priv_data`. `Start` and `Finish` are the task's: interpreter loop, end of
the program with `HALTED` or `ERROR`. `Stop` is `task_destroy_by_id` by another
application, with interrupts disabled and so one step.

`task_destroy_current` runs with interrupts enabled. `Exit` is three steps:
`ExitUnlink` takes the task out of the ring (`scheduler.c:98`), `ExitRelease` sends
the event and drops the reference on the VM, `ExitFree` frees the rest. A task that
has left the ring is never chosen again, so any step of somebody else in between ends
the exit for ever: `exiting` falls back to `"no"`, the VM stays allocated, and
`happened` remembers `lost_exit`.

### 2.7 RamDisk, Ramfs, Ramfs2, MountedFs

A block holds one value and lengths are counted in blocks. `disk` is the buffer
of the RAM disk; `attached` says whether `ram_init` could allocate it:
`storage_ram_init` registers the device before and ignores the result of init
(`storage_ram.c:98`). Writes to a number beyond the disk, or without a
buffer, are refused by the disk, and the file systems do not look at the
result. `call` is the last call with its result, the interface to `FileMap`.

`Ramfs`: `nodes` is the list of files, newest first. A file is a row of blocks
from `start_block`, which is `next_free_block` at the time of its *creation*;
every write, a rewrite too, moves `next_free_block` by the blocks written.
`Ramfs2`: `blocks` maps names to arrays of block numbers; `JUNK` is an entry of
an array that was never filled in, after a write that ran out of blocks or of
heap. `ramfs2_remove` unmarks what the array says; for `JUNK` that is any block
or none, for each such entry (`Unfilled`). A write of length 0 asks for an array of no
bytes, which `mem_alloc` refuses: it fails always (`WriteLosesArray`). `MountedFs` chooses which of the two is mounted (the kernel mounts
`ramfs2`) and adds the refusals of the storage service. `Readable` is the
refinement mapping: what a caller who reads every file would get. `FileMap` is written
from what the storage service makes of the results: 0 is success
(`kernel_services.c:99`). `fs.h` says otherwise (section 4).

`Ramfs2Write` and `Ramfs2Nodes` open the calls of `ramfs2` that change something: every
application's `VCALL` runs in its own task, with interrupts enabled. `writer` holds the
locals of the write that has been interrupted, `editor` those of the create or remove;
there may be one of each at a time, and any whole call may come between their steps.
`WriteBegin` puts the new array in the node, `AllocTest` and `AllocSet` are the two
halves of `alloc_block`, `WriteFill` enters the block and writes its data.
`CreateBegin` is the search for the name and the allocation, `CreateNext` the load of
`ctx->head`, `CreateLink` the store to it. `RemoveBegin` is the walk to the file,
`RemoveUnmark` one entry of its array, `RemoveUnlink` the store that takes the node out.
`list` is the order of the nodes; `beside` is where `node->next` of a create or
`prev` of a remove points. What the list is when the store comes need not be what it was
at the load: `Onward` and `Unlinked` say which nodes are still reachable, and the rest
are gone (`lost_node`), a name may be there twice and hide one (`same_name`).

The walk of `find_file` is one step, with the access that follows it. A call that
writes to or frees the node that a pointer of an interrupted call refers to is the
incident `same_node`: what the interrupted call does to freed memory or to an
exchanged array is not followed (`Passes`).

### 2.8 Assembler, VmCore, SourceMachine, AssembledVm

A word is the tuple of its four bytes; a line of source has its operands in the
order written and the value that `resolve_value` finds. `assemble_line` keeps
the quirks of the encoding, because they are the point (section 4). `VmCore`
has one action per kind of instruction; addresses and `pc` wrap as the sums in
C do, and what passes the tests of `vm_step` but lies outside the buffers goes
to the state `UNDEFINED`, where the model ends (`Readable`, `Named`,
`WordThere`). Registers have `WordBits` bits: 32 in the code; fewer here keeps
TLC's integers exact, and at least 17, so that `LUI` and the addresses of the code have
room. The bitwise operators and shifts of `Words` are sums of bits, which is what the
provers can reason about. The memory is bytes; a word is four of them, the least first, as on the
PIC32. An operand is a plain number, `hi(x)`, `lo(x)` or `x(base)`, each with what
`assemble_line` makes of it (`Half`, `BaseOf`). `Parsed` says what parsing leaves of a line: operands are registers cut to a byte, so
that `r40` is possible and names no register. `Survives` asks of `JMP` and `CALL` that the
target has 24 bits. `SourceMachine` is written from `opcodes.h`: `LUI` shifts its operand up,
the memory instructions add their index register, immediates are as written and labels are where they
are. Where the source has a number in place of the index register, which `opcodes.h` does not know
and `vm_core.c:14` has introduced, it is added. A `VCALL` answers anything from
`Answers`; the requests themselves are in the other modules.

### 2.9 Devices

`devices` and `storage_devs` are the used parts of the two tables. `pc` and
`dev` (and `slot`, the index that `device_get_by_name` has found) place each caller inside its call: a test (`RegisterTest`), a protected
section (`RegisterInsert`, `Unregister`), the event that follows it
(`RegisterAnnounce`, `UnregisterAnnounce`), the release.
`storage_register` calls `device_register` with interrupts disabled, so that its
test, insertion and event are one action with the insertion into
`storage_devs`; `storage_unregister` does not. Nothing looks whether a device is in the
table already, so it may be registered while it is there, or while it is on its way in or
out (incident `twice`); only memory that was given back is not registered. `console_set_active` is
three steps: `DeviceGetByName` finds the device, `SetActiveFind` reads the table again at the
same index with interrupts enabled (`kdevice.c:58`; `Returned` is what stands there then,
`shifted` remembers that it is another) and tests its class, `SetActive` stores it. In the repository these
functions are called by boot code; the interface is open to every task, and
that is what the model assumes.

### 2.10 SysTick and TimerIsr

`cycles` is time; `Count` is what the register shows of it, `cycles` modulo
`CountModulus` (2^32). `CountUp` is the hardware: the flag `CTIF` is set in the
moment in which Count reaches Compare, at no other. Hence everything that
leaves Compare behind Count costs a full turn of the counter. `due` says when the
next interrupt *should* come, and `late` why it may not: the timer was initialised
after the first period (`init`), the pending first tick was dropped by
`arch_systick_enable_interrupt` (`enable`), a tick was handled more than a period
late (`isr`), or a driver call moved Compare or stopped the timer (`retimed`).

`TimerIsr` is the path of one interrupt: `SaveContext`, `MoveCompare` (clear the
flag, `arch_systick_tick`), `switch_to_next` or `FallOff`, `Resume`, with
`PassTime` between any two. A register holds the name of the task whose value it
has, so that the run sees whose values a task goes on with. `context` has the
fields that the two assembly files really store and load: `at` is in the
structure and in neither. The ring is a sequence here; its pointers are
`Scheduler`'s subject. `task_get_cycles` reads `total_cycles`.

Nothing in the repository calls `systick_init`, `arch_systick_set_period`,
`arch_systick_start` or `arch_systick_stop`. The first is needed for a tick to
come, so it is called by the boot code, before or after `scheduler_init`; of
the others (`Retime`) a behaviour has at most one.

### 2.11 BusDrivers and SerialConsole

`bus` chooses one of the three drivers; they share no state. The vendor's driver
is external: it keeps a configuration (`setup`), and once a callback is registered
(`hooked`) its interrupt calls it. UART and SPI register a callback of their own
and keep the user's in `callbacks` and `contexts`, two tables written one after
the other with interrupts enabled (`StoreCallback`, `StoreContext`, `Hook`); I2C
passes both on in one call. A registration is a callback with its context, so
`called.cb # called.ctx` is a callback called with somebody else's context. The
masks of enabled instances are the constant `Enabled`. `BusAssumption` says of them what
both boards have in common: the first SPI is enabled (`CONFIG_SPI_MASK`,
`pic32mx470f512h.h:85`, `pic32mz2048efm144.h:132`), and it is the only one whose callback is
hooked.

`SerialConsole` is the loop of `uart_read`, one turn at a time, over a UART that
stores a character or fails.

## 3. The runs

Twelve configurations; eleven must pass and one must fail (section 4).

| Run | Configuration | Instance | States | Shows |
|---|---|---|---|---|
| `scheduler` | `MCScheduler.cfg` | 4 tasks, ids modulo 3, creations without end | 102 000 | ring, head; refinement of `RoundRobin`; every task gets its turn once creations have ended |
| `sched_preempt` | `MCSchedPreempt.cfg` | 4 tasks, 5 creations, 1 kind of torn section | 894 000 | what goes wrong only when a tick hits which section; refinement of `Scheduler` otherwise |
| `event_queue` | `MCEventQueue.cfg` | 3 events, 2 blocks | 286 000 | first in, first out; delivery |
| `event_handlers` | `MCEventHandlers.cfg` | 4 registrations, 3 slots | 2 480 000 | the table is exact; calls of a delivery |
| `heap` | `MCHeapPreempt.cfg` | 3 words of 2 units, requests of 1 and 2, one call opened up among whole ones | 113 000 | accounting, headers, what puts two owners on one unit; refinement of `Heap`; calls end |
| `app_lifecycle` | `MCAppLifecycle.cfg` | 3 applications and the boot code, all incidents | 58 600 | no freed VM in use; what leaks after what |
| `file_systems` | `MCMountedFs.cfg` | 2 names, 2 values, 3 blocks, files of up to 2, one interrupted write, one interrupted create or remove | 477 000 | blocks are exclusive and come back; files keep their contents; both file systems implement `FileMap` |
| `vm_programs` | `MCAssembledVm.cfg` | all programs of 3 out of 33 lines, 64 raw programs, 5 steps, 20 bits | 141 000 | the program that runs is the one written; the buffers are not left |
| `devices` | `MCDevices.cfg` | 2 callers, 4 devices, each registered up to twice, tables of 3 and 1 | 2 180 000 | bounds, agreement, event order, active console |
| `timer_isr` | `MCTimerIsr.cfg` | 2 tasks, Count modulo 5, period 2, 11 cycles | 2 890 000 | ticks come when due; cycles are counted; registers are kept |
| `bus_drivers` | `MCBusDrivers.cfg` | 2 callers, 3 registrations, instances 0, 1 and 4 | 235 000 | a callback gets its own context; only enabled instances are used |
| `console_read` | `MCSerialConsole.cfg` | 2 characters, buffer of 3 | – | a violation: section 4 |

### 3.1 What the properties say

*Scheduler.* `RingIntact`: the ring is one cycle through exactly the allocated
tasks. `HeadIsCurrent`, `LostOnlyWhenAlone`: see 2.1 and section
4. `RoundRobinImplemented`: each call and each tick does to the sequence read
along the ring what the queue operation does. `EveryTaskRuns`: if creations end at some time, then
from there on every task in the ring gets the processor, whatever exits and kills follow, unless it is killed
first or the processor is lost. Without that premise it is false (section 4, starvation), and the
run does not bound the creations, so that the premise is all that excludes it. That ids are unique
while the counter has not gone round is proved (`IdsStayUnique`) and not run: here it goes round.

*SchedPreempt.* `PreemptInvariant` (types, and the head of the ring runs) holds
wherever ticks land. The others each name the sections they depend on:

| Property | Holds unless a tick has landed |
|---|---|
| `RingWholeUnlessTorn` | between the two stores of `insert_task`, or between the search of `task_destroy_current` and its store |
| `IdsClashOnlyIfTorn` | between the load and the store of `next_task_id++` |
| `ExitsFinishUnlessTorn` | between the unlinking and the end of the release |
| `AtomicCalls` | in any of these: then the module implements `Scheduler` |

These are the sections that need interrupts disabled for `scheduler.c` to be
what `Scheduler` says.

*EventQueue.* `QueueInvariant`: a head if and only if a tail, always; and
`QueueIntact` (a list that ends at the tail, of allocated entries not delivered
yet) until the leftover entry's block is handed out again. So do
`FirstDeliveriesInOrder` and `EveryEventDelivered`: an event that has its memory reaches its
handlers if its own task goes on with `event_trigger`, whatever becomes of the calls of others.

*EventHandlers.* `HandlersInvariant`: the table is exact, always, and within its
row unless two registrations pass the test together. `SteadyCalledOnce` always;
`UndisturbedDelivery` (none skipped, each with its own `ctx`) as long as nothing
is removed during the delivery.

*HeapPreempt.* `HeapInvariant`: a held block has its header unless a header was
`reused`; bitmap and blocks agree, bit by bit, until two owners share memory or `choice`, `word` or
`reused` has happened; and two owners share memory only after one of the
first four incidents of 2.5. Full words are among them: with no tick
at all, `crossed` is the way two blocks come to overlap. A crossing that hits
no block does no harm, and `BitsKept` says so. `SearchFindsFirst`: a search during
which no bit changes returns the first start of `Starts`, and gives up only if
no row fits. `AtomicHeapCalls`: with nothing torn but full words crossed, the
module implements `Heap`. `EveryCallReturns`: no interleaving keeps a call for ever whose task
gets the processor again and again, also where others stop inside theirs.

*AppLifecycle.* `AppInvariant` (no freed VM in use, never two references)
whatever is killed, fails or is interrupted, an exit included; `LeaksOnlyAfterIncident` and
`EndedAppsAreFreed` name the incidents after which memory is lost: a failing `task_create`, a tick before
the store to `priv_data`, a tick inside an exit, and, for an application that is killed itself, the kill.

*MountedFs.* Each property names the incidents after which it says nothing (`grows` is of
`ramfs`, the others of `ramfs2`). Without any one of them TLC finds a counterexample, but for two in
the third: after `junk_freed` and `same_node` no further call begins that would show the damage
(`Spoilt`), namely a write that takes the block of another file, and what an interrupted
call does to a node that is no longer its own.

| Property | Says | Until |
|---|---|---|
| `FsInvariant` | types; the blocks of different files are disjoint, of a file that is being removed those not yet given back | `grows`; `junk_freed`, `same_block`, `same_node` |
| `NoBlockLost` | a marked block of `ramfs2` is in a file, or about to be entered | `forgotten`, `same_node`, `lost_node`, `same_name` |
| `OthersKeepTheirContents` | a file that a call does not name reads as before, but for one that is just being removed | `grows`, `junk_freed`, `same_block`, `same_node`, `lost_node` |
| `FileMapImplemented` | every call that returns 0 has done what was asked, an interrupted one when it ends; one that fails has damaged at most the file it wrote | any incident but `forgotten` |

`OthersKeepTheirContents` goes further than the refinement: it holds also after the end of the
disk was reached, a renaming or a second create hid a file, the disk is missing, or a block
of a file that is half removed was taken by another.

*AssembledVm.* `RunsTheSource`: as long as every executed word says what its
line says, each step is the step the source means by `opcodes.h`. `Survives` lists which lines
do. `VmInvariant`: registers keep their width and zero its value, and for a
program that returns only where it was called from and addresses words from
register zero, the tests of `vm_step` suffice.

*Devices.* `RegistryInvariant`: `TablesBounded` (unless two callers are past
the test at once) and `TablesAgree` (no freed device, none twice, unless one was registered
while in use; agreement unless the device table was full when a storage device came).
`AddedThenRemoved` (unless a device is removed before its registration has triggered its event, which
cannot happen to a storage device, or registered while in use).
`ActiveConsoleValid` (unless one was unregistered that is active or about to be, the table was
shifted under `device_get_by_name`, or a device was registered while in use), and `FirstConsoleStays`
(unless two were choosing at once).

*TimerIsr.* `TickWhenDue`: as long as nothing in `late` has happened, an interrupt is
pending or being handled exactly when one is due; there is no drift, however long
the handling takes below a period and wherever the registers wrap.
`CyclesAccounted`: every cycle a task executes is in its `total_cycles` when its
slice ends, as long as no slice outlasts a turn of Count (`EveryCycleAccounted`), and no
cycle is counted for two (`NoCycleTwice`). `ContextKept`: a task that was interrupted goes on with its own registers,
all but `at`; one that never ran begins at its entry, with its argument, on its
stack, and returns into `task_exit_handler`. That holds also where the interrupt
saves nothing (boot, and after an exit).

*BusDrivers.* `BusInvariant`: only enabled instances are set up or called back from,
always as masters, although no layer tests all of it; and between two calls of
`set_callback` a row is one registration, the last that was accepted, unless two
overlapped on the row or a number without a row was given. `CalledWithOwnContext`: a
foreign context needs an interrupt between the two stores or one of these.

### 3.2 The bounds, and why they are enough

- *Tasks: 4.* A ring of three has a head, a predecessor and a task in between,
  so that insertion, removal of a neighbour and removal of a non-neighbour are
  different; the fourth structure lets a freed one be allocated again while the
  others are in use. Some races (section 4) need all four.
- *Creations: `CreateIds`.* A task is created only while the counter is in this
  set. In `scheduler` these are all ids and `IdModulus` is 3: creations go on without end, and
  ids are used again while a task with the same one lives (four structures, three ids). In
  `sched_preempt` there are at most five creations, and `IdModulus` is one more than the largest id, so that
  the counter reaches its last value and does not come round. One more creation than
  structures means that at least one structure is used twice.
- *Torn sections: `MaxTorn` = 1.* Ticks may land in one kind of critical
  section per behaviour, as often as they like. It keeps the run short. The
  same properties have been checked with `MaxTorn` = 2 (four tasks, 8.2 million
  states) and `MaxTorn` = 3 (three tasks).
- *Events: 3, blocks: 2.* A queue with a head that is not the tail, and a third
  event to be dropped or to reuse a freed block.
- *Registrations: 4, slots: 3.* One more than fits; three slots have a first, a
  middle and a last one to remove.
- *Heap: 3 words of 2 units, requests of 1 and 2.* A full word can have free units
  on both sides, a row can cross a word boundary, and a word has a neighbour bit to be
  undone. A word of 32 units behaves the same: the code looks at a word only as full or
  not full and at its units one by one. `MayBegin`: after the first of the harmful
  incidents calls in progress end and none begins; what follows a damaged heap says
  nothing more about the code. `Caller` has one member: the calls that interleave
  with it are whole ones, which is what a tick inside it leads to unless a second tick hits
  the other call too. With two callers, both access by access, all four properties have been
  checked on 2 words (450 000 states) and, with at most two held blocks, on 3 words (1.06
  million states), where a search can cross a full word while the other call is between two
  stores. The safety properties are proved for any number of callers (section 5).
- *Interrupted calls: one write and one create or remove at a time.* The calls that come
  between their steps are whole, or are the other of the two. `Spoilt`: after an
  incident that damages files no call begins; those under way end. `FewIncidents`: no state with three
  kinds of incident is followed. Each property names its incidents one by one, so what two of
  them do together is already excluded where either is named; the theorems do not have
  this bound.
- *Time: `MaxTime` = 11 cycles, `CountModulus` = 5, `Period` = 2.* Five ticks; Count
  goes round twice, Compare with it, and neither divides the other, so that ticks fall on
  both sides of a turn. A slice can outlast a turn.
- *Buses:* instance 1 has a row and is not enabled, 4 has no row in the UART's table and
  both lie outside or inside SPI's table of two. Three registrations: two that cross and one
  that was there.
- *Disk: 3 blocks, files of up to 2, 2 names.* Two files fit or do not, a row
  can run into the next and over the end, a write can run out half way.
  `MaxFree` (4) bounds `next_free_block`, which never comes back: it can pass
  the end of the disk. `MaxNodes` (2) bounds the list; a create that fails for
  want of memory is always possible too.
- *Programs: 3 lines, `MaxSteps` = 5.* Long enough to compute an address or
  make a call, use it, and come back; the steps bound loops. The lines have
  immediates at the borders of 8 and 16 bits, and one names a register that does not exist. `RawCode` has the instructions
  that the assembler does not know, a branch and a jump out of the code, a jump
  to an address that is no multiple of 4, and a load from the last word of the
  address space. `RamSize` is two words. `WordBits` = 20 leaves addresses above
  16 bits, which is what the immediates and sums need to be told apart.
- *Devices: 2 storage devices and 2 consoles, for tables of 1 and 3.* Both tables
  can be full while somebody registers; one of each kind is allocated and one is not. `Rounds` = 2: each
  device is registered twice at most, after its removal or while it is still there. Two
  callers race, or one removes under the other; `FewIncidents` as above.
- *Applications: 3.* Loader, loaded, and a third to kill either.

Symmetry is used where a run has no liveness property: tasks in
`MCSchedPreempt`, registrations in `MCEventHandlers`, names and values in
`MCMountedFs`, callers in `MCDevices`, callers and registrations in
`MCBusDrivers`. `MCMountedFs` has a `VIEW` (`FsView`) that leaves out what nothing reads again: `call`, the
label of the last step; what stands in a block that no file has, which is written before it is
read; and the number of the block that a write has already entered. States that differ in these only
have the same successors but for them; TLC still evaluates the action properties, which read the new
label, on every step it generates. `CHECK_DEADLOCK FALSE` is said only
where the system stops: in `lost`, in a dangling ring, after an overlap,
when leaked VMs have used up the heap, when a program has ended, when every device has been
registered and removed, or when the time of `MaxTime` is over.

### 3.3 Fairness

A task gets the processor again only while it is in the ring: one that is killed, or has
unlinked itself in `task_destroy_current`, may stop for ever inside any call it has begun
(`event_trigger` and `mem_free` are called after the unlinking). So no specification
assumes that begun calls end. What a caller needs is the premise of the property about
that caller, and nothing is assumed of the others.

- `Scheduler`: weak fairness of the tick, in the specification. The timer is periodic
  hardware, re-armed by every interrupt. Nothing is assumed of the tasks: they need not create, kill or
  exit. `EveryTaskRuns` has the premise that creations end (`<>[][tasks' \subseteq tasks]_vars`).
- `EventQueue`: weak fairness of the dispatcher, in the specification: it is a task that never ends and that
  nothing kills, and `EveryTaskRuns` gives it the processor. `EveryEventDelivered` has
  the premise, for each event, that its task goes on to `TriggerQueue`.
- `AppLifecycle`: none in the specification. `EndedAppsAreFreed` has the premise that the task of the
  application takes the steps of its exit; a tick after the unlinking disables them for ever, and is named as
  the incident `lost_exit`.
- `HeapPreempt`: none in the specification. `EveryCallReturns` has the premise, for each caller, that it goes on.
- The other modules state safety only and no fairness.

## 4. Known disagreements

One run checks a property that the repository's own words state, and finds it
violated by what the code does.

| Run | Property | What happens |
|---|---|---|
| `console_read` | `ReadReturnsBytesRead` | `uart_read` goes on only while `arch_uart_read` returns 1 (`usart_console.c:24`), which returns 0 or -1 (`usart_impl.c:109`). The loop ends after the first byte and the caller is told that none was read; `console.h:46` promises the number of bytes. |

The conditional properties of section 3 stand for further ones. Each condition
is there because TLC showed the counterexample when it was left out:

- *Lost interrupt* (`LostOnlyWhenAlone`). With one task in the system
  `switch_to_next` returns; `timer_callback` returns; `core_timer_isr` ends
  there without `eret`, because the tail that restored the context is commented
  out (`core_timer_isr.S:109`). The processor runs on into whatever follows.
- *Kill race* (`RingWholeUnlessTorn`). A tick between the load of
  `ready_list->next` and the store to it (`scheduler.c:41`): the successor is
  killed, and the new task points to freed memory.
- *Lost event* (`QueueInvariant`, `EveryEventDelivered`). The dispatcher frees its
  leftover entry again; the block meanwhile was a queued event and is
  overwritten by the next allocation (`event.c:58`).
- *Overlapping blocks* (`HeapInvariant`). `find_free_units` steps over a full word
  without resetting its count (`mem_alloc.c:61`): free units on both sides of it are
  returned as one block that covers the word, and with it memory in use.
- *Heap calls that meet* (`HeapInvariant`, `AtomicHeapCalls`). Two searches return the
  same units (`mem_alloc.c:104`); a bit operation undoes the neighbour's, so that a
  block in use is offered again or a free one never; a `mem_free` erases the magic of a block
  that was allocated over its header in the meantime (`mem_alloc.c:139`), which can then
  never be freed, or clears as many bits as the new header says.
- *Double id.* Two `task_create` calls read `next_task_id` before either stores
  it (`scheduler.c:72`).
- *Exit race.* `task_destroy_current` finds `prev`, a tick lands, `prev` is
  killed or exits: the store goes to freed memory, and the leaving task stays
  linked after it has been freed.
- *Dropped task.* The same window, and `prev` creates a task behind itself: the
  store `prev->next = current_task->next` overwrites the link to it.
- *Half-built task in the ring.* A task preempted between the stores of
  `insert_task` resumes when its remembered successor has been killed and its
  structure allocated again by a `task_create` that is not finished.
- *Lost exit* (`ExitsFinishUnlessTorn`, `LeaksOnlyAfterIncident`). A tick after the unlinking (`scheduler.c:98`)
  and before the end of the release (`:118`): the task is never scheduled again,
  its event is not sent, its VM and its memory are not freed.
- *Starvation.* After an exit `ready_list` is already the successor of the task that
  ended, and the next tick runs the one *behind* it (`scheduler.c:222`). If one
  task creates and another ends in every round, the successor is passed over
  for ever. New tasks also go in front of all that wait. `EveryTaskRuns` without its premise is
  violated in run `scheduler`.
- *Repeated handler calls.* With an empty queue the dispatcher delivers the last event
  again, in every turn.
- *Skipped handler, foreign `ctx`, overfull row.* Removal during a delivery;
  removal between the two loads; two registrations that pass the test together.
- *Leaks.* A kill of a `READY` or `RUNNING` VM (`vm_ref_dec` frees only
  `HALTED` and `ERROR` ones, `vm_core.c:88`); a failing `task_create`
  (`vm_destroy` only marks a VM that has a reference, and nobody drops it,
  `app_loader.c:116`); a task that ends before its `priv_data` is stored
  (`app_loader.c:121`), where the store moreover goes to a freed structure; a lost exit.
- *Shared rows.* Two `ramfs` files created before the first is written begin at
  the same block (`ramfs.c:126`), and a file rewritten with more blocks runs into
  the next. The end of the disk and a missing disk are not noticed: the write
  returns 0. A rename onto an existing name leaves two files of one name.
- *Blocks that do not come back.* A rewrite in `ramfs2` keeps the old blocks
  marked (`ramfs2.c:153`); `ramfs` never gives a block back.
- *Unfilled entries.* A `ramfs2` write that fails half way leaves entries that
  are read and unmarked later (`ramfs2.c:159`).
- *Bytes read and written.* `fs.h:50-68` and the comment at `kernel_services.c:88` say that a read and
  a write return the number of bytes; both file systems return 0 (`ramfs.c:152`, `:174`,
  `ramfs2.c:164`, `:181`), and the storage service takes 0 for the success of a write (`kernel_services.c:99`),
  so that a file system which did what `fs.h` says would be reported as failing. `FileMap` follows the
  service. `ramfs2` moreover reads whole blocks whatever length was asked for.
- *Interrupted writes* (`FsInvariant`, `OthersKeepTheirContents`). Two applications
  write different `ramfs2` files and `alloc_block` gives both the same block
  (`ramfs2.c:94`); or one removes, or writes, the file that the other is writing.
- *Interrupted creates* (`NoBlockLost`, `OthersKeepTheirContents`, `FileMapImplemented`). A tick between
  `node->next = ctx->head` and `ctx->head = node` (`ramfs2.c:136`): files created meanwhile are no
  longer in the list, though their creation has returned 0, and their blocks stay marked. A tick after
  `find_file`: two files of one name, of which the older is hidden, and its blocks with it, until the newer is removed.
- *Interrupted removes* (`FsInvariant`, `OthersKeepTheirContents`, `FileMapImplemented`). The blocks are unmarked
  (`ramfs2.c:191`) before the node is unlinked (`:193`): another write takes them while the file can still be
  read, and then shows the other's data. If the node was the head, files created meanwhile drop out when
  `ctx->head` is set. If the file is written meanwhile, what is unmarked is the new array's.
- *Words that say something else.* A branch that is taken lands one instruction
  before its label (`vm_asm.c:102` counts from the next instruction, `vm_step`
  from the branch). The high byte of an immediate shares its bits with `rs`, so
  values outside 0..255 change the base register (`vm_asm.c:112`). `ADDI` reads
  8 bits (`vm_core.c:141`; `opcodes.h:42` says 16). `LUI` takes the upper half of its operand (`vm_asm.c:74`)
  and shifts it back up, where `opcodes.h:69` says `imm << 16`: `LUI t0, 5` is 0, not 5 * 65536. For an
  address this is the upper half that `app0.s:72` wants; a source written from `opcodes.h` says `hi(x)`, which
  the assembler's `LUI` does not look for and which then has the same value. `LOAD` and `STORE` add an
  immediate (`vm_core.c:14`, `:184`) where `opcodes.h:126` and `:134` add two registers: a register as
  index is looked up as a constant and becomes 0 (`vm_asm.c:86`, `:95`), so that `LOAD t1, zero, t0` ignores `t0`. In
  `LOAD ra, sp, zero` of `app0.s:105` the base register moreover is bits 8 to 15 of the immediate, so that
  the address is `sp + 29 * 256`, not `sp`. `LOAD rd, x(base)` loses its base, since the name ends in a parenthesis (`vm_asm.c:83`).
  The third register of `LOADB` is not
  encoded, the operands of `STOREB` do not arrive where `vm_step` looks. An
  unknown mnemonic becomes the word 0, which stops the program when it is
  reached.
- *Wrapping tests.* `pc + 4` and `address + 4` wrap before they are compared, so
  the last word of the address space passes (`vm_core.c:117`); `pc` is not
  tested for alignment, nor the register fields for 0..31.
- *Crowded and outrun.* Two registrations that pass the bound together; a
  storage device without a place in the device table; a device whose removal is
  announced before its arrival; an active console that was unregistered.
- *Registered twice* (`RegistryInvariant`, `AddedThenRemoved`). `device_register` does not look whether the
  device is in the table (`kdevice.c:12`): registered twice and unregistered once it stays there, freed if it was allocated.
- *The wrong console* (`ActiveConsoleValid`). `device_get_by_name` enables interrupts and then reads
  `devices[i]` again (`kdevice.c:57`): an unregistration in between shifts the table, and
  `console_set_active` activates another console, or a removed one behind the table, than the one it was asked for.
- *Ticks that do not come* (`TickWhenDue`). A timer initialised after its first period,
  a first tick that is pending when `scheduler_init` enables (and clears) the interrupt, a
  tick handled a period late: Compare is behind Count and the next tick comes when
  Count has gone round, about 107 s at 40 MHz. `arch_systick_start` repairs Compare
  but does not enable the interrupt, and compares Count and Compare as if they did not wrap.
- *Register `at`* (`ContextKept`). `core_timer_isr.S:27` says 32 registers are saved
  and `pic32mx_cpu_impl.S:52` that all 32 are restored; `at` (`CpuContext` offset 80) is
  neither, and a preempted task goes on with what others left in it.
- *Callbacks* (`BusInvariant`, `CalledWithOwnContext`). A registration for a UART or SPI
  instance that is refused has overwritten the row all the same; SPI uses the
  instance number as an index before it is tested (`bus_spi_impl.c:116`); an interrupt between
  the stores gets the new callback with the old context.

Four more follow from the code without a run, because nothing ties the two sides
together and so no property could hold:

- *Code in the loader's RAM.* The code of an application loaded by another one is not
  copied: `code_buffer` points into the RAM of the loader (`kernel_intent_dispatcher.c:35`,
  `vm_core.c:41`), which is freed when the loader ends.
- *Freed devices in events.* `device_unregister` queues `EVENT_DEVICE_REMOVED` with a pointer
  to the device and then frees it (`kdevice.c:47`): whenever the dispatcher runs
  later, its handlers get a freed structure. No handler is registered in the repository.
- *Index behind the table.* `storage_get` tests its index before it disables interrupts (`storage.c:53`), so
  that it may return what stands behind the table. It changes nothing, its one caller runs at boot, and it is not modelled.
- *No caller of `systick_init`.* Without it `arch_systick_tick` returns at once, Compare stays
  at its reset value, and a tick comes once in a turn of Count.

## 5. The proofs

Eight modules of proofs, all checked by TLAPS to the last leaf. None of them assumes
more of the constants than the named assumption in the module it is about, which says
only what the code fixes: that `NULL` (or `EMPTY`) is none of the structures, that a bound is a
number, that a modulus is large enough to count with. Where the sets of tasks, callers,
devices, events and blocks are not said to be finite they may be infinite; only the
registrations of `EventHandlers` are finite, because slots are counted against them.

| Module | Theorem | Says | Assumes |
|---|---|---|---|
| `SchedulerProofs` | `TypeCorrect` | `[]TypeOK` | `ConstantsAssumption` |
| | `RingStaysIntact` | `[]RingIntact` | the same |
| | `HeadStaysCurrent` | `[]HeadIsCurrent` | the same |
| | `LostImpliesAlone` | `[]LostOnlyWhenAlone` | the same |
| | `IdsStayUnique` | `[]UniqueIds` | and `NoWrap`: the counter is not allowed to come round |
| | `RingIsQueue` | `RoundRobinImplemented`: the module implements `RoundRobin` | `ConstantsAssumption` |
| | `HeadSurvivesTicks` | `[]PreemptInvariant` | `ConstantsAssumption`, `PreemptAssumption` |
| | `RingSurvivesTicks` | `[]RingWholeUnlessTorn` | the same |
| | `ExitsFinish` | `[]ExitsFinishUnlessTorn` | the same |
| | `IdsSurviveTicks` | `[]IdsClashOnlyIfTorn` | and `NoWrap` |
| | `CallsAreAtomic` | `AtomicCalls`: the module implements `Scheduler` while nothing is torn | the first two |
| `EventProofs` | `QueueStaysIntact` | `[]QueueInvariant` | `EventAssumption` |
| | `HandlersSeeQueueOrder` | `[]FirstDeliveriesInOrder` | the same |
| | `HandlerTableExact` | `[]HandlersInvariant` | `HandlersAssumption` |
| | `UndisturbedDeliveryComplete` | `[]UndisturbedDelivery` | the same |
| | `NoHandlerTwice` | `SteadyCalledOnce`, an action property | the same |
| `HeapPreemptProofs` | `HeapInvariantHolds` | `[]HeapInvariant` | `HeapAssumption` |
| | `SearchesFindFirst` | `SearchFindsFirst`, an action property | the same |
| | `HeapCallsAtomic` | `AtomicHeapCalls`: the module implements `Heap` while nothing worse than `crossed` has happened | the same |
| `ServiceProofs` | `VmsOutliveTheirUsers` | `[]AppInvariant` | `AppAssumption` |
| | `LeaksNeedAnIncident` | `[]LeaksOnlyAfterIncident` | the same |
| | `FilesStayApart` | `[]FsInvariant` | `DiskAssumption`, `RamfsAssumption`, `JunkAssumption` |
| | `NoBlockIsLost` | `[]NoBlockLost` | the same |
| | `OtherFilesSurvive` | `OthersKeepTheirContents`, an action property | the same |
| | `FilesAreAMap` | `FileMapImplemented`: the module implements `FileMap`, the map the storage service takes it for, until an incident spoils it | the same |
| `DevicesProofs` | `RegistryStaysExact` | `[]RegistryInvariant` | `DeviceAssumption` |
| | `EventsInOrder` | `[]AddedThenRemoved` | the same |
| | `ActiveConsoleStaysValid` | `[]ActiveConsoleValid` | the same |
| | `FirstConsoleKept` | `FirstConsoleStays`, an action property | the same |
| `TimerIsrProofs` | `InterruptWhenDue` | `[]TickWhenDue` | `TaskAssumption` and that of `SysTick` |
| | `RegistersSurviveInterrupt` | `[]ContextKept` | the same |
| | `CyclesAreAccounted` | `[]CyclesAccounted` | the same |
| `BusDriversProofs` | `BusStaysWhole` | `[]BusInvariant` | `BusAssumption` |
| | `CallbacksGetTheirContext` | `CalledWithOwnContext`, an action property | the same |
| `VmProofs` | `TamePrograms` | `[]VmInvariant` | `WordAssumption`, `VmAssumption` |
| | `SourceMeaning` | `RunsTheSource`: the module implements `SourceMachine` while no word is misread | the same |

Each of these modules begins with an inductive invariant, a conjunction of named parts
(`SchedulerProofs`, `EventProofs` and `ServiceProofs` have one for each of their two
subjects; in `VmProofs` it comes after the arithmetic of words). TLC has
checked it on the instance of the module's run before it was proved. There follow a
lemma for each action, the lemma that the invariant always holds, and the theorems.
What the parts are for:

*Scheduler.* The inductive invariant `IInv` is `TypeOK`, `RingIntact`,
`HeadIsCurrent` and `LostOnlyWhenAlone` together. None of them is inductive on
its own: that a kill keeps the ring needs that the target is not the head,
hence `HeadIsCurrent`; that a tick gives a live `current_task` needs the ring;
that the interrupt handler is left only when alone needs that a cycle whose
head is its own successor has one element. The pointer reasoning is in four
lemmas about functions that are a single cycle (`CycleOne`, `CycleInsert`,
`CycleRemove`, `CycleAlone`), which know nothing of the scheduler. The hard
conjunct is `SingleCycle`: a set closed under the *new* `next` is closed under
the old one once the inserted task is left out, or the removed one added.
`IdsStayUnique` has an invariant of its
own, that the counter is above every id in use (`FreshIds`), because uniqueness
alone does not say why the next id is new.

`RingIsQueue` reads the ring as the sequence `RingSeq`, a recursive function along `next`. `Lists`
says of a sequence that it has every task once, from `ready_list` on, each followed by
its `next`; there is only one such sequence, and the walk finds it (`WalkIsList`, by
the first place at which it would not). So it is enough to say for each operation which sequence
lists the ring after it: `ListInsert`, `ListRemove` and `ListRotate`, again pure facts about sequences. That
a kill never meets the head, whose predecessor the code forgets to relink, comes from
`IInv`.

*SchedPreempt.* Two layers. `AnyTicks` holds wherever ticks land: the head runs, and the structure that
a task builds is its own (`BuildsItsOwn`), so that half-done calls cannot meet in one
structure. `RingWhole` holds while no tick has hit the three labels of `RingUntorn`: `Ring`, the
published tasks not on their way out, is one cycle, by the same four lemmas; `ready_list`
enters it, or is the leaving task that has just been unlinked (`HeadEntersRing`); the predecessor
that an exit has found is still the predecessor (`SearchIsCurrent`), and the
successor that `insert_task` has stored still the successor (`LinkIsCurrent`). The last two are
exactly what a tick between the load and the store would make stale; nothing about other labels is
needed, which is why ticks elsewhere do no harm. `torn` only grows (`TornGrows`), so what is
untorn after a step was so before it. The ids have the same shape: `IdsReserved` says what
must not change between the load and the store of `next_task_id++`.

`CallsAreAtomic` proves the refinement step by step. `Members`, `ViewNext` and so on show
`Scheduler`'s variables as if every call in progress had happened at one moment: a creation when its
structure is published, an exit when it is unlinked. Each lemma `View...` is
about one kind of step: `ViewPublish` is a `LoadApp`, `ViewUnlink` a `TaskDestroyCurrent`,
`ViewBoot`, `ViewKill` and `ViewInterrupt` are the boot code, the kill and the tick, and the others
leave the view unchanged.

*EventQueue.* The invariant ties the pointers to the sequences the properties speak about. `order` has what was
queued, `Taken` counts what the dispatcher took, and `QueueIsList` says that
the entries in between are linked in this order from `queue_head` to `queue_tail`.
`EntryTakenLast` is about the leftover `entry`, freed or not: its contents are still
those of the event taken last, which makes a repeated delivery a repetition
and not a first delivery of something else. That a walk along `link` visits exactly the entries of
`QueueIsList` (`ListIsQueued`) is an induction along the queue. It is proved by the least number that
would not be reached (`SmallestOf`, from the well-foundedness of the natural
numbers), since induction over a formula is not available.

*EventHandlers.* `TableOneToOne` makes the row a bijection with the registered pairs. The two
directions about a delivery are separate: `CalledLiesBehind` (what was called lies
below the loop's index, where removals can only move it further down) gives
`SteadyCalledOnce` whatever is removed; `BehindIsCalled` (what lies below was
called) gives `UndisturbedDelivery` and holds only while nothing is. `RoomForChecked` says that
without a race the test of `event_register` is still true when it stores.

*HeapPreempt.* `HeapInductive` adds to `HeapInvariant` that blocks, headers and
locals stay within the heap, and three parts about who works where. `OwnersApart`: until two owners
share memory, no two of the blocks that are held or being marked overlap.
`ReleasesKnowSize`: what a `mem_free` still reads of the header is the size of its block.
`ReleasesApart`: a block being released is nobody else's, and what is behind the loop's index is free. Together they make every half-done bit operation
a change of one call's own units, which `BitsKept` needs.

`SearchesExact` is the loop invariant of `find_free_units`, for a search during which no bit has changed: the
units it has counted are free, their number is `count`, and no start that `Starts` allows
lies before the one it holds. `FoundIsFirst` and `GiveUpIsRight` turn it into
`SearchFindsFirst`; the arithmetic of words (`DivMod`, `NextWord`, `NextInWord`) and the least and
largest elements of sets of units (`MinOf`, `MaxOf`, from the well-foundedness of the naturals and
the library's facts about finite cardinalities) are lemmas.

`HeapCallsAtomic` shows the two steps that count, the end of a search (`AllocRefines`) and
the end of a release (`FreeRefines`), to be `MemAlloc` and `MemFree` of `Heap`, and that all
others leave the settled bitmap and blocks unchanged (`HeapStutters`). The proof
showed an interleaving of two callers that the run with one does not have: a search whose row crosses a
full word can choose a block that a `mem_free` is in the middle of releasing. None of
the bits it counted changes, yet no atomic order of the calls explains it. It is
therefore a `choice` (2.5).

*AppLifecycle.* `LoadsApart`: a load in progress is the only one of its VM, and the task has no
`priv_data` before its store; so no destruction can take a VM away from a
loader or drop its one reference twice. `ExitsApart`: a task that has left the ring and not yet
dropped its reference is the last user of a VM in a final state, so that no load or kill is about it. `LoadedTaskThere` says that without an incident the task is still there when its
`priv_data` is stored.

*MountedFs.* `FsInductive` is about exclusive blocks. In `ramfs` the rows are kept
apart as rows of numbers (`RowsApart`), including those beyond the end of the disk,
because `next_free_block` runs on there. In `ramfs2` a block stands in one entry of one
array and is marked (`EntriesExclusive`), so that the block which a search finds
unmarked is in no file; `MarkedIsHeld` is the converse. `ArrayIsWriters` and
`BlockIsWriters` say of an interrupted write that the array it fills is still its
file's, and that the block it has taken is in no array yet. `RemovedIsThere` and
`GivenBackIsFree` say of an interrupted remove that its file is still in the list with the entries it
counts, and that what it has unmarked stays unmarked until somebody takes it. Since the
entries it has passed no longer count for the file (`Kept`, `Held`), a block that another write takes there is
still in one entry only; this is what the weakened `FsInvariant` says, and why it needs no
incident for it. `WriterTypeOK`, `OpenAreRecords` and `OneMounted` say what the locals of calls under way are,
and that only the mounted file system has any. `same_node` is what keeps all of this: a call that meets
the node of another ends the other's record. What an uninterrupted write allocates
is a function defined along the array: each entry gets the lowest block that is free
after those before it. That this takes free blocks only, and none twice, is shown by
the least index at which it would not (`LeastOf`, `AllocatedStep`, `AllocatedBlocks`).

`FsFaithful` adds what the contents need: names are unique in the list of nodes unless
a file was renamed to a name in use (`NamesUnique`), and what an interrupted write has
written so far is on the disk (`WrittenSoFar`), which is what its end promises.
`RamfsKept` and `Ramfs2Kept` say when a file is read as before: its row or array is
the same and nothing was written to its blocks. Each kind of call is then shown to be
the operation of `FileMap` that its name says, or to change nothing (`MapStep`), and to
keep the other files (`OthersStep`). `WrittenFits` and `WrittenReadBack` are the disk's
part: what fits and was written is read back. A create that drops files, a remove at a head that is no longer
the head, and a name that is there twice change `Readable` in a way no operation of `FileMap` does; each is
an incident of its step, and `MapStep` asks nothing after it. `OthersStep` asks more: what is left in the list reads as
before after `same_name`, and also while the blocks of a half-removed file are written by others.

*Devices.* `PhasesFit` says what the place of a caller tells of its device. As long as no device was registered
while in use (`Once`), `OneAtATime` and `NotYetOrNoMore` say who can be inside which call for a device: at
most one registering and one leaving, the second only after the first has inserted it, and it stands in no
table before and after. That the tables hold no device twice and none that is freed follows from these
and is not built into the actions: `RegisterTest` lets any device in. `RoomForTested`,
`StillPlugged` and `ConsoleChosen` carry a tested condition (room in the table, device still there, no
active console yet, the entry found by name) to the step that uses it, each up to the
incident that makes it stale. `EventsTell` gives `announced` from where the device is.
The lemmas `AppendTable`, `RemoveAtEntries` and `WithoutTable` say what the shifting loops do to a table.

*TimerIsr.* `TimerOnTime`: as long as nothing is late Compare is `due` modulo the width
of Count and `due` is at most a period ahead, so that Count and Compare are equal at
`due` and at no time between now and then; this is where the module needs its lemmas
about sums and differences modulo `CountModulus`. `AccountOpen`: `last_count` is the stamp of the
slice modulo `CountModulus`, hence the wrapping difference at its end is its length if
that is below a full turn. `OthersSaved`: whoever does not run has its registers, or those of its
beginning, in its context.

*BusDrivers.* `CallsInProgress`: a caller between its stores either finds in the row what
it wrote, or its instance is in `crossed`. `BusAssumption` is used for `Hook`:
that a hooked SPI instance is enabled depends on the boards (2.11).

*AssembledVm.* The theorems hold for words of 17 to 32 bits, so for the 32 of the code, and for any
set of programs, memory size and answers of the kernel. `IInv` is the types, whatever the
code (`VmTypes`); that the code is what `Assemble` makes of the source (`SourceOK`); and
`OnTrack`: a tame program of which nothing was misread has `pc` and its return address at one
of its lines or its end, and its state is not `UNDEFINED`. `VmInvariant` alone would not do:
that a fetch stays inside needs where the last jump led, and that a `RET` does needs what is in
`ra`. `TameInside` shows that the tests of `vm_step` then suffice, `TameStep` that every
instruction leads to such a place again.

Three groups of lemmas carry it. *Words*: powers of 2 are not known to the provers, so `Doubling`
gets 2^(n+1) = 2 * 2^n from the number of subsets of a set, `PowerSum` and `WordCut` the rest; `FromBitsWord` and `FromBitsOf` say that
a sum of bits is a word, and the word whose bits they are, by the least index at which they would not; `OrSame` is why
an immediate and a register can share a byte when they agree; `UpperHalf` is `LUI`, whose value is
cut twice. *Encoding*: `Encoded` lists the four bytes `assemble_line` makes of each mnemonic, and `Says` what
`vm_step` reads from them if the word survives: the same registers, and the value the line
names, sign included. This is where `Survives` is used, and it shows that the list is complete: no further
condition on a line was needed. *Steps*: `StepOf` sorts the steps of `vm_step` by opcode, and
`ArithmeticStep`, `LoadStep`, `StoreStep`, `LoadByteStep`, `ControlStep`, `SystemStep` and
`FaultStep` show each to be the step of `SourceMachine` for its line. A test whose sum wraps agrees
with the source's bound unless it lets through a word that is not there, which is
`UNDEFINED` (`WordTests`).

*Only model-checked.*

- Liveness under fairness is out of the prover's reach: `EveryTaskRuns`,
  `EveryEventDelivered`, `EndedAppsAreFreed`, `EveryCallReturns`. These are all the
  properties of the passing runs that no theorem states.

## 6. What is not modelled, and the plan

Not modelled for good: transfers over the buses, which pass their arguments to
vendor code that is not in the repository; parsing of assembler text; constant answers of
services; `mem_pool`, which nobody calls, so that nothing says which calls are legal and from
where; the driver's copies of Compare, which nobody reads; vendor headers.

Abstracted in what is modelled: the contents of events, names and codes; the
checks of an application's header (a load succeeds or changes nothing); values in
registers, which are names.

Further: bytes within a block, and names that fill `file_t.name` without a
terminator; the parameters of a `VCALL`; text, symbols and the file header in
the assembler.

Left to model, should callers appear: `mem_pool`, `task_get_system_cycles`,
interrupted `ramfs` calls, interrupted reads, two interrupted calls of the same kind in `ramfs2`.
