------------------------------- MODULE Devices -----------------------------
(***************************************************************************)
(* The device registry (kernel/device/kdevice.c), the storage devices      *)
(* (drivers/storage/storage.c) and the active console                      *)
(* (kernel/device/console/console.c), with their functions called by       *)
(* several tasks.  What lies between cpu_irq_save and cpu_irq_restore is   *)
(* one action; a tick may land between any two actions.                    *)
(***************************************************************************)
EXTENDS Integers, Sequences, SequencesExt

CONSTANTS
    Caller,         \* the tasks that call
    Dev,            \* the devices
    Storage,        \* those that are registered by storage_register
    Console,        \* those that are registered by console_register
    Allocated,      \* those with dev->allocated set
    MaxDevices,     \* MAX_DEVICES
    MaxStorage,     \* MAX_STORAGE_DEVICES
    Rounds,         \* bound: how often each device is registered
    NULL

ASSUME DeviceAssumption ==
    /\ Storage \subseteq Dev /\ Console \subseteq Dev /\ Allocated \subseteq Dev
    /\ Storage \cap Console = {}
    /\ NULL \notin Dev
    /\ MaxDevices \in Nat /\ MaxStorage \in Nat /\ Rounds \in Nat

VARIABLES
    devices,        \* devices[0 .. device_count - 1]
    storage_devs,   \* storage_devs[0 .. storage_count - 1]
    active_console,
    pc,             \* where each caller is
    dev,            \* the device of its call
    slot,           \* the i that device_get_by_name has found
    freed,          \* the devices given back to the heap
    registered,     \* how often somebody has begun to register each device
    announced,      \* history: of each device, how many more events say that it
                    \* was added than that it was removed
    incidents       \* history: what has come in between

vars == <<devices, storage_devs, active_console, pc, dev, slot, freed, registered,
          announced, incidents>>

tables == <<devices, storage_devs>>

TypeOK ==
    /\ devices \in Seq(Dev) /\ storage_devs \in Seq(Storage)
    /\ active_console \in Dev \cup {NULL}
    /\ pc \in [Caller -> {"idle", "insert", "store", "added", "first?", "activate",
                          "found", "switch", "base", "removed", "release"}]
    /\ dev \in [Caller -> Dev \cup {NULL}]
    /\ slot \in [Caller -> Nat]
    /\ freed \subseteq Allocated
    /\ registered \in [Dev -> Nat]
    /\ announced \in [Dev -> Int]
    /\ incidents \subseteq {"crowded", "table_full", "outrun", "two_first", "unplugged",
                           "twice", "shifted"}

Init ==
    /\ devices = <<>> /\ storage_devs = <<>>
    /\ active_console = NULL
    /\ pc = [t \in Caller |-> "idle"]
    /\ dev = [t \in Caller |-> NULL]
    /\ slot = [t \in Caller |-> 0]
    /\ freed = {}
    /\ registered = [d \in Dev |-> 0]
    /\ announced = [d \in Dev |-> 0]
    /\ incidents = {}

Begin(t, d, where) ==
    /\ pc' = [pc EXCEPT ![t] = where]
    /\ dev' = [dev EXCEPT ![t] = d]

Go(t, where) == Begin(t, IF where = "idle" THEN NULL ELSE dev[t], where)

Announce(d, change) == announced' = [announced EXCEPT ![d] = @ + change]

Incident(cond, what) ==
    incidents' = IF cond THEN incidents \cup {what} ELSE incidents

Others(t, where) == \E u \in Caller \ {t} : pc[u] = where

-----------------------------------------------------------------------------
(* device_register, storage_register. *)

\* The device stands in a table, or its registration or removal is not over.
InUse(d) ==
    \/ Contains(devices, d) \/ Contains(storage_devs, d)
    \/ \E u \in Caller : dev[u] = d /\ pc[u] \notin {"found", "switch"}

\* The bound of the table is tested with interrupts enabled, and nothing looks
\* whether the device is registered already.  (Nobody registers memory that he
\* has given back.)
RegisterTest(t, d) ==
    /\ pc[t] = "idle" /\ d \notin freed /\ registered[d] < Rounds
    /\ IF d \in Storage
       THEN Len(storage_devs) < MaxStorage /\ Begin(t, d, "store")
       ELSE Len(devices) < MaxDevices /\ Begin(t, d, "insert")
    /\ registered' = [registered EXCEPT ![d] = @ + 1]
    /\ Incident(InUse(d), "twice")
    /\ UNCHANGED <<tables, active_console, slot, freed, announced>>

RegisterInsert(t) ==
    /\ pc[t] = "insert"
    /\ devices' = Append(devices, dev[t])
    /\ Incident(Others(t, "insert"), "crowded")
    /\ Go(t, "added")
    /\ UNCHANGED <<storage_devs, active_console, slot, freed, registered, announced>>

RegisterAnnounce(t) ==
    /\ pc[t] = "added"
    /\ Announce(dev[t], 1)
    /\ Go(t, IF dev[t] \in Console THEN "first?" ELSE "idle")
    /\ UNCHANGED <<tables, active_console, slot, freed, registered, incidents>>

\* Mutant of storage_register: interrupts are enabled before device_register
\* has triggered its event.
StorageInsertEarly(t) ==
    /\ pc[t] = "store"
    /\ storage_devs' = Append(storage_devs, dev[t])
    /\ devices' = Append(devices, dev[t])
    /\ Len(devices) < MaxDevices
    /\ Go(t, "added")
    /\ UNCHANGED <<active_console, slot, freed, registered, announced, incidents>>

\* storage_register calls device_register with interrupts disabled, and does
\* not look whether the device table had room.
StorageInsert(t) ==
    /\ pc[t] = "store"
    /\ storage_devs' = Append(storage_devs, dev[t])
    /\ \/ /\ Len(devices) < MaxDevices
          /\ devices' = Append(devices, dev[t])
          /\ Announce(dev[t], 1)
          /\ Incident(Others(t, "store") \/ Others(t, "insert"), "crowded")
       \/ /\ Len(devices) >= MaxDevices
          /\ incidents' = incidents \cup {"table_full"} \cup
                            (IF Others(t, "store") THEN {"crowded"} ELSE {})
          /\ UNCHANGED <<devices, announced>>
    /\ Go(t, "idle")
    /\ UNCHANGED <<active_console, slot, freed, registered>>

-----------------------------------------------------------------------------
(* device_unregister, storage_unregister. *)

\* What is pulled from under somebody when d leaves the table.
Pulled(d) ==
    {what \in {"outrun", "unplugged"} :
        CASE what = "outrun"    -> \E u \in Caller : dev[u] = d /\ pc[u] = "added"
          [] what = "unplugged" ->
                \/ active_console = d
                \/ \E u \in Caller :
                     /\ dev[u] = d
                     /\ pc[u] \in {"added", "first?", "activate", "found", "switch"}}

\* Where d stands first in a table.
Place(table, d) ==
    CHOOSE k \in DOMAIN table : table[k] = d /\ \A j \in 1 .. k - 1 : table[j] # d

\* The entries above that place move down by one.
Without(table, d) == RemoveAt(table, Place(table, d))

Unregister(t, d) ==
    /\ Contains(devices, d)
    /\ devices' = Without(devices, d)
    /\ incidents' = incidents \cup Pulled(d)
    /\ Begin(t, d, "removed")
    /\ UNCHANGED <<storage_devs, active_console, slot, freed, registered, announced>>

DeviceUnregister(t, d) ==
    /\ pc[t] = "idle" /\ d \notin Storage
    /\ Unregister(t, d)

\* Mutant of storage_unregister: the device stays in storage_devs.
StorageUnregisterKeeps(t, d) ==
    /\ pc[t] = "idle" /\ d \in Storage
    /\ Contains(storage_devs, d)
    /\ storage_devs' = storage_devs
    /\ Begin(t, d, "base")
    /\ UNCHANGED <<devices, active_console, slot, freed, registered, announced, incidents>>

\* A storage device leaves its own table first.
StorageUnregister(t, d) ==
    /\ pc[t] = "idle" /\ d \in Storage
    /\ Contains(storage_devs, d)
    /\ storage_devs' = Without(storage_devs, d)
    /\ Begin(t, d, "base")
    /\ UNCHANGED <<devices, active_console, slot, freed, registered, announced, incidents>>

\* Then the registry's, if it had come into it.
StorageUnregisterBase(t) ==
    /\ pc[t] = "base"
    /\ \/ Unregister(t, dev[t])
       \/ /\ ~Contains(devices, dev[t])
          /\ Go(t, "idle")
          /\ UNCHANGED <<tables, active_console, slot, freed, registered, announced, incidents>>

UnregisterAnnounce(t) ==
    /\ pc[t] = "removed"
    /\ Announce(dev[t], -1)
    /\ Go(t, "release")
    /\ UNCHANGED <<tables, active_console, slot, freed, registered, incidents>>

UnregisterRelease(t) ==
    /\ pc[t] = "release"
    /\ freed' = freed \cup ({dev[t]} \cap Allocated)
    /\ Go(t, "idle")
    /\ UNCHANGED <<tables, active_console, slot, registered, announced, incidents>>

-----------------------------------------------------------------------------
(* console_register after its device_register, and console_set_active. *)

\* Mutant of console_register: the test whether it is the first is missing.
ConsoleTestNothing(t) ==
    /\ pc[t] = "first?"
    /\ Go(t, "activate")
    /\ UNCHANGED <<tables, active_console, slot, freed, registered, announced, incidents>>

ConsoleTest(t) ==
    /\ pc[t] = "first?"
    /\ Go(t, IF active_console = NULL THEN "activate" ELSE "idle")
    /\ Incident(active_console = NULL /\ Others(t, "activate"), "two_first")
    /\ UNCHANGED <<tables, active_console, slot, freed, registered, announced>>

ConsoleActivate(t) ==
    /\ pc[t] = "activate"
    /\ active_console' = dev[t]
    /\ Go(t, "idle")
    /\ UNCHANGED <<tables, slot, freed, registered, announced, incidents>>

\* console_set_active: device_get_by_name finds the device and remembers its
\* place, ...
DeviceGetByName(t, d) ==
    /\ pc[t] = "idle"
    /\ Contains(devices, d)
    /\ Begin(t, d, "found")
    /\ slot' = [slot EXCEPT ![t] = Place(devices, d)]
    /\ UNCHANGED <<tables, active_console, freed, registered, announced, incidents>>

\* ... reads the table again there when interrupts are back on: behind the
\* entries stands what was left by one of the devices that once were there.
Returned(t) ==
    IF slot[t] <= Len(devices) THEN {devices[slot[t]]} ELSE {d \in Dev : registered[d] > 0}

\* Mutant of console_set_active: any class of device will do.
SetActiveFindAny(t) ==
    /\ pc[t] = "found"
    /\ \E d \in Returned(t) : /\ Incident(d # dev[t], "shifted")
                             /\ Begin(t, d, "switch")
    /\ slot' = [slot EXCEPT ![t] = 0]
    /\ UNCHANGED <<tables, active_console, freed, registered, announced>>

\* The device it has must be of the right class, which freed memory may say or
\* not.
SetActiveFind(t) ==
    /\ pc[t] = "found"
    /\ \E d \in Returned(t) :
          /\ Incident(d # dev[t], "shifted")
          /\ \/ d \in Console \cup freed /\ Begin(t, d, "switch")
             \/ d \notin Console /\ Begin(t, NULL, "idle")
    /\ slot' = [slot EXCEPT ![t] = 0]
    /\ UNCHANGED <<tables, active_console, freed, registered, announced>>

\* ... and takes it.
SetActive(t) ==
    /\ pc[t] = "switch"
    /\ active_console' = dev[t]
    /\ Incident(Others(t, "activate"), "two_first")
    /\ Go(t, "idle")
    /\ UNCHANGED <<tables, slot, freed, registered, announced>>

-----------------------------------------------------------------------------

Next ==
    \E t \in Caller :
        \/ \E d \in Dev : \/ RegisterTest(t, d)
                          \/ DeviceUnregister(t, d)
                          \/ StorageUnregister(t, d)
                          \/ DeviceGetByName(t, d)
        \/ RegisterInsert(t) \/ RegisterAnnounce(t) \/ StorageInsert(t)
        \/ StorageUnregisterBase(t) \/ UnregisterAnnounce(t) \/ UnregisterRelease(t)
        \/ ConsoleTest(t) \/ ConsoleActivate(t) \/ SetActiveFind(t) \/ SetActive(t)

Spec == Init /\ [][Next]_vars

-----------------------------------------------------------------------------

\* No table outgrows its array, as long as no two callers are between the
\* test of a bound and the insertion at once.
TablesBounded ==
    "crowded" \notin incidents =>
        Len(devices) <= MaxDevices /\ Len(storage_devs) <= MaxStorage

\* As long as nobody registers a device that is still in use, no device stands
\* in a table after it was freed, or twice; and the storage devices are in the
\* registry too, unless there was no room in it when they came.
TablesAgree ==
    "twice" \notin incidents =>
        /\ \A d \in Dev : Contains(devices, d) \/ Contains(storage_devs, d) => d \notin freed
        /\ IsInjective(devices) /\ IsInjective(storage_devs)
        /\ "table_full" \notin incidents => Range(storage_devs) \subseteq Range(devices)

\* What the two tables are at all times: within their bounds, without freed or
\* repeated devices, and in agreement, each as far as stated above.
RegistryInvariant == TypeOK /\ TablesBounded /\ TablesAgree

\* The events of a device alternate, from registration to removal and again:
\* none says that it was added before the one that says it was removed, unless
\* somebody removes it before its registration has triggered its event (a
\* storage device never), or registers it while it is in use.
AddedThenRemoved ==
    \A d \in Dev :
        /\ d \in Storage \/ "outrun" \notin incidents
        /\ "twice" \notin incidents
        => announced[d] \in {0, 1}

\* The active console is a registered console, unless one was unregistered
\* that was active or about to be, the table moved under console_set_active, or
\* a device was registered while in use; and there is an active console when
\* the registration of any has ended.
ActiveConsoleValid ==
    /\ active_console # NULL /\ incidents \cap {"unplugged", "shifted", "twice"} = {} =>
         active_console \in Console /\ Contains(devices, active_console)
    /\ \A d \in Console :
         Contains(devices, d) /\ (\A t \in Caller : dev[t] # d) => active_console # NULL

\* The first console stays active until console_set_active changes it, unless
\* somebody else was choosing one when it was chosen.
FirstConsoleStays ==
    [][/\ active_console # NULL /\ active_console' # active_console
       /\ "two_first" \notin incidents
       => \E t \in Caller : pc[t] = "switch" /\ pc'[t] = "idle"]_vars
=============================================================================
