----------------------------- MODULE BusDrivers ----------------------------
(***************************************************************************)
(* The UART, I2C and SPI drivers: arch_usart.c, arch_bus_i2c.c,            *)
(* arch_bus_spi.c and what they call in arch/mips/impl/harmony.  The       *)
(* vendor's driver (plib) is external: it takes a configuration, remembers *)
(* a callback, and calls it in its interrupt.  UART and SPI give it a      *)
(* generic callback and keep callback and context in two tables of their   *)
(* own; I2C hands both on.  The three share nothing, so a behaviour is     *)
(* about one of them.                                                      *)
(***************************************************************************)
EXTENDS Naturals, FiniteSets

CONSTANTS
    Caller,         \* the tasks that set callbacks
    Registration,   \* a callback with the context it is registered with
    Ids,            \* the instance numbers that are asked for
    Enabled,        \* the instances of each bus in its CONFIG_..._MASK
    NULL

\* The rows of the SPI tables are among the numbers asked for, and both boards
\* enable the first SPI, the only one whose callback is ever registered.
ASSUME BusAssumption ==
    /\ Ids \subseteq Nat /\ {0, 1} \subseteq Ids
    /\ Enabled \in [{"uart", "i2c", "spi"} -> SUBSET Ids]
    /\ 0 \in Enabled["spi"]
    /\ NULL \notin Registration \cup Ids

VARIABLES
    bus,        \* which of the three
    callbacks,  \* uart_callbacks, spi_callbacks; what plib remembers for I2C
    contexts,   \* uart_contexts, spi_contexts; what plib remembers for I2C
    hooked,     \* the instances whose interrupt calls back
    setup,      \* the configuration plib has for each instance
    pc, id, reg,    \* where each caller is, and the arguments of its call
    called,     \* history: the last call of a callback
    accepted,   \* history: the registration that last returned 0
    crossed     \* history: instances on which two registrations overlapped,
                \* or that one of an instance without a row has overwritten

tables == <<callbacks, contexts, hooked>>
vars == <<bus, callbacks, contexts, hooked, setup, pc, id, reg, called, accepted, crossed>>

\* uart_callbacks[4], spi_callbacks[2].
Rows == 0..(IF bus = "uart" THEN 3 ELSE IF bus = "spi" THEN 1 ELSE 0)

Config == [mode : {"master", "slave"}, fits : BOOLEAN]

TypeOK ==
    /\ bus \in {"uart", "i2c", "spi"}
    /\ callbacks \in [Ids -> Registration \cup {NULL}]
    /\ contexts \in [Ids -> Registration \cup {NULL}]
    /\ hooked \subseteq Ids
    /\ setup \in [Ids -> Config \cup {NULL}]
    /\ pc \in [Caller -> {"idle", "context", "hook"}]
    /\ id \in [Caller -> Ids \cup {NULL}] /\ reg \in [Caller -> Registration \cup {NULL}]
    /\ called \in [id : Ids, cb : Registration, ctx : Registration \cup {NULL}] \cup {NULL}
    /\ accepted \in [Ids -> Registration \cup {NULL}]
    /\ crossed \subseteq Ids

Init ==
    /\ bus \in {"uart", "i2c", "spi"}
    /\ callbacks = [i \in Ids |-> NULL] /\ contexts = callbacks /\ setup = callbacks
    /\ hooked = {}
    /\ pc = [t \in Caller |-> "idle"]
    /\ id = [t \in Caller |-> NULL] /\ reg = id
    /\ called = NULL /\ accepted = callbacks /\ crossed = {}

-----------------------------------------------------------------------------
(* Opening.  The general layer looks at the mode, the drivers below at the  *)
(* other fields and the instance; without a configuration I2C and SPI       *)
(* return 0 and set nothing up.                                             *)

arch_uart_impl_open(i, cfg) == i \in Enabled["uart"] /\ cfg # NULL /\ cfg.fits

\* Only the first instance looks at the mode again.
arch_i2c_impl_open(i, cfg) ==
    i \in Enabled["i2c"] /\ cfg # NULL /\ (i = 0 => cfg.mode = "master")

arch_spi_impl_open(i, cfg) == i \in Enabled["spi"] /\ cfg # NULL

\* Mutant of arch_open: the mode is left to the driver.
arch_open_any_mode(i, cfg) ==
    \/ bus = "uart" /\ arch_uart_impl_open(i, cfg)
    \/ bus = "i2c" /\ arch_i2c_impl_open(i, cfg)
    \/ bus = "spi" /\ arch_spi_impl_open(i, cfg)

\* arch_uart_open, arch_i2c_open, arch_spi_open, where they set something up.
arch_open(i, cfg) ==
    /\ cfg # NULL => cfg.mode = "master"
    /\ \/ bus = "uart" /\ arch_uart_impl_open(i, cfg)
       \/ bus = "i2c" /\ arch_i2c_impl_open(i, cfg)
       \/ bus = "spi" /\ arch_spi_impl_open(i, cfg)

\* plib may refuse; every refusal of the code's own changes nothing.
Open(i, cfg) ==
    /\ arch_open(i, cfg)
    /\ setup' = [setup EXCEPT ![i] = cfg]
    /\ UNCHANGED <<bus, tables, pc, id, reg, called, accepted, crossed>>

-----------------------------------------------------------------------------
(* Setting a callback. *)

Inside(i) == {t \in Caller : id[t] = i}

Goto(t, where, i, r) ==
    /\ pc' = [pc EXCEPT ![t] = where]
    /\ id' = [id EXCEPT ![t] = i]
    /\ reg' = [reg EXCEPT ![t] = r]

\* I2C hands both to plib in one call.
SetCallbackI2c(i, r) ==
    /\ bus = "i2c" /\ i \in Enabled[bus]
    /\ callbacks' = [callbacks EXCEPT ![i] = r]
    /\ contexts' = [contexts EXCEPT ![i] = r]
    /\ hooked' = hooked \cup {i}
    /\ accepted' = [accepted EXCEPT ![i] = r]
    /\ UNCHANGED <<bus, setup, pc, id, reg, called, crossed>>

\* UART and SPI: the callback is stored before anybody asks whether the
\* instance is enabled.  (The UART refuses a number without a row here.)
StoreCallback(t, i, r) ==
    /\ bus # "i2c" /\ pc[t] = "idle" /\ i \in Rows
    /\ callbacks' = [callbacks EXCEPT ![i] = r]
    /\ crossed' = IF Inside(i) = {} THEN crossed ELSE crossed \cup {i}
    /\ Goto(t, "context", i, r)
    /\ UNCHANGED <<bus, contexts, hooked, setup, called, accepted>>

\* SPI does not refuse a number without a row: the two stores go behind their
\* tables, where the linker may have put the other table or something else.
\* The call then returns -1.
StoreBehindTables(i, r) ==
    /\ bus = "spi" /\ i \notin Rows
    /\ \E j \in Rows :
        /\ \/ contexts' = [contexts EXCEPT ![j] = r] /\ UNCHANGED callbacks
           \/ callbacks' = [callbacks EXCEPT ![j] = r] /\ UNCHANGED contexts
           \/ UNCHANGED <<callbacks, contexts>>
        /\ crossed' = crossed \cup {j}
    /\ UNCHANGED <<bus, hooked, setup, pc, id, reg, called, accepted>>

\* Mutant of StoreContext: a context that is there stays.
StoreContextOnce(t) ==
    /\ pc[t] = "context"
    /\ contexts' = [contexts EXCEPT ![id[t]] = IF @ = NULL THEN reg[t] ELSE @]
    /\ Goto(t, "hook", id[t], reg[t])
    /\ UNCHANGED <<bus, callbacks, hooked, setup, called, accepted, crossed>>

StoreContext(t) ==
    /\ pc[t] = "context"
    /\ contexts' = [contexts EXCEPT ![id[t]] = reg[t]]
    /\ Goto(t, "hook", id[t], reg[t])
    /\ UNCHANGED <<bus, callbacks, hooked, setup, called, accepted, crossed>>

\* The instances with a case in the switch: for SPI the first only, whatever
\* the mask says.
Hooks == IF bus = "spi" THEN {0} ELSE Enabled[bus]

\* plib is given the generic callback and the call returns 0, or -1 with the
\* row overwritten all the same.
Hook(t) ==
    /\ pc[t] = "hook"
    /\ IF id[t] \in Hooks
       THEN /\ hooked' = hooked \cup {id[t]}
            /\ accepted' = [accepted EXCEPT ![id[t]] = reg[t]]
       ELSE UNCHANGED <<hooked, accepted>>
    /\ Goto(t, "idle", NULL, NULL)
    /\ UNCHANGED <<bus, callbacks, contexts, setup, called, crossed>>

\* uart_generic_cb, spi1_cb, in the interrupt of an instance.
Interrupt(i) ==
    /\ i \in hooked /\ callbacks[i] # NULL
    /\ called' = [id |-> i, cb |-> callbacks[i], ctx |-> contexts[i]]
    /\ UNCHANGED <<bus, tables, setup, pc, id, reg, accepted, crossed>>

Next ==
    \/ \E i \in Ids, cfg \in Config \cup {NULL} : Open(i, cfg)
    \/ \E i \in Ids, r \in Registration :
        \/ SetCallbackI2c(i, r) \/ StoreBehindTables(i, r)
        \/ \E t \in Caller : StoreCallback(t, i, r)
    \/ \E t \in Caller : StoreContext(t) \/ Hook(t)
    \/ \E i \in Ids : Interrupt(i)

Spec == Init /\ [][Next]_vars

-----------------------------------------------------------------------------
(* Properties. *)

\* The two stores make one registration: outside set_callback an instance has
\* the callback and the context of the registration that was accepted last,
\* unless two overlapped on it or one had no row.
RegistrationWhole ==
    \A i \in hooked : i \notin crossed /\ Inside(i) = {} =>
        callbacks[i] = accepted[i] /\ contexts[i] = accepted[i]

\* Only enabled instances are ever set up or called back from, and always as a
\* master, although each layer looks at a part of it only; and registrations
\* are whole.
BusInvariant ==
    /\ TypeOK
    /\ hooked \subseteq Enabled[bus]
    /\ \A i \in Ids : setup[i] # NULL => i \in Enabled[bus] /\ setup[i].mode = "master"
    /\ RegistrationWhole

\* An interrupt calls a callback with the context of another registration only
\* if it comes between the two stores of one, or after two were crossed.
CalledWithOwnContext ==
    [][\A i \in Ids : Interrupt(i) /\ called'.cb # called'.ctx =>
            i \in crossed \/ \E t \in Inside(i) : pc[t] = "context"]_vars
=============================================================================
