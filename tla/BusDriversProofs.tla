-------------------------- MODULE BusDriversProofs --------------------------
(***************************************************************************)
(* What BusDrivers guarantees for any number of callers, instances and     *)
(* registrations and any choice of enabled instances.                      *)
(***************************************************************************)
EXTENDS BusDrivers, TLAPS

\* A call in progress: it is about an instance; two on one instance have been
\* counted as crossed; alone on its instance, it finds what it has stored.
CallsInProgress ==
    /\ \A t \in Caller : pc[t] = "idle" <=> id[t] = NULL
    /\ \A t \in Caller : pc[t] # "idle" => bus # "i2c" /\ id[t] \in Rows /\ reg[t] \in Registration
    /\ \A s, t \in Caller : s # t /\ id[s] = id[t] /\ id[t] # NULL => id[t] \in crossed
    /\ \A t \in Caller : pc[t] # "idle" /\ id[t] \notin crossed =>
            /\ callbacks[id[t]] = reg[t]
            /\ pc[t] = "hook" => contexts[id[t]] = reg[t]

BusInductive == BusInvariant /\ hooked \subseteq Hooks /\ CallsInProgress

-----------------------------------------------------------------------------

\* No callback is set when the drivers start.
LEMMA BusInitInductive == Init => BusInductive
  BY BusAssumption DEF Init, BusInductive, BusInvariant, TypeOK, RegistrationWhole,
        CallsInProgress, Inside, Config

\* Opening an instance touches no callback, and lets through enabled
\* instances and masters only.
LEMMA OpenStep ==
    ASSUME BusInductive, NEW i \in Ids, NEW cfg \in Config \cup {NULL}, Open(i, cfg)
    PROVE  BusInductive'
<1> USE BusAssumption DEF BusInductive, BusInvariant
<1>1. cfg # NULL /\ cfg.mode = "master" /\ i \in Enabled[bus]
  BY DEF Open, arch_open, arch_uart_impl_open, arch_i2c_impl_open, arch_spi_impl_open
<1>2. TypeOK'
  BY DEF Open, TypeOK, tables
<1>3. \A j \in Ids : setup'[j] # NULL => j \in Enabled[bus] /\ setup'[j].mode = "master"
  BY <1>1 DEF Open, TypeOK
<1>4. RegistrationWhole' /\ CallsInProgress'
  BY DEF Open, tables, RegistrationWhole, CallsInProgress, Inside, Rows
<1>5. hooked' \subseteq Enabled[bus] /\ hooked' \subseteq Hooks' /\ bus' = bus
  BY DEF Open, tables, Hooks
<1> QED
  BY <1>2, <1>3, <1>4, <1>5

\* I2C hands callback and context on in one step.
LEMMA SetCallbackI2cStep ==
    ASSUME BusInductive, NEW i \in Ids, NEW r \in Registration, SetCallbackI2c(i, r)
    PROVE  BusInductive'
<1> USE BusAssumption DEF BusInductive, BusInvariant, SetCallbackI2c
<1>1. TypeOK'
  BY DEF TypeOK
<1>2. hooked' \subseteq Enabled[bus'] /\ hooked' \subseteq Hooks'
  BY DEF Hooks
<1>3. RegistrationWhole'
  BY DEF RegistrationWhole, Inside, TypeOK
<1>4. CallsInProgress'
  BY DEF CallsInProgress, Rows
<1> QED
  BY <1>1, <1>2, <1>3, <1>4

\* The first store makes the instance one that a call is inside of.
LEMMA StoreCallbackStep ==
    ASSUME BusInductive, NEW t \in Caller, NEW i \in Ids, NEW r \in Registration,
           StoreCallback(t, i, r)
    PROVE  BusInductive'
<1> USE BusAssumption DEF BusInductive, BusInvariant, StoreCallback, Goto
<1>1. TypeOK'
  BY DEF TypeOK
<1>2. hooked' \subseteq Enabled[bus'] /\ hooked' \subseteq Hooks'
  BY DEF Hooks
<1>3. RegistrationWhole'
  BY DEF RegistrationWhole, Inside, TypeOK, CallsInProgress
<1>4. CallsInProgress'
  BY DEF CallsInProgress, Rows, Inside, TypeOK
<1> QED
  BY <1>1, <1>2, <1>3, <1>4

\* A number behind the tables counts as crossed with the row it may hit.
LEMMA StoreBehindStep ==
    ASSUME BusInductive, NEW i \in Ids, NEW r \in Registration,
           StoreBehindTables(i, r)
    PROVE  BusInductive'
<1> USE BusAssumption DEF BusInductive, BusInvariant
<1>1. PICK j \in Rows :
        /\ \/ contexts' = [contexts EXCEPT ![j] = r] /\ UNCHANGED callbacks
           \/ callbacks' = [callbacks EXCEPT ![j] = r] /\ UNCHANGED contexts
           \/ UNCHANGED <<callbacks, contexts>>
        /\ crossed' = crossed \cup {j}
  BY DEF StoreBehindTables
<1>2. j \in Ids
  BY DEF StoreBehindTables, Rows
<1>3. UNCHANGED <<bus, hooked, setup, pc, id, reg, called, accepted>>
  BY DEF StoreBehindTables
<1>4. TypeOK'
  BY <1>1, <1>2, <1>3 DEF TypeOK
<1>5. hooked' \subseteq Enabled[bus'] /\ hooked' \subseteq Hooks'
  BY <1>3 DEF Hooks
<1>6. RegistrationWhole'
  BY <1>1, <1>2, <1>3 DEF RegistrationWhole, Inside, TypeOK
<1>7. CallsInProgress'
  BY <1>1, <1>2, <1>3 DEF CallsInProgress, Rows, TypeOK
<1> QED
  BY <1>3, <1>4, <1>5, <1>6, <1>7

\* The second store completes the row.
LEMMA StoreContextStep ==
    ASSUME BusInductive, NEW t \in Caller, StoreContext(t)
    PROVE  BusInductive'
<1> USE BusAssumption DEF BusInductive, BusInvariant, StoreContext, Goto
<1>0. id[t] \in Ids /\ id[t] \in Rows /\ reg[t] \in Registration
  BY DEF CallsInProgress, TypeOK
<1>1. TypeOK'
  BY <1>0 DEF TypeOK
<1>2. hooked' \subseteq Enabled[bus'] /\ hooked' \subseteq Hooks'
  BY DEF Hooks
<1>3. RegistrationWhole'
  BY <1>0 DEF RegistrationWhole, Inside, TypeOK
<1>4. CallsInProgress'
  BY <1>0 DEF CallsInProgress, Rows, TypeOK
<1> QED
  BY <1>1, <1>2, <1>3, <1>4

\* The call ends with a whole row, if it was alone.
LEMMA HookStep ==
    ASSUME BusInductive, NEW t \in Caller, Hook(t)
    PROVE  BusInductive'
<1> USE BusAssumption DEF BusInductive, BusInvariant
<1>1. /\ pc[t] = "hook"
      /\ pc' = [pc EXCEPT ![t] = "idle"]
      /\ id' = [id EXCEPT ![t] = NULL]
      /\ reg' = [reg EXCEPT ![t] = NULL]
      /\ UNCHANGED <<bus, callbacks, contexts, setup, called, crossed>>
  BY DEF Hook, Goto
<1>2. \/ /\ id[t] \in Hooks
         /\ hooked' = hooked \cup {id[t]}
         /\ accepted' = [accepted EXCEPT ![id[t]] = reg[t]]
      \/ id[t] \notin Hooks /\ UNCHANGED <<hooked, accepted>>
  BY DEF Hook
<1>3. id[t] \in Ids /\ reg[t] \in Registration
  BY <1>1 DEF CallsInProgress, TypeOK
<1>4. TypeOK'
  BY <1>1, <1>2, <1>3 DEF TypeOK
<1>5. Hooks \subseteq Enabled[bus] /\ Hooks' = Hooks
  BY <1>1 DEF Hooks, TypeOK
<1>6. hooked' \subseteq Enabled[bus'] /\ hooked' \subseteq Hooks'
  BY <1>1, <1>2, <1>5
<1>7. RegistrationWhole'
  <2> SUFFICES ASSUME NEW i \in hooked', i \notin crossed', Inside(i)' = {}
               PROVE  callbacks[i] = accepted'[i] /\ contexts[i] = accepted'[i]
    BY <1>1 DEF RegistrationWhole
  <2>1. CASE i = id[t]
    BY <1>1, <1>2, <1>3, <1>5, <2>1 DEF CallsInProgress, TypeOK
  <2>2. CASE i # id[t]
    <3>1. i \in hooked /\ i \notin crossed
      BY <1>1, <1>2, <2>2
    <3>2. accepted'[i] = accepted[i]
      BY <1>2, <2>2, <3>1 DEF TypeOK
    <3>3. Inside(i) = {}
      BY <1>1, <2>2 DEF Inside, TypeOK
    <3> QED
      BY <1>1, <3>1, <3>2, <3>3 DEF RegistrationWhole
  <2> QED
    BY <2>1, <2>2
<1>8. CallsInProgress'
  BY <1>1, <1>3 DEF CallsInProgress, Rows, TypeOK
<1> QED
  BY <1>1, <1>4, <1>6, <1>7, <1>8 DEF TypeOK

\* An interrupt changes nothing but the record of the call.
LEMMA InterruptStep ==
    ASSUME BusInductive, NEW i \in Ids, Interrupt(i)
    PROVE  BusInductive'
<1> USE BusAssumption DEF BusInductive, BusInvariant, Interrupt, tables
<1>1. TypeOK'
  BY DEF TypeOK
<1> QED
  BY <1>1 DEF Hooks, RegistrationWhole, CallsInProgress, Rows, Inside

\* In every reachable state.
LEMMA BusAlways == Spec => []BusInductive
<1>1. BusInductive /\ [Next]_vars => BusInductive'
  <2> SUFFICES ASSUME BusInductive, [Next]_vars PROVE BusInductive'
    OBVIOUS
  <2>1. CASE UNCHANGED vars
    BY <2>1 DEF vars, BusInductive, BusInvariant, TypeOK, Hooks,
            RegistrationWhole, CallsInProgress, Rows, Inside
  <2> QED
    BY <2>1, OpenStep, SetCallbackI2cStep, StoreCallbackStep, StoreBehindStep,
       StoreContextStep, HookStep, InterruptStep DEF Next
<1> QED
  BY <1>1, BusInitInductive, PTL DEF Spec

\* Only enabled instances are set up or called back from, always as a master,
\* and a registration nobody crossed is whole.
THEOREM BusStaysWhole == Spec => []BusInvariant
<1>1. BusInductive => BusInvariant
  BY DEF BusInductive
<1> QED
  BY <1>1, BusAlways, PTL

\* A callback gets the context of another registration only between the two
\* stores of one, or on a crossed instance.
THEOREM CallbacksGetTheirContext == Spec => CalledWithOwnContext
<1> DEFINE Own == \A i \in Ids : Interrupt(i) /\ called'.cb # called'.ctx =>
                    i \in crossed \/ \E t \in Inside(i) : pc[t] = "context"
<1>1. BusInductive /\ [Next]_vars => [Own]_vars
  <2> SUFFICES ASSUME BusInductive, NEW i \in Ids, Interrupt(i),
                      called'.cb # called'.ctx, i \notin crossed
               PROVE  \E t \in Inside(i) : pc[t] = "context"
    OBVIOUS
  <2>1. i \in hooked /\ callbacks[i] # contexts[i]
    BY DEF Interrupt
  <2>2. PICK t \in Caller : id[t] = i
    BY <2>1 DEF BusInductive, BusInvariant, RegistrationWhole, Inside
  <2>3. pc[t] # "idle" /\ pc[t] # "hook"
    BY <2>1, <2>2, BusAssumption DEF BusInductive, CallsInProgress
  <2> QED
    BY <2>2, <2>3 DEF BusInductive, BusInvariant, TypeOK, Inside
<1> QED
  BY <1>1, BusAlways, PTL DEF Spec, CalledWithOwnContext
=============================================================================
