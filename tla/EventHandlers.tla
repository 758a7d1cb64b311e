--------------------------- MODULE EventHandlers ---------------------------
(***************************************************************************)
(* The handler table of kernel/event/event.c, for one event type: tasks    *)
(* register and unregister handlers while the dispatcher walks the table.  *)
(* Registration and removal change the table with interrupts disabled;     *)
(* the test for a full table and the dispatcher's walk are not protected.  *)
(***************************************************************************)
EXTENDS Naturals, FiniteSets

CONSTANTS
    Reg,            \* the registrations: pairs of a handler and its ctx
    MAX_HANDLERS,   \* the slots of a row of the table
    Leaving,        \* the registrations that may be removed again
    EMPTY           \* the NULL in a slot that holds none

ASSUME HandlersAssumption ==
    /\ IsFiniteSet(Reg) /\ EMPTY \notin Reg
    /\ MAX_HANDLERS \in Nat \ {0}
    /\ Leaving \subseteq Reg

VARIABLES
    slots,         \* handlers[event]; index MAX_HANDLERS and above lie behind the row
    handler_count,
    rpc,           \* how far the event_register call of each registration is
    i,             \* the dispatcher's loop counter
    fn,            \* the registration whose handler the dispatcher has loaded
    walk,          \* where the dispatcher is
    called,        \* the calls of this delivery: <<handler of, ctx of>>
    steady,        \* history: registered since before this delivery began
    disturbed,     \* history: a pair was removed during this delivery
    raced          \* history: two event_register calls were past their test
                   \* at the same time

hvars == <<slots, handler_count, rpc, i, fn, walk, called, steady, disturbed, raced>>

\* Every registration is in the table at most once, so no index above the
\* number of registrations is ever written.
Index == 0 .. Cardinality(Reg) - 1

HandlersTypeOK ==
    /\ slots \in [Index -> Reg \cup {EMPTY}]
    /\ handler_count \in 0 .. Cardinality(Reg)
    /\ rpc \in [Reg -> {"out", "checked", "in"}]
    /\ i \in 0 .. Cardinality(Reg)
    /\ fn \in Reg \cup {EMPTY}
    /\ walk \in {"idle", "loop", "ctx"}
    /\ called \subseteq Reg \X Reg
    /\ steady \subseteq Reg
    /\ disturbed \in BOOLEAN /\ raced \in BOOLEAN

HandlersInit ==
    /\ slots = [k \in Index |-> EMPTY]
    /\ handler_count = 0
    /\ rpc = [r \in Reg |-> "out"]
    /\ i = 0 /\ fn = EMPTY /\ walk = "idle"
    /\ called = {} /\ steady = {}
    /\ disturbed = FALSE /\ raced = FALSE

-----------------------------------------------------------------------------
(* event_register. *)

\* Mutant of event_register: one handler too many passes the test.
RegisterCheckOneMore(r) ==
    /\ rpc[r] = "out"
    /\ handler_count <= MAX_HANDLERS
    /\ rpc' = [rpc EXCEPT ![r] = "checked"]
    /\ raced' = (raced \/ \E q \in Reg : rpc[q] = "checked")
    /\ UNCHANGED <<slots, handler_count, i, fn, walk, called, steady, disturbed>>

\* The table is not full.  Interrupts are still enabled.
RegisterCheck(r) ==
    /\ rpc[r] = "out"
    /\ handler_count < MAX_HANDLERS
    /\ rpc' = [rpc EXCEPT ![r] = "checked"]
    /\ raced' = (raced \/ \E q \in Reg : rpc[q] = "checked")
    /\ UNCHANGED <<slots, handler_count, i, fn, walk, called, steady, disturbed>>

\* Mutant of event_register: the new handler comes first.
RegisterFirst(r) ==
    /\ rpc[r] = "checked"
    /\ slots' = [k \in Index |-> IF k = 0 THEN r
                                 ELSE IF k <= handler_count THEN slots[k - 1]
                                 ELSE slots[k]]
    /\ handler_count' = handler_count + 1
    /\ rpc' = [rpc EXCEPT ![r] = "in"]
    /\ UNCHANGED <<i, fn, walk, called, steady, disturbed, raced>>

Register(r) ==
    /\ rpc[r] = "checked"
    /\ slots' = [slots EXCEPT ![handler_count] = r]
    /\ handler_count' = handler_count + 1
    /\ rpc' = [rpc EXCEPT ![r] = "in"]
    /\ UNCHANGED <<i, fn, walk, called, steady, disturbed, raced>>

-----------------------------------------------------------------------------
(* event_unregister. *)

\* The slots above the one that matches move down by one.
Unregister(r) ==
    /\ rpc[r] = "in"
    /\ \E k \in 0 .. handler_count - 1 :
        /\ slots[k] = r
        /\ slots' = [j \in Index |-> IF j \in k .. handler_count - 2
                                     THEN slots[j + 1] ELSE slots[j]]
    /\ handler_count' = handler_count - 1
    /\ rpc' = [rpc EXCEPT ![r] = "out"]
    /\ steady' = steady \ {r}
    /\ disturbed' = (disturbed \/ walk # "idle")
    /\ UNCHANGED <<i, fn, walk, called, raced>>

-----------------------------------------------------------------------------
(* The for loop of event_dispatcher, for one event of the type. *)

\* Mutant of event_dispatcher: the loop starts at 1.
BeginAtOne ==
    /\ walk = "idle"
    /\ walk' = "loop" /\ i' = 1
    /\ called' = {}
    /\ steady' = {r \in Reg : rpc[r] = "in"} /\ disturbed' = FALSE
    /\ UNCHANGED <<slots, handler_count, rpc, fn, raced>>

Begin ==
    /\ walk = "idle"
    /\ walk' = "loop" /\ i' = 0
    /\ called' = {}
    /\ steady' = {r \in Reg : rpc[r] = "in"} /\ disturbed' = FALSE
    /\ UNCHANGED <<slots, handler_count, rpc, fn, raced>>

\* handler_count is read in every turn, then handlers[type][i].handler.
LoadHandler ==
    /\ walk = "loop" /\ i < handler_count
    /\ fn' = slots[i]
    /\ walk' = "ctx"
    /\ UNCHANGED <<slots, handler_count, rpc, i, called, steady, disturbed, raced>>

\* handlers[type][i].ctx is a second load; then the handler is called.  What
\* the handler itself registers or removes is a step of those actions.
LoadCtxAndCall ==
    /\ walk = "ctx"
    /\ called' = called \cup {<<fn, slots[i]>>}
    /\ fn' = EMPTY
    /\ i' = i + 1
    /\ walk' = "loop"
    /\ UNCHANGED <<slots, handler_count, rpc, steady, disturbed, raced>>

EndLoop ==
    /\ walk = "loop" /\ i >= handler_count
    /\ walk' = "idle" /\ i' = 0
    /\ called' = {} /\ steady' = {} /\ disturbed' = FALSE
    /\ UNCHANGED <<slots, handler_count, rpc, fn, raced>>

HandlersNext ==
    \/ \E r \in Reg : RegisterCheck(r) \/ Register(r)
    \/ \E r \in Leaving : Unregister(r)
    \/ Begin \/ LoadHandler \/ LoadCtxAndCall \/ EndLoop

HandlersSpec == HandlersInit /\ [][HandlersNext]_hvars

-----------------------------------------------------------------------------

\* The first handler_count slots hold every registered pair once and nothing
\* else, whatever the order of registrations and removals.
TableExact ==
    /\ handler_count = Cardinality({r \in Reg : rpc[r] = "in"})
    /\ {slots[k] : k \in 0 .. handler_count - 1} = {r \in Reg : rpc[r] = "in"}

\* At most MAX_HANDLERS handlers are registered for an event, unless two calls
\* have passed the test for a full table at the same time.
WithinRow == ~raced => handler_count <= MAX_HANDLERS

\* The table of event_register and event_unregister is exact at all times, and
\* stays inside its row unless two registrations race.
HandlersInvariant == HandlersTypeOK /\ TableExact /\ WithinRow

\* During one delivery no handler that stays registered is called twice:
\* removals only move pairs towards slots the loop has passed.
SteadyCalledOnce ==
    [][LoadCtxAndCall =>
        (fn \in steady => ~ \E c \in Reg : <<fn, c>> \in called)]_hvars

\* The dispatcher calls every handler that is registered from before the
\* delivery until after it, even while others are added, unless a removal
\* moves the table under its loop.
NoSteadySkipped ==
    walk = "loop" /\ i >= handler_count /\ ~disturbed =>
        \A r \in steady : \E c \in Reg : <<r, c>> \in called

\* A handler gets the ctx it was registered with, unless a removal during the
\* delivery falls between the loads of the two.
OwnCtx == ~disturbed => \A call \in called : call[1] = call[2]

\* A delivery during which nothing is removed calls every handler that was
\* registered before it, each with its own ctx.
UndisturbedDelivery == NoSteadySkipped /\ OwnCtx
=============================================================================
