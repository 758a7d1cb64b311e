----------------------------- MODULE EventQueue ----------------------------
(***************************************************************************)
(* The event queue of kernel/event/event.c: event_trigger, called by any   *)
(* task, and the dispatcher task, which takes entries, calls the handlers  *)
(* and frees the entries.  A tick may land between any two actions.        *)
(*                                                                         *)
(* The dispatcher's local variable "entry" is declared outside its loop    *)
(* and never reset, so a turn that finds the queue empty goes on with the  *)
(* entry of an earlier turn, which is freed.  What happens then depends on *)
(* whether mem_alloc has handed that block out again, so the blocks are    *)
(* part of the model.                                                      *)
(***************************************************************************)
EXTENDS Naturals, Sequences, SequencesExt

CONSTANTS
    Event,      \* the events raised (bound: each is raised once)
    Block,      \* the heap blocks that can hold an event_entry_t
    NULL

ASSUME EventAssumption == NULL \notin Event \cup Block

VARIABLES
    owner,       \* what mem_alloc has given each block for
    data,        \* entry->type and entry->data: the event written in the block
    link,        \* entry->next
    queue_head,
    queue_tail,
    entry,       \* the dispatcher's local
    dpc,         \* where the dispatcher is
    tpc,         \* how far the event_trigger call of each event is
    mine,        \* its local: the block it allocated
    order,       \* history: the events in the order they were queued
    delivered,   \* history: the events in the order handlers first saw them
    aliased      \* history: the block the dispatcher still points to was
                 \* allocated again

evars == <<owner, data, link, queue_head, queue_tail, entry, dpc, tpc,
           mine, order, delivered, aliased>>

memory == <<owner, data, link>>
queue == <<queue_head, queue_tail>>
dispatcher == <<entry, dpc>>
trigger == <<tpc, mine>>

EventTypeOK ==
    /\ owner \in [Block -> {"free", "event", "other"}]
    /\ data \in [Block -> Event \cup {NULL}]
    /\ link \in [Block -> Block \cup {NULL}]
    /\ queue_head \in Block \cup {NULL}
    /\ queue_tail \in Block \cup {NULL}
    /\ entry \in Block \cup {NULL}
    /\ dpc \in {"take", "deliver", "free"}
    /\ dpc # "take" => entry # NULL
    /\ tpc \in [Event -> {"new", "filled", "queued", "dropped"}]
    /\ mine \in [Event -> Block \cup {NULL}]
    /\ order \in Seq(Event)
    /\ delivered \in Seq(Event)
    /\ aliased \in BOOLEAN

EventInit ==
    /\ owner = [b \in Block |-> "free"]
    /\ data = [b \in Block |-> NULL]
    /\ link = [b \in Block |-> NULL]
    /\ queue_head = NULL /\ queue_tail = NULL
    /\ entry = NULL /\ dpc = "take"
    /\ tpc = [e \in Event |-> "new"]
    /\ mine = [e \in Event |-> NULL]
    /\ order = <<>> /\ delivered = <<>>
    /\ aliased = FALSE

-----------------------------------------------------------------------------
(* The heap. *)

\* mem_alloc gives out a free block.
MemAlloc(b, use) ==
    /\ owner[b] = "free"
    /\ owner' = [owner EXCEPT ![b] = use]
    /\ aliased' = (aliased \/ b = entry)

\* mem_free of a block that is not allocated finds no magic and returns; it
\* cannot know for whom an allocated block was.
MemFree(b) == owner' = [owner EXCEPT ![b] = "free"]

\* The rest of the kernel allocates a block and writes its own data there:
\* no event, and anything where the entry had its next pointer.
OtherAlloc(b) ==
    /\ MemAlloc(b, "other")
    /\ data' = [data EXCEPT ![b] = NULL]
    /\ \E junk \in Block \cup {NULL} : link' = [link EXCEPT ![b] = junk]
    /\ UNCHANGED <<queue, dispatcher, trigger, order, delivered>>

OtherFree(b) ==
    /\ owner[b] = "other"
    /\ MemFree(b)
    /\ UNCHANGED <<data, link, queue, dispatcher, trigger, order, delivered,
                   aliased>>

-----------------------------------------------------------------------------
(* event_trigger(e). *)

\* The entry is allocated and filled with interrupts enabled.
TriggerFill(e, b) ==
    /\ tpc[e] = "new"
    /\ MemAlloc(b, "event")
    /\ data' = [data EXCEPT ![b] = e]
    /\ link' = [link EXCEPT ![b] = NULL]
    /\ mine' = [mine EXCEPT ![e] = b]
    /\ tpc' = [tpc EXCEPT ![e] = "filled"]
    /\ UNCHANGED <<queue, dispatcher, order, delivered>>

\* mem_alloc fails and the event is silently given up.
TriggerDrop(e) ==
    /\ tpc[e] = "new"
    /\ \A b \in Block : owner[b] # "free"
    /\ tpc' = [tpc EXCEPT ![e] = "dropped"]
    /\ UNCHANGED <<memory, queue, dispatcher, mine, order, delivered, aliased>>

\* Mutant of event_trigger: the tail is not moved.
TriggerQueueTailStays(e) ==
    /\ tpc[e] = "filled"
    /\ IF queue_tail # NULL
       THEN /\ link' = [link EXCEPT ![queue_tail] = mine[e]]
            /\ UNCHANGED queue_head
            /\ queue_tail' = queue_tail
       ELSE /\ queue_head' = mine[e]
            /\ UNCHANGED link
            /\ queue_tail' = mine[e]
    /\ tpc' = [tpc EXCEPT ![e] = "queued"]
    /\ order' = Append(order, e)
    /\ UNCHANGED <<owner, data, dispatcher, mine, delivered, aliased>>

\* Mutant of event_trigger: the entry is put at the head.
TriggerQueueAtHead(e) ==
    /\ tpc[e] = "filled"
    /\ link' = [link EXCEPT ![mine[e]] = queue_head]
    /\ queue_head' = mine[e]
    /\ queue_tail' = IF queue_tail = NULL THEN mine[e] ELSE queue_tail
    /\ tpc' = [tpc EXCEPT ![e] = "queued"]
    /\ order' = Append(order, e)
    /\ UNCHANGED <<owner, data, dispatcher, mine, delivered, aliased>>

\* The entry is queued with interrupts disabled.
TriggerQueue(e) ==
    /\ tpc[e] = "filled"
    /\ IF queue_tail # NULL
       THEN /\ link' = [link EXCEPT ![queue_tail] = mine[e]]
            /\ UNCHANGED queue_head
       ELSE /\ queue_head' = mine[e]
            /\ UNCHANGED link
    /\ queue_tail' = mine[e]
    /\ tpc' = [tpc EXCEPT ![e] = "queued"]
    /\ order' = Append(order, e)
    /\ UNCHANGED <<owner, data, dispatcher, mine, delivered, aliased>>

-----------------------------------------------------------------------------
(* The loop of event_dispatcher. *)

\* Mutant of event_dispatcher: the tail keeps pointing to the last entry.
TakeKeepsTail ==
    /\ dpc = "take"
    /\ queue_head # NULL
    /\ entry' = queue_head
    /\ queue_head' = link[queue_head]
    /\ queue_tail' = queue_tail
    /\ dpc' = "deliver"
    /\ UNCHANGED <<memory, trigger, order, delivered, aliased>>

\* The critical section takes the head of the queue.
Take ==
    /\ dpc = "take"
    /\ queue_head # NULL
    /\ entry' = queue_head
    /\ queue_head' = link[queue_head]
    /\ queue_tail' = IF link[queue_head] = NULL THEN NULL ELSE queue_tail
    /\ dpc' = "deliver"
    /\ UNCHANGED <<memory, trigger, order, delivered, aliased>>

\* The queue is empty and entry is what an earlier turn left.  Only before
\* the first event is it NULL; then the dispatcher calls task_yield, which
\* does nothing, and no step is needed.
TakeStale ==
    /\ dpc = "take"
    /\ queue_head = NULL /\ entry # NULL
    /\ dpc' = "deliver"
    /\ UNCHANGED <<memory, queue, entry, trigger, order, delivered, aliased>>

\* All handlers of the event in the entry are called.  (Module EventHandlers
\* has the loop over the handlers.)
Deliver ==
    /\ dpc = "deliver"
    /\ dpc' = "free"
    /\ delivered' = IF data[entry] = NULL \/ Contains(delivered, data[entry])
                    THEN delivered
                    ELSE Append(delivered, data[entry])
    /\ UNCHANGED <<memory, queue, entry, trigger, order, aliased>>

Free ==
    /\ dpc = "free"
    /\ MemFree(entry)
    /\ dpc' = "take"
    /\ UNCHANGED <<data, link, queue, entry, trigger, order, delivered,
                   aliased>>

-----------------------------------------------------------------------------

Dispatch == Take \/ TakeStale \/ Deliver \/ Free

EventNext ==
    \/ \E b \in Block : OtherAlloc(b) \/ OtherFree(b)
    \/ \E e \in Event, b \in Block : TriggerFill(e, b)
    \/ \E e \in Event : TriggerDrop(e) \/ TriggerQueue(e)
    \/ Dispatch

EventSpec == EventInit /\ [][EventNext]_evars

\* The dispatcher's function never returns, so as long as nobody kills it and
\* creations end it gets the processor again and again
\* (Scheduler!EveryTaskRuns).  Of the tasks inside event_trigger nothing is
\* assumed: they may be killed there, and task_destroy_current calls it from a
\* task that has left the ring.
EventFairSpec == EventSpec /\ WF_evars(Dispatch)

-----------------------------------------------------------------------------

\* The blocks of the queue, from queue_head along next.
Queued ==
    {b \in Block :
        \A S \in SUBSET Block :
            (/\ queue_head # NULL => queue_head \in S
             /\ \A x \in S : link[x] # NULL => link[x] \in S) => b \in S}

\* Until the allocator hands out the block that the dispatcher's leftover
\* entry points to, the queue is a list that ends at queue_tail and holds
\* allocated entries only, each with an event not delivered yet.
QueueIntact ==
    ~aliased =>
        /\ queue_head = NULL <=> queue_tail = NULL
        /\ queue_tail # NULL => queue_tail \in Queued /\ link[queue_tail] = NULL
        /\ \A b \in Queued :
             owner[b] = "event" /\ ~Contains(delivered, data[b])

\* Handlers see the events in the order they were queued (again until the
\* leftover entry's block is handed out).
FirstDeliveriesInOrder == ~aliased => IsPrefix(delivered, order)

\* Even with freed and reallocated entries in it, the queue never has a head
\* without a tail or a tail without a head: event_trigger always finds one
\* of its two cases.
HeadIffTail == queue_head = NULL <=> queue_tail = NULL

\* What holds also after a block was handed out twice, the types and a tail
\* where there is a head, and what holds only before.
QueueInvariant == EventTypeOK /\ HeadIffTail /\ QueueIntact

\* An event for which there was memory reaches its handlers if its task goes on
\* with its call of event_trigger, and then whatever becomes of the calls of the
\* others, as long as the leftover entry's block is not handed out.
EveryEventDelivered ==
    \A e \in Event :
        WF_evars(TriggerQueue(e)) =>
            (tpc[e] = "filled" ~> Contains(delivered, e) \/ aliased)

=============================================================================
