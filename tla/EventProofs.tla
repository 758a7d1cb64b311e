---------------------------- MODULE EventProofs ----------------------------
(***************************************************************************)
(* What kernel/event/event.c guarantees for any number of events, of heap  *)
(* blocks and of handlers, and any size of the table.  Of EventQueue: the  *)
(* queue is the list of the events that were queued and not taken, and     *)
(* handlers first see the events in the order they were queued.  Of        *)
(* EventHandlers: the table is exact, a delivery calls no steady handler   *)
(* twice, and one in which nothing is removed calls each of them.          *)
(***************************************************************************)
EXTENDS EventQueue, EventHandlers, SequenceTheorems, FiniteSetTheorems, WellFoundedInduction, TLAPS

-----------------------------------------------------------------------------
(* The event queue. *)

\* How many entries the dispatcher has taken: those delivered, and the one it
\* is about to deliver for the first time.
Taken ==
    IF dpc = "deliver" /\ ~Contains(delivered, data[entry])
    THEN Len(delivered) + 1 ELSE Len(delivered)

\* Every event is queued once.
OrderIsQueued ==
    /\ \A p, j \in 1 .. Len(order) : order[p] = order[j] => p = j
    /\ \A e \in Event : tpc[e] = "queued" <=> \E p \in 1 .. Len(order) : order[p] = e
    /\ \A e \in Event : tpc[e] \in {"filled", "queued"} => mine[e] \in Block

\* A block b holds the event e, allocated for it, with its name in it.
Holds(b, e) == owner[b] = "event" /\ data[b] = e

\* An entry that is filled and not yet queued is nobody else's.
FilledKept ==
    \A e \in Event : tpc[e] = "filled" => Holds(mine[e], e) /\ link[mine[e]] = NULL

\* The entries that were queued and not taken are the list from queue_head to
\* queue_tail.
QueueIsList ==
    /\ Taken <= Len(order)
    /\ \A k \in Taken + 1 .. Len(order) :
            /\ Holds(mine[order[k]], order[k])
            /\ link[mine[order[k]]] = IF k = Len(order) THEN NULL ELSE mine[order[k + 1]]
    /\ queue_head = IF Taken = Len(order) THEN NULL ELSE mine[order[Taken + 1]]
    /\ queue_tail = IF Taken = Len(order) THEN NULL ELSE mine[order[Len(order)]]

\* What the dispatcher's local points to, freed or not, still names the event
\* taken last, and what was delivered are the events taken.
EntryTakenLast ==
    /\ entry # NULL => Taken >= 1 /\ data[entry] = order[Taken]
    /\ \A p \in 1 .. Len(delivered) : delivered[p] = order[p]

QueueInductive ==
    /\ EventTypeOK
    /\ HeadIffTail
    /\ OrderIsQueued
    /\ ~aliased => FilledKept /\ QueueIsList /\ EntryTakenLast

-----------------------------------------------------------------------------
(* What the invariant says of the parts. *)

LEMMA QueueTypes ==
    ASSUME QueueInductive
    PROVE  /\ Len(order) \in Nat /\ Len(delivered) \in Nat
           /\ \A p \in 1 .. Len(order) :
                order[p] \in Event /\ tpc[order[p]] = "queued" /\ mine[order[p]] \in Block
           /\ \A p \in 1 .. Len(delivered) : delivered[p] \in Event
           /\ dpc # "take" => entry \in Block
           /\ Taken \in Nat /\ Taken >= Len(delivered)
           /\ dpc = "take" => Taken = Len(delivered)
<1> USE DEF QueueInductive, EventTypeOK
<1>1. Len(order) \in Nat /\ Len(delivered) \in Nat
  BY LenProperties
<1>2. \A p \in 1 .. Len(order) : order[p] \in Event
  BY ElementOfSeq
<1>3. \A p \in 1 .. Len(order) : tpc[order[p]] = "queued"
  BY <1>2 DEF OrderIsQueued
<1>4. \A p \in 1 .. Len(order) : mine[order[p]] \in Block
  BY <1>2, <1>3 DEF OrderIsQueued
<1>5. \A p \in 1 .. Len(delivered) : delivered[p] \in Event
  BY ElementOfSeq
<1>6. dpc # "take" => entry \in Block
  OBVIOUS
<1>7. /\ Taken \in Nat /\ Taken >= Len(delivered)
      /\ dpc = "take" => Taken = Len(delivered)
  BY <1>1 DEF Taken
<1> QED
  BY <1>1, <1>2, <1>3, <1>4, <1>5, <1>6, <1>7

\* Where the queue's ends are, and whose its entries are not.
LEMMA QueueEnds ==
    ASSUME QueueInductive, ~aliased
    PROVE  /\ Taken \in Nat /\ Len(order) \in Nat /\ Taken <= Len(order)
           /\ queue_head = NULL <=> Taken = Len(order)
           /\ queue_tail = NULL <=> Taken = Len(order)
           /\ \A k \in Taken + 1 .. Len(order) :
                /\ order[k] \in Event /\ mine[order[k]] \in Block
                /\ Holds(mine[order[k]], order[k])
           /\ \A j, k \in Taken + 1 .. Len(order) : mine[order[j]] = mine[order[k]] => j = k
           /\ entry # NULL =>
                /\ Taken \in 1 .. Len(order) /\ data[entry] = order[Taken]
                /\ \A k \in Taken + 1 .. Len(order) : mine[order[k]] # entry
<1> USE EventAssumption
<1>1. /\ Taken \in Nat /\ Len(order) \in Nat /\ Taken <= Len(order)
      /\ \A p \in 1 .. Len(order) : order[p] \in Event /\ mine[order[p]] \in Block
  BY QueueTypes DEF QueueInductive, QueueIsList
<1>2. \A k \in Taken + 1 .. Len(order) : k \in 1 .. Len(order)
  BY <1>1
<1>3. \A k \in Taken + 1 .. Len(order) :
        /\ order[k] \in Event /\ mine[order[k]] \in Block
        /\ Holds(mine[order[k]], order[k])
  BY <1>1, <1>2 DEF QueueInductive, QueueIsList
<1>4. Taken # Len(order) => Taken + 1 \in Taken + 1 .. Len(order)
                            /\ Len(order) \in Taken + 1 .. Len(order)
  BY <1>1
<1>5. /\ queue_head = NULL <=> Taken = Len(order)
      /\ queue_tail = NULL <=> Taken = Len(order)
  <2>1. NULL \notin Block
    OBVIOUS
  <2>2. CASE Taken = Len(order)
    BY <2>2 DEF QueueInductive, QueueIsList
  <2>3. CASE Taken # Len(order)
    <3>1. queue_head = mine[order[Taken + 1]] /\ queue_tail = mine[order[Len(order)]]
      BY <2>3 DEF QueueInductive, QueueIsList
    <3> QED
      BY <1>3, <1>4, <2>1, <2>3, <3>1
  <2> QED
    BY <2>2, <2>3
<1>6. \A j, k \in Taken + 1 .. Len(order) : mine[order[j]] = mine[order[k]] => j = k
  <2>1. \A j, k \in 1 .. Len(order) : order[j] = order[k] => j = k
    BY DEF QueueInductive, OrderIsQueued
  <2> QED
    BY <1>2, <1>3, <2>1 DEF Holds
<1>7. ASSUME entry # NULL
      PROVE  /\ Taken \in 1 .. Len(order) /\ data[entry] = order[Taken]
             /\ \A k \in Taken + 1 .. Len(order) : mine[order[k]] # entry
  <2>1. Taken \in 1 .. Len(order) /\ data[entry] = order[Taken]
    BY <1>1, <1>7 DEF QueueInductive, EntryTakenLast
  <2>2. \A k \in Taken + 1 .. Len(order) : order[k] # order[Taken]
    BY <1>1, <1>2, <2>1 DEF QueueInductive, OrderIsQueued
  <2> QED
    BY <1>3, <2>1, <2>2 DEF Holds
<1> QED
  BY <1>1, <1>3, <1>5, <1>6, <1>7

\* Taken changes with the dispatcher only.
LEMMA TakenKept ==
    ASSUME QueueInductive, UNCHANGED <<entry, dpc, delivered>>,
           entry # NULL => data'[entry] = data[entry]
    PROVE  Taken' = Taken
<1>1. dpc = "deliver" => entry # NULL
  BY DEF QueueInductive, EventTypeOK
<1> QED
  BY <1>1 DEF Taken, Contains

\* A step that leaves the entries allocated for events alone, and what the
\* dispatcher points to, leaves the queue a list.
LEMMA EntriesUndisturbed ==
    ASSUME QueueInductive, ~aliased,
           UNCHANGED <<queue_head, queue_tail, entry, dpc, order, delivered>>,
           \A p \in 1 .. Len(order) : mine'[order[p]] = mine[order[p]],
           \A b \in Block : owner[b] = "event" =>
                owner'[b] = "event" /\ data'[b] = data[b] /\ link'[b] = link[b],
           entry # NULL => data'[entry] = data[entry]
    PROVE  QueueIsList' /\ EntryTakenLast'
<1>1. Taken' = Taken
  BY TakenKept
<1>2. EntryTakenLast'
  BY <1>1 DEF QueueInductive, EntryTakenLast
<1>3. /\ Taken \in Nat /\ Len(order) \in Nat /\ Taken <= Len(order)
      /\ \A k \in Taken + 1 .. Len(order) :
            /\ order[k] \in Event /\ mine[order[k]] \in Block
            /\ Holds(mine[order[k]], order[k])
  BY QueueEnds
<1>4. \A k \in Taken + 1 .. Len(order) :
        k \in 1 .. Len(order) /\ (k # Len(order) => k + 1 \in 1 .. Len(order))
  BY <1>3
<1>5. \A k \in Taken + 1 .. Len(order) :
        /\ mine'[order[k]] = mine[order[k]]
        /\ k # Len(order) => mine'[order[k + 1]] = mine[order[k + 1]]
        /\ Holds(mine[order[k]], order[k])'
        /\ link'[mine[order[k]]] = link[mine[order[k]]]
  <2> SUFFICES ASSUME NEW k \in Taken + 1 .. Len(order)
               PROVE  /\ mine'[order[k]] = mine[order[k]]
                      /\ k # Len(order) => mine'[order[k + 1]] = mine[order[k + 1]]
                      /\ owner'[mine[order[k]]] = "event" /\ data'[mine[order[k]]] = order[k]
                      /\ link'[mine[order[k]]] = link[mine[order[k]]]
    BY <1>4 DEF Holds
  <2> QED
    BY <1>3, <1>4 DEF Holds
<1>6. \A k \in Taken + 1 .. Len(order) :
        link[mine[order[k]]] = IF k = Len(order) THEN NULL ELSE mine[order[k + 1]]
  BY DEF QueueInductive, QueueIsList
<1>7. Taken # Len(order) => Taken + 1 \in 1 .. Len(order) /\ Len(order) \in 1 .. Len(order)
  BY <1>3
<1>8. QueueIsList'
  <2>1. /\ queue_head' = IF Taken = Len(order) THEN NULL ELSE mine'[order[Taken + 1]]
        /\ queue_tail' = IF Taken = Len(order) THEN NULL ELSE mine'[order[Len(order)]]
    BY <1>7 DEF QueueInductive, QueueIsList
  <2>2. \A k \in Taken + 1 .. Len(order) :
            /\ owner'[mine'[order[k]]] = "event" /\ data'[mine'[order[k]]] = order[k]
            /\ link'[mine'[order[k]]] =
                    IF k = Len(order) THEN NULL ELSE mine'[order[k + 1]]
    BY <1>5, <1>6 DEF Holds
  <2> QED
    BY <1>1, <1>3, <2>1, <2>2 DEF QueueIsList, Holds
<1> QED
  BY <1>2, <1>8

-----------------------------------------------------------------------------
(* The steps. *)

LEMMA InitQueue == EventInit => QueueInductive
<1> SUFFICES ASSUME EventInit PROVE QueueInductive
  OBVIOUS
<1> USE DEF EventInit
<1>1. EventTypeOK
  <2>1. /\ owner \in [Block -> {"free", "event", "other"}]
        /\ data \in [Block -> Event \cup {NULL}] /\ link \in [Block -> Block \cup {NULL}]
    OBVIOUS
  <2>2. /\ tpc \in [Event -> {"new", "filled", "queued", "dropped"}]
        /\ mine \in [Event -> Block \cup {NULL}]
    OBVIOUS
  <2>3. order \in Seq(Event) /\ delivered \in Seq(Event)
    OBVIOUS
  <2> QED
    BY <2>1, <2>2, <2>3 DEF EventTypeOK
<1>2. Len(order) = 0 /\ Len(delivered) = 0
  OBVIOUS
<1>3. OrderIsQueued
  BY <1>2 DEF OrderIsQueued
<1>4. Taken = 0
  BY <1>2 DEF Taken
<1>5. FilledKept
  BY DEF FilledKept
<1>6. QueueIsList
  BY <1>2, <1>4 DEF QueueIsList
<1>7. EntryTakenLast
  BY <1>2 DEF EntryTakenLast
<1> QED
  BY <1>1, <1>3, <1>5, <1>6, <1>7 DEF QueueInductive, HeadIffTail

\* The rest of the kernel allocates and frees its own blocks.
LEMMA OthersKeep ==
    ASSUME QueueInductive, NEW b \in Block, OtherAlloc(b) \/ OtherFree(b)
    PROVE  QueueInductive'
<1> USE EventAssumption
<1>1. /\ UNCHANGED <<queue_head, queue_tail, entry, dpc, tpc, mine, order, delivered>>
      /\ owner[b] # "event"
      /\ \A x \in Block : x # b => owner'[x] = owner[x] /\ data'[x] = data[x] /\ link'[x] = link[x]
      /\ aliased \in BOOLEAN /\ aliased' \in BOOLEAN
      /\ owner' \in [Block -> {"free", "event", "other"}]
      /\ data' \in [Block -> Event \cup {NULL}]
      /\ link' \in [Block -> Block \cup {NULL}]
      /\ ~aliased' => ~aliased /\ (entry # NULL => data'[entry] = data[entry])
  <2>1. CASE OtherAlloc(b)
    <3>1. /\ owner[b] = "free" /\ owner' = [owner EXCEPT ![b] = "other"]
          /\ data' = [data EXCEPT ![b] = NULL]
          /\ aliased' = (aliased \/ b = entry)
          /\ UNCHANGED <<queue_head, queue_tail, entry, dpc, tpc, mine, order, delivered>>
      BY <2>1 DEF OtherAlloc, MemAlloc, queue, dispatcher, trigger
    <3>2. PICK junk \in Block \cup {NULL} : link' = [link EXCEPT ![b] = junk]
      BY <2>1 DEF OtherAlloc
    <3>3. /\ owner \in [Block -> {"free", "event", "other"}]
          /\ data \in [Block -> Event \cup {NULL}] /\ link \in [Block -> Block \cup {NULL}]
          /\ aliased \in BOOLEAN /\ entry \in Block \cup {NULL}
      BY DEF QueueInductive, EventTypeOK
    <3>4. /\ owner' \in [Block -> {"free", "event", "other"}]
          /\ data' \in [Block -> Event \cup {NULL}] /\ link' \in [Block -> Block \cup {NULL}]
          /\ aliased' \in BOOLEAN
      BY <3>1, <3>2, <3>3
    <3>5. \A x \in Block : x # b => owner'[x] = owner[x] /\ data'[x] = data[x] /\ link'[x] = link[x]
      BY <3>1, <3>2, <3>3
    <3> QED
      BY <3>1, <3>3, <3>4, <3>5
  <2>2. CASE OtherFree(b)
    <3>1. /\ owner[b] = "other" /\ owner' = [owner EXCEPT ![b] = "free"]
          /\ UNCHANGED <<queue_head, queue_tail, entry, dpc, tpc, mine, order, delivered>>
          /\ UNCHANGED <<data, link, aliased>>
      BY <2>2 DEF OtherFree, MemFree, queue, dispatcher, trigger
    <3> QED
      BY <3>1 DEF QueueInductive, EventTypeOK
  <2> QED
    BY <2>1, <2>2
<1>2. EventTypeOK'
  BY <1>1 DEF QueueInductive, EventTypeOK
<1>3. HeadIffTail' /\ OrderIsQueued'
  BY <1>1 DEF QueueInductive, HeadIffTail, OrderIsQueued
<1>4. \A x \in Block : owner[x] = "event" =>
        owner'[x] = "event" /\ data'[x] = data[x] /\ link'[x] = link[x]
  BY <1>1
<1>5. ASSUME ~aliased' PROVE FilledKept' /\ QueueIsList' /\ EntryTakenLast'
  <2>1. FilledKept'
    <3>1. \A e \in Event : tpc[e] = "filled" => mine[e] \in Block
      BY DEF QueueInductive, OrderIsQueued
    <3> QED
      BY <1>1, <1>4, <1>5, <3>1 DEF QueueInductive, FilledKept, Holds
  <2>2. QueueIsList' /\ EntryTakenLast'
    BY <1>1, <1>4, <1>5, EntriesUndisturbed
  <2> QED
    BY <2>1, <2>2
<1> QED
  BY <1>2, <1>3, <1>5 DEF QueueInductive

\* The first half of event_trigger works on a block of its own.
LEMMA FillKeeps ==
    ASSUME QueueInductive, NEW e \in Event, NEW b \in Block, TriggerFill(e, b)
    PROVE  QueueInductive'
<1> USE EventAssumption
<1>1. /\ tpc[e] = "new" /\ owner[b] = "free"
      /\ owner' = [owner EXCEPT ![b] = "event"]
      /\ aliased' = (aliased \/ b = entry)
      /\ data' = [data EXCEPT ![b] = e]
      /\ link' = [link EXCEPT ![b] = NULL]
      /\ mine' = [mine EXCEPT ![e] = b]
      /\ tpc' = [tpc EXCEPT ![e] = "filled"]
      /\ UNCHANGED <<queue_head, queue_tail, entry, dpc, order, delivered>>
  BY DEF TriggerFill, MemAlloc, queue, dispatcher
<1>2. /\ owner \in [Block -> {"free", "event", "other"}]
      /\ data \in [Block -> Event \cup {NULL}]
      /\ link \in [Block -> Block \cup {NULL}]
      /\ tpc \in [Event -> {"new", "filled", "queued", "dropped"}]
      /\ mine \in [Event -> Block \cup {NULL}]
      /\ aliased \in BOOLEAN
  BY DEF QueueInductive, EventTypeOK
<1>3. /\ \A x \in Block : x # b => owner'[x] = owner[x] /\ data'[x] = data[x] /\ link'[x] = link[x]
      /\ owner'[b] = "event" /\ data'[b] = e /\ link'[b] = NULL
      /\ \A d \in Event : d # e => mine'[d] = mine[d] /\ tpc'[d] = tpc[d]
      /\ mine'[e] = b /\ tpc'[e] = "filled"
  BY <1>1, <1>2
<1>4. EventTypeOK'
  <2>1. /\ owner' \in [Block -> {"free", "event", "other"}]
        /\ data' \in [Block -> Event \cup {NULL}]
        /\ link' \in [Block -> Block \cup {NULL}]
        /\ tpc' \in [Event -> {"new", "filled", "queued", "dropped"}]
        /\ mine' \in [Event -> Block \cup {NULL}]
        /\ aliased' \in BOOLEAN
    BY <1>1, <1>2
  <2> QED
    BY <1>1, <2>1 DEF QueueInductive, EventTypeOK
<1>5. HeadIffTail'
  BY <1>1 DEF QueueInductive, HeadIffTail
<1>6. \A p \in 1 .. Len(order) : order[p] \in Event /\ order[p] # e
  BY <1>1, QueueTypes
<1>7. OrderIsQueued'
  <2>1. \A d \in Event : tpc'[d] = "queued" <=> \E p \in 1 .. Len(order) : order[p] = d
    BY <1>3, <1>6 DEF QueueInductive, OrderIsQueued
  <2>2. \A d \in Event : tpc'[d] \in {"filled", "queued"} => mine'[d] \in Block
    BY <1>3 DEF QueueInductive, OrderIsQueued
  <2> QED
    BY <1>1, <2>1, <2>2 DEF QueueInductive, OrderIsQueued
<1>8. ASSUME ~aliased' PROVE FilledKept' /\ QueueIsList' /\ EntryTakenLast'
  <2>1. ~aliased /\ b # entry
    BY <1>1, <1>8
  <2>2. entry # NULL => data'[entry] = data[entry]
    BY <1>1, <2>1
  <2>3. \A x \in Block : owner[x] = "event" =>
            owner'[x] = "event" /\ data'[x] = data[x] /\ link'[x] = link[x]
    BY <1>1, <1>3
  <2>4. \A p \in 1 .. Len(order) : mine'[order[p]] = mine[order[p]]
    BY <1>3, <1>6
  <2>5. QueueIsList' /\ EntryTakenLast'
    BY <1>1, <2>1, <2>2, <2>3, <2>4, EntriesUndisturbed
  <2>6. \A d \in Event : tpc[d] = "filled" =>
            /\ owner[mine[d]] = "event" /\ data[mine[d]] = d /\ link[mine[d]] = NULL
            /\ mine[d] \in Block
    BY <2>1 DEF QueueInductive, FilledKept, OrderIsQueued, Holds
  <2>7. \A d \in Event : tpc'[d] = "filled" =>
            owner'[mine'[d]] = "event" /\ data'[mine'[d]] = d /\ link'[mine'[d]] = NULL
    BY <1>3, <2>3, <2>6
  <2> QED
    BY <2>5, <2>7 DEF FilledKept, Holds
<1> QED
  BY <1>4, <1>5, <1>7, <1>8 DEF QueueInductive

LEMMA DropKeeps ==
    ASSUME QueueInductive, NEW e \in Event, TriggerDrop(e)
    PROVE  QueueInductive'
<1>1. /\ tpc[e] = "new"
      /\ tpc' = [tpc EXCEPT ![e] = "dropped"]
      /\ UNCHANGED <<owner, data, link, queue_head, queue_tail, entry, dpc, mine, order,
                     delivered, aliased>>
  BY DEF TriggerDrop, memory, queue, dispatcher
<1>2. tpc \in [Event -> {"new", "filled", "queued", "dropped"}]
  BY DEF QueueInductive, EventTypeOK
<1>3. (\A d \in Event : d # e => tpc'[d] = tpc[d]) /\ tpc'[e] = "dropped"
  BY <1>1, <1>2
<1>4. EventTypeOK'
  <2>1. tpc' \in [Event -> {"new", "filled", "queued", "dropped"}]
    BY <1>1, <1>2
  <2> QED
    BY <1>1, <2>1 DEF QueueInductive, EventTypeOK
<1>5. HeadIffTail'
  BY <1>1 DEF QueueInductive, HeadIffTail
<1>6. \A p \in 1 .. Len(order) : order[p] # e
  BY <1>1, QueueTypes
<1>7. OrderIsQueued'
  <2>1. \A d \in Event : tpc'[d] = "queued" <=> \E p \in 1 .. Len(order) : order[p] = d
    BY <1>3, <1>6 DEF QueueInductive, OrderIsQueued
  <2> QED
    BY <1>1, <1>3, <2>1 DEF QueueInductive, OrderIsQueued
<1>8. ASSUME ~aliased PROVE FilledKept' /\ QueueIsList' /\ EntryTakenLast'
  <2>1. QueueIsList' /\ EntryTakenLast'
    BY <1>1, <1>8, EntriesUndisturbed
  <2>2. FilledKept'
    BY <1>1, <1>3, <1>8 DEF QueueInductive, FilledKept, Holds
  <2> QED
    BY <2>1, <2>2
<1> QED
  BY <1>1, <1>4, <1>5, <1>7, <1>8 DEF QueueInductive

\* The critical section of event_trigger appends the entry.
LEMMA QueueKeeps ==
    ASSUME QueueInductive, NEW e \in Event, TriggerQueue(e)
    PROVE  QueueInductive'
<1> USE EventAssumption
<1> DEFINE L == Len(order)
           T == Taken
           b == mine[e]
<1>1. /\ tpc[e] = "filled"
      /\ queue_tail # NULL => link' = [link EXCEPT ![queue_tail] = b] /\ queue_head' = queue_head
      /\ queue_tail = NULL => queue_head' = b /\ link' = link
      /\ queue_tail' = b
      /\ tpc' = [tpc EXCEPT ![e] = "queued"]
      /\ order' = Append(order, e)
      /\ UNCHANGED <<owner, data, entry, dpc, mine, delivered, aliased>>
  BY DEF TriggerQueue, dispatcher
<1>2. /\ b \in Block /\ b # NULL
      /\ owner \in [Block -> {"free", "event", "other"}]
      /\ data \in [Block -> Event \cup {NULL}]
      /\ link \in [Block -> Block \cup {NULL}]
      /\ tpc \in [Event -> {"new", "filled", "queued", "dropped"}]
      /\ queue_tail \in Block \cup {NULL}
      /\ order \in Seq(Event)
  BY <1>1 DEF QueueInductive, EventTypeOK, OrderIsQueued
<1>3. /\ L \in Nat /\ Len(order') = L + 1 /\ order' \in Seq(Event)
      /\ \A p \in 1 .. L : order'[p] = order[p] /\ order[p] \in Event /\ order[p] # e
      /\ order'[L + 1] = e
  BY <1>1, <1>2, AppendProperties, QueueTypes
<1>4. (\A d \in Event : d # e => tpc'[d] = tpc[d]) /\ tpc'[e] = "queued"
  BY <1>1, <1>2
<1> HIDE DEF L, b
<1>5. EventTypeOK'
  <2>1. /\ tpc' \in [Event -> {"new", "filled", "queued", "dropped"}]
        /\ link' \in [Block -> Block \cup {NULL}]
        /\ queue_head' \in Block \cup {NULL} /\ queue_tail' \in Block \cup {NULL}
    BY <1>1, <1>2 DEF QueueInductive, EventTypeOK
  <2> QED
    BY <1>1, <1>3, <2>1 DEF QueueInductive, EventTypeOK
<1>6. HeadIffTail'
  BY <1>1, <1>2 DEF QueueInductive, HeadIffTail
<1>7. \A p \in 1 .. L + 1 : p = L + 1 \/ p \in 1 .. L
  BY <1>3
<1>8. OrderIsQueued'
  <2>1. \A p, j \in 1 .. L + 1 : order'[p] = order'[j] => p = j
    <3>1. \A p, j \in 1 .. L : order[p] = order[j] => p = j
      BY DEF QueueInductive, OrderIsQueued, L
    <3> QED
      BY <1>3, <1>7, <3>1
  <2>2. \A d \in Event : tpc'[d] = "queued" <=> \E p \in 1 .. L + 1 : order'[p] = d
    <3>1. \A d \in Event : tpc[d] = "queued" <=> \E p \in 1 .. L : order[p] = d
      BY DEF QueueInductive, OrderIsQueued, L
    <3>2. L + 1 \in 1 .. L + 1 /\ \A p \in 1 .. L : p \in 1 .. L + 1
      BY <1>3
    <3> QED
      BY <1>3, <1>4, <1>7, <3>1, <3>2
  <2>3. \A d \in Event : tpc'[d] \in {"filled", "queued"} => mine'[d] \in Block
    BY <1>1, <1>2, <1>4 DEF QueueInductive, OrderIsQueued, b
  <2> QED
    BY <1>3, <2>1, <2>2, <2>3 DEF OrderIsQueued
<1>9. ASSUME ~aliased PROVE FilledKept' /\ QueueIsList' /\ EntryTakenLast'
  <2>1. /\ T \in Nat /\ T <= L
        /\ queue_tail = NULL <=> T = L
        /\ \A k \in T + 1 .. L : mine[order[k]] \in Block /\ Holds(mine[order[k]], order[k])
        /\ \A j, k \in T + 1 .. L : mine[order[j]] = mine[order[k]] => j = k
        /\ entry # NULL => T \in 1 .. L
    BY <1>9, QueueEnds DEF L
  <2>2. Taken' = T
    BY <1>1, TakenKept
  <2>3. /\ \A d \in Event : tpc[d] = "filled" =>
                /\ owner[mine[d]] = "event" /\ data[mine[d]] = d /\ link[mine[d]] = NULL
                /\ mine[d] \in Block
        /\ owner[b] = "event" /\ data[b] = e /\ link[b] = NULL
    BY <1>1, <1>9 DEF QueueInductive, FilledKept, OrderIsQueued, Holds, b
  <2>4. /\ \A k \in T + 1 .. L :
                link[mine[order[k]]] = IF k = L THEN NULL ELSE mine[order[k + 1]]
        /\ queue_head = IF T = L THEN NULL ELSE mine[order[T + 1]]
        /\ queue_tail = IF T = L THEN NULL ELSE mine[order[L]]
    BY <1>9 DEF QueueInductive, QueueIsList, L
  <2>5. EntryTakenLast'
    <3>1. \A p \in 1 .. Len(delivered) : p \in 1 .. L
      BY <1>3, <2>1, QueueTypes
    <3> QED
      BY <1>1, <1>3, <1>9, <2>1, <2>2, <3>1 DEF QueueInductive, EntryTakenLast
  <2> HIDE DEF T
  <2>6. \A x \in Block : x # queue_tail => link'[x] = link[x]
    BY <1>1, <1>2
  <2>7. T # L => queue_tail \in Block /\ link'[queue_tail] = b /\ data[queue_tail] = order[L]
                 /\ L \in T + 1 .. L /\ T + 1 \in T + 1 .. L
    <3>1. T # L => L \in T + 1 .. L /\ T + 1 \in T + 1 .. L
      BY <1>3, <2>1
    <3> QED
      BY <1>1, <1>2, <2>1, <2>4, <3>1 DEF Holds
  <2>8. FilledKept'
    <3>1. \A d \in Event : tpc[d] = "filled" => mine[d] # queue_tail
      <4>1. L \in T + 1 .. L => L \in 1 .. L
        BY <1>3, <2>1
      <4>2. T # L => tpc[order[L]] = "queued"
        BY <2>7, <4>1, QueueTypes DEF L
      <4> QED
        BY <2>1, <2>3, <2>7, <4>2
    <3>2. \A d \in Event : tpc'[d] = "filled" =>
            owner'[mine'[d]] = "event" /\ data'[mine'[d]] = d /\ link'[mine'[d]] = NULL
      BY <1>1, <1>4, <2>3, <2>6, <3>1
    <3> QED
      BY <3>2 DEF FilledKept, Holds
  <2>9. QueueIsList'
    <3>1. b # queue_tail
      <4>1. L \in T + 1 .. L => L \in 1 .. L
        BY <1>3, <2>1
      <4> QED
        BY <1>2, <1>3, <2>1, <2>3, <2>7, <4>1
    <3>2. ASSUME NEW k \in T + 1 .. L + 1
          PROVE  /\ owner'[mine'[order'[k]]] = "event"
                 /\ data'[mine'[order'[k]]] = order'[k]
                 /\ link'[mine'[order'[k]]] =
                        IF k = L + 1 THEN NULL ELSE mine'[order'[k + 1]]
      <4>1. CASE k = L + 1
        BY <1>1, <1>2, <1>3, <2>3, <2>6, <3>1, <4>1 DEF b
      <4>2. CASE k = L
        <5>1. k \in T + 1 .. L /\ k \in 1 .. L /\ T # L /\ k # L + 1
          BY <1>3, <2>1, <4>2
        <5>2. order'[k] = order[k] /\ queue_tail = mine[order[k]] /\ order'[k + 1] = e
          BY <1>3, <2>4, <4>2, <5>1
        <5>3. Holds(queue_tail, order[k])
          BY <2>1, <5>1, <5>2
        <5> QED
          BY <1>1, <2>7, <5>1, <5>2, <5>3 DEF Holds, b
      <4>3. CASE k \in T + 1 .. L - 1
        <5>1. /\ k \in T + 1 .. L /\ k \in 1 .. L /\ k + 1 \in 1 .. L /\ k # L /\ k # L + 1
              /\ T # L
          BY <1>3, <2>1, <4>3
        <5>2. order'[k] = order[k] /\ order'[k + 1] = order[k + 1]
          BY <1>3, <5>1
        <5>3. queue_tail = mine[order[L]] /\ mine[order[k]] # queue_tail
          BY <2>1, <2>4, <2>7, <5>1
        <5>4. /\ mine[order[k]] \in Block /\ Holds(mine[order[k]], order[k])
              /\ link[mine[order[k]]] = mine[order[k + 1]]
          BY <2>1, <2>4, <5>1
        <5> QED
          BY <1>1, <2>6, <5>1, <5>2, <5>3, <5>4 DEF Holds
      <4> QED
        BY <1>3, <2>1, <4>1, <4>2, <4>3
    <3>3. T # L + 1 /\ T <= L + 1
      BY <1>3, <2>1
    <3>4. queue_tail' = mine'[order'[L + 1]]
      BY <1>1, <1>3 DEF b
    <3>5. queue_head' = mine'[order'[T + 1]]
      <4>1. CASE T = L
        BY <1>1, <1>3, <2>1, <4>1 DEF b
      <4>2. CASE T # L
        <5>1. T + 1 \in 1 .. L
          BY <1>3, <2>1, <4>2
        <5> QED
          BY <1>1, <1>3, <2>1, <2>4, <4>2, <5>1
      <4> QED
        BY <4>1, <4>2
    <3> QED
      BY <1>3, <2>2, <3>2, <3>3, <3>4, <3>5 DEF QueueIsList, Holds
  <2> QED
    BY <2>5, <2>8, <2>9
<1> QED
  BY <1>1, <1>5, <1>6, <1>8, <1>9 DEF QueueInductive

\* The dispatcher takes the first entry of the list.
LEMMA TakeKeeps ==
    ASSUME QueueInductive, Take
    PROVE  QueueInductive'
<1> USE EventAssumption
<1> DEFINE L == Len(order)
           T == Taken
<1>1. /\ dpc = "take" /\ dpc' = "deliver"
      /\ queue_head # NULL /\ entry' = queue_head
      /\ queue_head' = link[queue_head]
      /\ queue_tail' = IF link[queue_head] = NULL THEN NULL ELSE queue_tail
      /\ UNCHANGED <<owner, data, link, tpc, mine, order, delivered, aliased>>
  BY DEF Take, memory, trigger
<1>2. queue_head \in Block /\ link \in [Block -> Block \cup {NULL}] /\ queue_tail # NULL
  BY <1>1 DEF QueueInductive, EventTypeOK, HeadIffTail
<1>3. EventTypeOK'
  <2>1. /\ entry' \in Block \cup {NULL} /\ entry' # NULL
        /\ queue_head' \in Block \cup {NULL} /\ queue_tail' \in Block \cup {NULL}
    BY <1>1, <1>2 DEF QueueInductive, EventTypeOK
  <2> QED
    BY <1>1, <2>1 DEF QueueInductive, EventTypeOK
<1>4. HeadIffTail'
  BY <1>1, <1>2 DEF HeadIffTail
<1>5. OrderIsQueued'
  BY <1>1 DEF QueueInductive, OrderIsQueued
<1>6. ASSUME ~aliased PROVE FilledKept' /\ QueueIsList' /\ EntryTakenLast'
  <2>1. /\ T \in Nat /\ L \in Nat /\ T <= L /\ T # L
        /\ \A k \in T + 1 .. L : mine[order[k]] \in Block /\ Holds(mine[order[k]], order[k])
    BY <1>1, <1>6, QueueEnds
  <2>2. T = Len(delivered)
    BY <1>1, QueueTypes
  <2>3. /\ queue_head = mine[order[T + 1]] /\ queue_tail = mine[order[L]]
        /\ \A k \in T + 1 .. L :
                link[mine[order[k]]] = IF k = L THEN NULL ELSE mine[order[k + 1]]
    BY <1>6, <2>1 DEF QueueInductive, QueueIsList
  <2>4. /\ \A p, j \in 1 .. L : order[p] = order[j] => p = j
        /\ \A p \in 1 .. Len(delivered) : delivered[p] = order[p]
    BY <1>6 DEF QueueInductive, OrderIsQueued, EntryTakenLast
  <2> HIDE DEF L, T
  <2>5. T + 1 \in T + 1 .. L /\ T + 1 \in 1 .. L
    BY <2>1
  <2>6. data[queue_head] = order[T + 1]
    BY <2>1, <2>3, <2>5 DEF Holds
  <2>7. ~Contains(delivered, data[queue_head])
    <3>1. \A p \in 1 .. Len(delivered) : p \in 1 .. L /\ p # T + 1
      BY <2>1, <2>2
    <3> QED
      BY <2>4, <2>5, <2>6, <3>1 DEF Contains
  <2>8. Taken' = T + 1
    BY <1>1, <2>2, <2>7 DEF Taken, Contains
  <2>9. QueueIsList'
    <3>1. /\ T + 1 <= L /\ \A k \in (T + 1) + 1 .. L : k \in T + 1 .. L
      BY <2>1
    <3>2. \A k \in (T + 1) + 1 .. L :
            /\ owner[mine[order[k]]] = "event" /\ data[mine[order[k]]] = order[k]
            /\ link[mine[order[k]]] = IF k = L THEN NULL ELSE mine[order[k + 1]]
      BY <2>1, <2>3, <3>1 DEF Holds
    <3>3. link[queue_head] = IF T + 1 = L THEN NULL ELSE mine[order[(T + 1) + 1]]
      BY <2>3, <2>5
    <3>4. T + 1 # L => link[queue_head] # NULL
      <4>1. T + 1 # L => (T + 1) + 1 \in T + 1 .. L
        BY <2>1
      <4> QED
        BY <2>1, <3>3, <4>1
    <3>5. queue_tail' = IF T + 1 = L THEN NULL ELSE mine[order[L]]
      BY <1>1, <2>3, <3>3, <3>4
    <3>6. queue_head' = IF T + 1 = L THEN NULL ELSE mine[order[(T + 1) + 1]]
      BY <1>1, <3>3
    <3> QED
      BY <1>1, <2>8, <3>1, <3>2, <3>5, <3>6 DEF QueueIsList, Holds, L
  <2>10. EntryTakenLast'
    <3>1. T + 1 >= 1
      BY <2>1
    <3> QED
      BY <1>1, <2>4, <2>6, <2>8, <3>1 DEF EntryTakenLast
  <2>11. FilledKept'
    BY <1>1, <1>6 DEF QueueInductive, FilledKept, Holds
  <2> QED
    BY <2>9, <2>10, <2>11
<1> QED
  BY <1>1, <1>3, <1>4, <1>5, <1>6 DEF QueueInductive

\* A turn on an empty queue goes on with the entry taken last.
LEMMA TakeStaleKeeps ==
    ASSUME QueueInductive, TakeStale
    PROVE  QueueInductive'
<1>1. /\ dpc = "take" /\ dpc' = "deliver" /\ entry # NULL
      /\ UNCHANGED <<owner, data, link, queue_head, queue_tail, entry, tpc, mine, order,
                     delivered, aliased>>
  BY DEF TakeStale, memory, queue, trigger
<1>2. EventTypeOK' /\ HeadIffTail' /\ OrderIsQueued'
  BY <1>1 DEF QueueInductive, EventTypeOK, HeadIffTail, OrderIsQueued
<1>3. ASSUME ~aliased PROVE FilledKept' /\ QueueIsList' /\ EntryTakenLast'
  <2>1. /\ Taken \in 1 .. Len(order) /\ data[entry] = order[Taken] /\ Taken = Len(delivered)
        /\ Len(delivered) \in Nat
    BY <1>1, <1>3, QueueEnds, QueueTypes
  <2>2. Taken \in 1 .. Len(delivered) /\ delivered[Taken] = data[entry]
    BY <1>3, <2>1 DEF QueueInductive, EntryTakenLast
  <2>3. Contains(delivered, data[entry])
    BY <2>2 DEF Contains
  <2>4. Taken' = Taken
    <3>1. Taken' = Len(delivered)
      BY <1>1, <2>3 DEF Taken, Contains
    <3> QED
      BY <2>1, <3>1
  <2>5. QueueIsList'
    BY <1>1, <1>3, <2>4 DEF QueueInductive, QueueIsList, Holds
  <2>6. EntryTakenLast'
    BY <1>1, <1>3, <2>4 DEF QueueInductive, EntryTakenLast
  <2>7. FilledKept'
    BY <1>1, <1>3 DEF QueueInductive, FilledKept, Holds
  <2> QED
    BY <2>5, <2>6, <2>7
<1> QED
  BY <1>1, <1>2, <1>3 DEF QueueInductive

\* The handlers see the event taken last; it is new to them or the one they
\* saw last.
LEMMA DeliverKeeps ==
    ASSUME QueueInductive, Deliver
    PROVE  QueueInductive'
<1> USE EventAssumption
<1>1. /\ dpc = "deliver" /\ dpc' = "free"
      /\ delivered' = IF data[entry] = NULL \/ Contains(delivered, data[entry])
                      THEN delivered ELSE Append(delivered, data[entry])
      /\ UNCHANGED <<owner, data, link, queue_head, queue_tail, entry, tpc, mine, order, aliased>>
  BY DEF Deliver, memory, queue, trigger
<1>2. /\ entry \in Block /\ data[entry] \in Event \cup {NULL} /\ delivered \in Seq(Event)
      /\ Len(delivered) \in Nat
  BY <1>1, LenProperties DEF QueueInductive, EventTypeOK
<1>3. EventTypeOK'
  <2>1. delivered' \in Seq(Event)
    BY <1>1, <1>2, AppendProperties
  <2> QED
    BY <1>1, <2>1 DEF QueueInductive, EventTypeOK
<1>4. HeadIffTail' /\ OrderIsQueued'
  BY <1>1 DEF QueueInductive, HeadIffTail, OrderIsQueued
<1>5. ASSUME ~aliased PROVE FilledKept' /\ QueueIsList' /\ EntryTakenLast'
  <2>1. /\ Taken \in 1 .. Len(order) /\ data[entry] = order[Taken] /\ data[entry] \in Event
        /\ data[entry] # NULL
    <3>1. entry # NULL
      BY <1>2
    <3>2. Taken \in 1 .. Len(order) /\ data[entry] = order[Taken]
      BY <1>5, <3>1, QueueEnds
    <3>3. data[entry] \in Event
      BY <3>2, QueueTypes
    <3> QED
      BY <3>2, <3>3
  <2>2. Taken' = Taken /\ \A p \in 1 .. Len(delivered') : delivered'[p] = order[p]
    <3>1. Taken' = Len(delivered')
      BY <1>1 DEF Taken
    <3>2. CASE Contains(delivered, data[entry])
      <4>1. delivered' = delivered
        BY <1>1, <3>2
      <4>2. Taken = Len(delivered)
        BY <3>2 DEF Taken
      <4> QED
        BY <1>5, <3>1, <4>1, <4>2 DEF QueueInductive, EntryTakenLast
    <3>3. CASE ~Contains(delivered, data[entry])
      <4>1. delivered' = Append(delivered, data[entry])
        BY <1>1, <2>1, <3>3
      <4>2. Taken = Len(delivered) + 1
        BY <1>1, <3>3 DEF Taken
      <4>3. /\ Len(delivered') = Len(delivered) + 1
            /\ \A p \in 1 .. Len(delivered) : delivered'[p] = delivered[p]
            /\ delivered'[Len(delivered) + 1] = data[entry]
        BY <1>2, <2>1, <4>1, AppendProperties
      <4>4. \A p \in 1 .. Len(delivered) + 1 : p = Taken \/ p \in 1 .. Len(delivered)
        BY <1>2, <4>2
      <4>5. \A p \in 1 .. Len(delivered) : delivered[p] = order[p]
        BY <1>5 DEF QueueInductive, EntryTakenLast
      <4>6. \A p \in 1 .. Len(delivered') : delivered'[p] = order[p]
        BY <2>1, <4>2, <4>3, <4>4, <4>5
      <4> QED
        BY <3>1, <4>2, <4>3, <4>6
    <3> QED
      BY <3>2, <3>3
  <2>3. QueueIsList'
    BY <1>1, <1>5, <2>2 DEF QueueInductive, QueueIsList, Holds
  <2>4. EntryTakenLast'
    BY <1>1, <1>5, <2>2 DEF QueueInductive, EntryTakenLast
  <2>5. FilledKept'
    BY <1>1, <1>5 DEF QueueInductive, FilledKept, Holds
  <2> QED
    BY <2>3, <2>4, <2>5
<1> QED
  BY <1>1, <1>3, <1>4, <1>5 DEF QueueInductive

\* What is freed, for the first time or again, is no entry of the queue and
\* none that is being filled.
LEMMA FreeKeeps ==
    ASSUME QueueInductive, Free
    PROVE  QueueInductive'
<1> USE EventAssumption
<1>1. /\ dpc = "free" /\ dpc' = "take"
      /\ owner' = [owner EXCEPT ![entry] = "free"]
      /\ UNCHANGED <<data, link, queue_head, queue_tail, entry, tpc, mine, order, delivered, aliased>>
  BY DEF Free, MemFree, queue, trigger
<1>2. /\ entry \in Block /\ owner \in [Block -> {"free", "event", "other"}]
      /\ data \in [Block -> Event \cup {NULL}]
  BY <1>1 DEF QueueInductive, EventTypeOK
<1>3. \A x \in Block : x # entry => owner'[x] = owner[x]
  BY <1>1, <1>2
<1>4. EventTypeOK'
  <2>1. owner' \in [Block -> {"free", "event", "other"}]
    BY <1>1, <1>2
  <2> QED
    BY <1>1, <2>1 DEF QueueInductive, EventTypeOK
<1>5. HeadIffTail' /\ OrderIsQueued'
  BY <1>1 DEF QueueInductive, HeadIffTail, OrderIsQueued
<1>6. ASSUME ~aliased PROVE FilledKept' /\ QueueIsList' /\ EntryTakenLast'
  <2>1. /\ Taken \in 1 .. Len(order) /\ data[entry] = order[Taken]
        /\ \A k \in Taken + 1 .. Len(order) :
                mine[order[k]] # entry /\ mine[order[k]] \in Block /\ Holds(mine[order[k]], order[k])
    <3>1. entry # NULL
      BY <1>2
    <3> QED
      BY <1>6, <3>1, QueueEnds
  <2>2. Taken' = Taken
    BY <1>1 DEF Taken
  <2>3. \A k \in Taken + 1 .. Len(order) : owner'[mine[order[k]]] = "event"
    BY <1>3, <2>1 DEF Holds
  <2>4. QueueIsList'
    BY <1>1, <1>6, <2>2, <2>3 DEF QueueInductive, QueueIsList, Holds
  <2>5. EntryTakenLast'
    BY <1>1, <1>6, <2>2 DEF QueueInductive, EntryTakenLast
  <2>6. FilledKept'
    <3>1. tpc[order[Taken]] = "queued"
      BY <2>1, QueueTypes
    <3>2. \A e \in Event : tpc[e] = "filled" =>
            /\ owner[mine[e]] = "event" /\ data[mine[e]] = e /\ link[mine[e]] = NULL
            /\ mine[e] \in Block
      BY <1>6 DEF QueueInductive, FilledKept, OrderIsQueued, Holds
    <3>3. \A e \in Event : tpc[e] = "filled" => mine[e] # entry
      BY <2>1, <3>1, <3>2
    <3>4. \A e \in Event : tpc[e] = "filled" => owner'[mine[e]] = "event"
      BY <1>3, <3>2, <3>3
    <3> QED
      BY <1>1, <3>2, <3>4 DEF FilledKept, Holds
  <2> QED
    BY <2>4, <2>5, <2>6
<1> QED
  BY <1>1, <1>4, <1>5, <1>6 DEF QueueInductive

LEMMA QueueStep == QueueInductive /\ [EventNext]_evars => QueueInductive'
<1> SUFFICES ASSUME QueueInductive, [EventNext]_evars PROVE QueueInductive'
  OBVIOUS
<1>1. ASSUME NEW b \in Block, OtherAlloc(b) \/ OtherFree(b) PROVE QueueInductive'
  BY <1>1, OthersKeep
<1>2. ASSUME NEW e \in Event, NEW b \in Block, TriggerFill(e, b) PROVE QueueInductive'
  BY <1>2, FillKeeps
<1>3. ASSUME NEW e \in Event, TriggerDrop(e) PROVE QueueInductive'
  BY <1>3, DropKeeps
<1>4. ASSUME NEW e \in Event, TriggerQueue(e) PROVE QueueInductive'
  BY <1>4, QueueKeeps
<1>5. CASE Dispatch
  BY <1>5, TakeKeeps, TakeStaleKeeps, DeliverKeeps, FreeKeeps DEF Dispatch
<1>6. CASE UNCHANGED evars
  <2>1. UNCHANGED <<owner, data, link, queue_head, queue_tail, entry, dpc, tpc, mine, order,
                    delivered, aliased>>
    BY <1>6 DEF evars
  <2>2. EventTypeOK' /\ HeadIffTail' /\ OrderIsQueued'
    BY <2>1 DEF QueueInductive, EventTypeOK, HeadIffTail, OrderIsQueued
  <2>3. Taken' = Taken
    BY <2>1 DEF Taken
  <2>4. ASSUME ~aliased PROVE FilledKept' /\ QueueIsList' /\ EntryTakenLast'
    <3>1. QueueIsList' /\ EntryTakenLast'
      BY <2>1, <2>3, <2>4 DEF QueueInductive, QueueIsList, EntryTakenLast, Holds
    <3>2. FilledKept'
      BY <2>1, <2>4 DEF QueueInductive, FilledKept, Holds
    <3> QED
      BY <3>1, <3>2
  <2> QED
    BY <2>1, <2>2, <2>4 DEF QueueInductive
<1> QED
  BY <1>1, <1>2, <1>3, <1>4, <1>5, <1>6 DEF EventNext

LEMMA QueueAlways == EventSpec => []QueueInductive
<1>1. EventInit => QueueInductive
  BY InitQueue
<1>2. QueueInductive /\ [EventNext]_evars => QueueInductive'
  BY QueueStep
<1> QED
  BY <1>1, <1>2, PTL DEF EventSpec

-----------------------------------------------------------------------------
(* From the list to what the walk along next finds. *)

\* A nonempty set of numbers has a smallest: induction, for the provers here.
LEMMA SmallestOf ==
    ASSUME NEW S, S \subseteq Nat, S # {}
    PROVE  \E m \in S : \A n \in S : m <= n
<1> DEFINE R == OpToRel(<, Nat)
<1>1. IsWellFoundedOn(R, Nat)
  BY NatLessThanWellFounded, Zenon
<1>2. \A m, n \in Nat : n < m => <<n, m>> \in R
  BY DEF OpToRel
<1> HIDE DEF R
<1>3. PICK m \in S : \A n \in S : ~(<<n, m>> \in R)
  BY <1>1, WFMin
<1>4. \A n \in S : ~(n < m) /\ n \in Nat /\ m \in Nat
  BY <1>2, <1>3
<1> QED
  BY <1>4

\* Whatever contains the head and is closed under next contains the list.
LEMMA ListReached ==
    ASSUME QueueInductive, ~aliased, NEW S \in SUBSET Block,
           queue_head # NULL => queue_head \in S,
           \A x \in S : link[x] # NULL => link[x] \in S,
           NEW k \in Taken + 1 .. Len(order)
    PROVE  mine[order[k]] \in S
<1> USE EventAssumption
<1> DEFINE Missed == {j \in Taken + 1 .. Len(order) : mine[order[j]] \notin S}
<1>1. /\ Taken \in Nat /\ Len(order) \in Nat
      /\ \A j \in Taken + 1 .. Len(order) : mine[order[j]] \in Block
  BY QueueEnds
<1>2. SUFFICES ASSUME Missed # {} PROVE FALSE
  OBVIOUS
<1>3. Missed \subseteq Nat
  BY <1>1
<1>4. PICK m \in Missed : \A n \in Missed : m <= n
  <2> HIDE DEF Missed
  <2> QED
    BY <1>2, <1>3, SmallestOf
<1>5. m \in Taken + 1 .. Len(order) /\ mine[order[m]] \notin S
  BY <1>4
<1>6. CASE m = Taken + 1
  <2>1. Taken # Len(order)
    BY <1>1, <1>5, <1>6
  <2>2. queue_head = mine[order[m]]
    BY <1>6, <2>1 DEF QueueInductive, QueueIsList
  <2>3. queue_head # NULL
    BY <1>1, <1>5, <2>2
  <2> QED
    BY <1>5, <2>2, <2>3
<1>7. CASE m # Taken + 1
  <2>1. m - 1 \in Taken + 1 .. Len(order) /\ m - 1 # Len(order) /\ (m - 1) + 1 = m /\ ~(m <= m - 1)
    BY <1>1, <1>5, <1>7
  <2>2. m - 1 \notin Missed
    BY <1>4, <2>1
  <2>3. mine[order[m - 1]] \in S
    BY <2>1, <2>2
  <2>4. link[mine[order[m - 1]]] = mine[order[m]]
    BY <2>1 DEF QueueInductive, QueueIsList
  <2>5. mine[order[m]] # NULL
    BY <1>1, <1>5
  <2> QED
    BY <1>5, <2>3, <2>4, <2>5
<1> QED
  BY <1>6, <1>7

LEMMA ListIsQueued ==
    ASSUME QueueInductive, ~aliased
    PROVE  Queued = {mine[order[k]] : k \in Taken + 1 .. Len(order)}
<1> USE EventAssumption
<1> DEFINE List == {mine[order[k]] : k \in Taken + 1 .. Len(order)}
<1>1. /\ Taken \in Nat /\ Len(order) \in Nat /\ Taken <= Len(order)
      /\ \A j \in Taken + 1 .. Len(order) : mine[order[j]] \in Block
      /\ queue_head = NULL <=> Taken = Len(order)
  BY QueueEnds
<1>2. List \in SUBSET Block
  BY <1>1
<1>3. List \subseteq Queued
  <2>1. SUFFICES ASSUME NEW k \in Taken + 1 .. Len(order), NEW S \in SUBSET Block,
                        queue_head # NULL => queue_head \in S,
                        \A x \in S : link[x] # NULL => link[x] \in S
                 PROVE  mine[order[k]] \in S
    BY <1>2 DEF Queued
  <2> QED
    BY <2>1, ListReached
<1>4. queue_head # NULL => queue_head \in List
  <2>1. ASSUME queue_head # NULL PROVE queue_head \in List
    <3>1. Taken # Len(order) /\ Taken + 1 \in Taken + 1 .. Len(order)
      BY <1>1, <2>1
    <3>2. queue_head = mine[order[Taken + 1]]
      BY <3>1 DEF QueueInductive, QueueIsList
    <3> QED
      BY <3>1, <3>2
  <2> QED
    BY <2>1
<1>5. \A x \in List : link[x] # NULL => link[x] \in List
  <2>1. SUFFICES ASSUME NEW k \in Taken + 1 .. Len(order), link[mine[order[k]]] # NULL
                 PROVE  link[mine[order[k]]] \in List
    OBVIOUS
  <2>2. k # Len(order) /\ link[mine[order[k]]] = mine[order[k + 1]]
    BY <2>1 DEF QueueInductive, QueueIsList
  <2>3. k + 1 \in Taken + 1 .. Len(order)
    BY <1>1, <2>2
  <2> QED
    BY <2>2, <2>3
<1> HIDE DEF List
<1>6. Queued \subseteq List
  BY <1>2, <1>4, <1>5 DEF Queued
<1> QED
  BY <1>3, <1>6 DEF List

\* Until the leftover entry's block is handed out, the queue of event_trigger
\* and event_dispatcher is a list from head to tail of allocated entries that
\* no handler has seen; a head has a tail, and a tail a head, always.
THEOREM QueueStaysIntact == EventSpec => []QueueInvariant
<1>1. QueueInductive => QueueInvariant
  <2> SUFFICES ASSUME QueueInductive PROVE EventTypeOK /\ HeadIffTail /\ QueueIntact
    BY DEF QueueInvariant
  <2>1. EventTypeOK /\ HeadIffTail
    BY DEF QueueInductive
  <2>2. ASSUME ~aliased
        PROVE  /\ queue_tail # NULL => queue_tail \in Queued /\ link[queue_tail] = NULL
               /\ \A b \in Queued : owner[b] = "event" /\ ~Contains(delivered, data[b])
    <3>1. /\ Taken \in Nat /\ Len(order) \in Nat /\ Taken <= Len(order)
          /\ queue_tail = NULL <=> Taken = Len(order)
          /\ \A k \in Taken + 1 .. Len(order) : Holds(mine[order[k]], order[k])
      BY <2>2, QueueEnds
    <3>2. Queued = {mine[order[k]] : k \in Taken + 1 .. Len(order)}
      BY <2>2, ListIsQueued
    <3>3. ASSUME queue_tail # NULL PROVE queue_tail \in Queued /\ link[queue_tail] = NULL
      <4>1. Len(order) \in Taken + 1 .. Len(order) /\ Taken # Len(order)
        BY <3>1, <3>3
      <4>2. queue_tail = mine[order[Len(order)]] /\ link[mine[order[Len(order)]]] = NULL
        BY <2>2, <4>1 DEF QueueInductive, QueueIsList
      <4> QED
        BY <3>2, <4>1, <4>2
    <3>4. ASSUME NEW k \in Taken + 1 .. Len(order)
          PROVE  /\ owner[mine[order[k]]] = "event"
                 /\ ~Contains(delivered, data[mine[order[k]]])
      <4>1. owner[mine[order[k]]] = "event" /\ data[mine[order[k]]] = order[k]
        BY <3>1 DEF Holds
      <4>2. Len(delivered) \in Nat /\ Taken >= Len(delivered)
        BY QueueTypes
      <4>3. k \in 1 .. Len(order) /\ \A p \in 1 .. Len(delivered) : p \in 1 .. Len(order) /\ p # k
        BY <3>1, <4>2
      <4>4. \A p \in 1 .. Len(delivered) : delivered[p] = order[p] /\ order[p] # order[k]
        BY <2>2, <4>3 DEF QueueInductive, EntryTakenLast, OrderIsQueued
      <4> QED
        BY <4>1, <4>4 DEF Contains
    <3> QED
      BY <3>2, <3>3, <3>4
  <2> QED
    BY <2>1, <2>2 DEF QueueIntact, HeadIffTail
<1> QED
  BY <1>1, QueueAlways, PTL

\* Handlers first see the events in the order in which event_trigger queued
\* them, until the leftover entry's block is handed out.
THEOREM HandlersSeeQueueOrder == EventSpec => []FirstDeliveriesInOrder
<1>1. QueueInductive => FirstDeliveriesInOrder
  <2> SUFFICES ASSUME QueueInductive, ~aliased PROVE IsPrefix(delivered, order)
    BY DEF FirstDeliveriesInOrder
  <2>1. /\ Len(delivered) \in Nat /\ Len(order) \in Nat /\ Len(delivered) <= Len(order)
        /\ delivered \in Seq(Event) /\ order \in Seq(Event)
    <3>1. Taken >= Len(delivered) /\ Taken <= Len(order) /\ Taken \in Nat
          /\ Len(delivered) \in Nat /\ Len(order) \in Nat
      BY QueueTypes, QueueEnds
    <3> QED
      BY <3>1 DEF QueueInductive, EventTypeOK
  <2>2. SubSeq(delivered, 1, Len(delivered)) = delivered
    BY <2>1, SubSeqFull
  <2> DEFINE first == SubSeq(order, 1, Len(delivered))
  <2>3. /\ \A p \in 1 .. Len(delivered) : order[p] \in Event /\ delivered[p] = order[p]
    <3>1. \A p \in 1 .. Len(delivered) : p \in 1 .. Len(order)
      BY <2>1
    <3> QED
      BY <3>1, QueueTypes DEF QueueInductive, EntryTakenLast
  <2>4. /\ first \in Seq(Event) /\ Len(first) = Len(delivered)
        /\ \A p \in 1 .. Len(delivered) : first[p] = order[p]
    <3> DEFINE n == Len(delivered)
    <3>1. n \in Nat /\ \A p \in 1 .. n : order[p] \in Event
      BY <2>1, <2>3
    <3>2. 1 \in Int /\ n \in Int
      BY <3>1
    <3>3. /\ SubSeq(order, 1, n) \in Seq(Event)
          /\ Len(SubSeq(order, 1, n)) = IF 1 <= n THEN n - 1 + 1 ELSE 0
          /\ \A p \in 1 .. n - 1 + 1 : SubSeq(order, 1, n)[p] = order[1 + p - 1]
      <4> HIDE DEF n
      <4> QED
        BY <3>1, <3>2, SubSeqProperties
    <3>4. \A p \in 1 .. n : p \in 1 .. n - 1 + 1 /\ 1 + p - 1 = p
      BY <3>1
    <3>5. (IF 1 <= n THEN n - 1 + 1 ELSE 0) = n
      BY <3>1
    <3> QED
      BY <3>3, <3>4, <3>5
  <2>5. first = delivered
    <3> HIDE DEF first
    <3> QED
      BY <2>1, <2>3, <2>4, SeqEqual
  <2> QED
    BY <2>1, <2>2, <2>5 DEF IsPrefix
<1> QED
  BY <1>1, QueueAlways, PTL

-----------------------------------------------------------------------------
(* The handler table. *)

Registered == {r \in Reg : rpc[r] = "in"}

\* The table is a bijection between the slots in use and the registered pairs.
TableOneToOne ==
    /\ handler_count = Cardinality(Registered)
    /\ \A k \in 0 .. handler_count - 1 : slots[k] \in Registered
    /\ \A r \in Registered : \E k \in 0 .. handler_count - 1 : slots[k] = r
    /\ \A j, k \in 0 .. handler_count - 1 : slots[j] = slots[k] => j = k

\* Without a race one call at most is past its test, and it finds room.
RoomForChecked ==
    ~raced =>
        /\ handler_count <= MAX_HANDLERS
        /\ \A r \in Reg : rpc[r] = "checked" => handler_count < MAX_HANDLERS
        /\ \A q, r \in Reg : rpc[q] = "checked" /\ rpc[r] = "checked" => q = r

\* The dispatcher's walk: it is between its two loads only at a slot that has
\* been filled, and between deliveries it remembers nothing.
WalkInTable ==
    /\ walk = "ctx" => fn \in Reg /\ i \in Index /\ slots[i] \in Reg
    /\ walk = "idle" => called = {} /\ steady = {} /\ ~disturbed
    /\ steady \subseteq Registered

\* A steady handler that has been called, or is about to be, lies below the
\* loop's next slot, where the loop does not return to.
CalledLiesBehind ==
    /\ \A k \in 0 .. handler_count - 1, c \in Reg :
            slots[k] \in steady /\ <<slots[k], c>> \in called => k < i
    /\ walk = "ctx" /\ fn \in steady =>
            /\ \A k \in 0 .. handler_count - 1 : slots[k] = fn => k <= i
            /\ \A c \in Reg : <<fn, c>> \notin called

\* While nothing is removed every steady handler behind the loop has been
\* called, and the slot the loop stands at holds the handler it has loaded.
BehindIsCalled ==
    ~disturbed =>
        /\ \A k \in 0 .. handler_count - 1 :
                k < i /\ slots[k] \in steady => \E c \in Reg : <<slots[k], c>> \in called
        /\ walk = "ctx" => i < handler_count /\ slots[i] = fn
        /\ OwnCtx

HandlersInductive ==
    /\ HandlersTypeOK
    /\ TableOneToOne
    /\ RoomForChecked
    /\ WalkInTable
    /\ CalledLiesBehind
    /\ BehindIsCalled

-----------------------------------------------------------------------------
(* The table. *)

\* The number of registrations is a number, and some subset of them is
\* registered.
LEMMA RegistrationsCount ==
    ASSUME HandlersTypeOK
    PROVE  /\ Cardinality(Reg) \in Nat
           /\ IsFiniteSet(Registered)
           /\ Cardinality(Registered) \in Nat
           /\ Registered # Reg => Cardinality(Registered) < Cardinality(Reg)
  BY HandlersAssumption, FS_CardinalityType, FS_Subset DEF Registered

\* event_register fills the slot behind those in use, which lies in Index.
LEMMA RegisterTable ==
    ASSUME HandlersTypeOK, TableOneToOne, NEW r \in Reg, Register(r)
    PROVE  /\ handler_count \in Index
           /\ handler_count' = handler_count + 1
           /\ slots'[handler_count] = r
           /\ \A k \in 0 .. handler_count - 1 : slots'[k] = slots[k]
           /\ Registered' = Registered \cup {r}
           /\ r \notin Registered
           /\ HandlersTypeOK'
           /\ TableOneToOne'
<1> USE HandlersAssumption DEF HandlersTypeOK
<1>1. /\ slots' = [slots EXCEPT ![handler_count] = r]
      /\ handler_count' = handler_count + 1
      /\ rpc[r] = "checked"
      /\ rpc' = [rpc EXCEPT ![r] = "in"]
      /\ UNCHANGED <<i, fn, walk, called, steady, disturbed, raced>>
  BY DEF Register
<1>2. Registered' = Registered \cup {r} /\ r \in Reg \ Registered
  BY <1>1 DEF Registered
<1>3. handler_count \in Nat /\ handler_count < Cardinality(Reg) /\ Cardinality(Reg) \in Nat
  BY <1>2, RegistrationsCount DEF TableOneToOne
<1>4. handler_count \in Index
  BY <1>3 DEF Index
<1>5. slots'[handler_count] = r /\ \A k \in Index : k # handler_count => slots'[k] = slots[k]
  BY <1>1, <1>4
<1>6. \A k \in 0 .. handler_count - 1 : k \in Index /\ k # handler_count
  BY <1>3 DEF Index
<1>7. HandlersTypeOK'
  <2>1. handler_count' \in 0 .. Cardinality(Reg)
    BY <1>1, <1>3
  <2>2. slots' \in [Index -> Reg \cup {EMPTY}]
    BY <1>1
  <2> QED
    BY <1>1, <2>1, <2>2
<1>8. TableOneToOne'
  <2>1. handler_count' = Cardinality(Registered')
    BY <1>1, <1>2, RegistrationsCount, FS_AddElement DEF TableOneToOne
  <2>2. \A k \in 0 .. handler_count' - 1 : k = handler_count \/ k \in 0 .. handler_count - 1
    BY <1>1, <1>3
  <2>3. \A k \in 0 .. handler_count' - 1 : slots'[k] \in Registered'
    BY <1>2, <1>5, <1>6, <2>2 DEF TableOneToOne
  <2>4. handler_count \in 0 .. handler_count' - 1
    BY <1>1, <1>3
  <2>5. \A k \in 0 .. handler_count - 1 : k \in 0 .. handler_count' - 1
    BY <1>1, <1>3
  <2>6. \A q \in Registered' : \E k \in 0 .. handler_count' - 1 : slots'[k] = q
    BY <1>2, <1>5, <1>6, <2>4, <2>5 DEF TableOneToOne
  <2>7. \A j, k \in 0 .. handler_count' - 1 : slots'[j] = slots'[k] => j = k
    BY <1>2, <1>5, <1>6, <2>2 DEF TableOneToOne
  <2> QED
    BY <2>1, <2>3, <2>6, <2>7 DEF TableOneToOne
<1> QED
  BY <1>1, <1>2, <1>4, <1>5, <1>6, <1>7, <1>8

\* event_unregister moves the slots above the one that matches down by one and
\* leaves the rest alone.
LEMMA UnregisterTable ==
    ASSUME HandlersTypeOK, TableOneToOne, NEW r \in Reg, Unregister(r)
    PROVE  /\ Registered' = Registered \ {r}
           /\ HandlersTypeOK'
           /\ TableOneToOne'
           /\ \A k \in Index : slots[k] \in Reg => slots'[k] \in Reg
           /\ \A k \in 0 .. handler_count' - 1 :
                \E j \in 0 .. handler_count - 1 : j >= k /\ slots'[k] = slots[j]
<1> USE HandlersAssumption DEF HandlersTypeOK
<1>0. /\ handler_count \in Nat /\ Cardinality(Reg) \in Nat
      /\ handler_count <= Cardinality(Reg)
  BY RegistrationsCount
<1>1. PICK p \in 0 .. handler_count - 1 :
        /\ slots[p] = r
        /\ slots' = [j \in Index |-> IF j \in p .. handler_count - 2
                                     THEN slots[j + 1] ELSE slots[j]]
  BY DEF Unregister
<1>2. /\ handler_count' = handler_count - 1
      /\ rpc[r] = "in"
      /\ rpc' = [rpc EXCEPT ![r] = "out"]
      /\ steady' = steady \ {r}
      /\ disturbed' = (disturbed \/ walk # "idle")
      /\ UNCHANGED <<i, fn, walk, called, raced>>
  BY DEF Unregister
<1>3. Registered' = Registered \ {r} /\ r \in Registered
  BY <1>2 DEF Registered
<1>4. \A j \in Index : j \in p .. handler_count - 2 =>
        slots'[j] = slots[j + 1] /\ j + 1 \in 0 .. handler_count - 1 /\ j + 1 \in Index
  BY <1>0, <1>1 DEF Index
<1>5. \A j \in Index : j \notin p .. handler_count - 2 => slots'[j] = slots[j]
  BY <1>1
<1>6. slots' \in [Index -> Reg \cup {EMPTY}]
  BY <1>1, <1>4
<1>7. HandlersTypeOK'
  BY <1>0, <1>1, <1>2, <1>6
<1>8. \A k \in Index : slots[k] \in Reg => slots'[k] \in Reg
  BY <1>4, <1>5 DEF TableOneToOne, Registered
<1>9. \A k \in 0 .. handler_count' - 1 :
        /\ k \in Index
        /\ k < p => slots'[k] = slots[k] /\ k \in 0 .. handler_count - 1
        /\ k >= p => slots'[k] = slots[k + 1] /\ k + 1 \in 0 .. handler_count - 1
  BY <1>0, <1>1, <1>2, <1>4, <1>5 DEF Index
<1>10. TableOneToOne'
  <2>1. handler_count' = Cardinality(Registered')
    BY <1>0, <1>2, <1>3, RegistrationsCount, FS_RemoveElement DEF TableOneToOne
  <2>2. \A k \in 0 .. handler_count' - 1 : slots'[k] \in Registered'
    <3> SUFFICES ASSUME NEW k \in 0 .. handler_count' - 1 PROVE slots'[k] \in Registered'
      OBVIOUS
    <3>1. CASE k < p
      BY <1>1, <1>3, <1>9, <3>1 DEF TableOneToOne
    <3>2. CASE k >= p
      BY <1>1, <1>3, <1>9, <3>2 DEF TableOneToOne
    <3> QED
      BY <3>1, <3>2, <1>1
  <2>3. \A q \in Registered' : \E k \in 0 .. handler_count' - 1 : slots'[k] = q
    <3> SUFFICES ASSUME NEW q \in Registered, q # r
                 PROVE  \E k \in 0 .. handler_count' - 1 : slots'[k] = q
      BY <1>3
    <3>1. PICK j \in 0 .. handler_count - 1 : slots[j] = q
      BY DEF TableOneToOne
    <3>2. CASE j < p
      <4>1. j \in 0 .. handler_count' - 1
        BY <1>0, <1>1, <1>2, <3>2
      <4> QED
        BY <1>9, <3>1, <3>2, <4>1
    <3>3. CASE j > p
      <4>1. j - 1 \in 0 .. handler_count' - 1 /\ j - 1 >= p /\ (j - 1) + 1 = j
        BY <1>0, <1>1, <1>2, <3>3
      <4> QED
        BY <1>9, <3>1, <4>1
    <3> QED
      BY <1>1, <3>1, <3>2, <3>3
  <2>4. \A j, k \in 0 .. handler_count' - 1 : slots'[j] = slots'[k] => j = k
    <3> SUFFICES ASSUME NEW j \in 0 .. handler_count' - 1,
                        NEW k \in 0 .. handler_count' - 1, slots'[j] = slots'[k]
                 PROVE  j = k
      OBVIOUS
    <3> DEFINE old(x) == IF x < p THEN x ELSE x + 1
    <3>1. \A x \in 0 .. handler_count' - 1 :
            old(x) \in 0 .. handler_count - 1 /\ slots'[x] = slots[old(x)]
      BY <1>1, <1>9
    <3>2. old(j) = old(k)
      BY <3>1 DEF TableOneToOne
    <3> QED
      BY <1>1, <3>2
  <2> QED
    BY <2>1, <2>2, <2>3, <2>4 DEF TableOneToOne
<1>11. \A k \in 0 .. handler_count' - 1 :
          \E j \in 0 .. handler_count - 1 : j >= k /\ slots'[k] = slots[j]
  <2> SUFFICES ASSUME NEW k \in 0 .. handler_count' - 1
               PROVE  \E j \in 0 .. handler_count - 1 : j >= k /\ slots'[k] = slots[j]
    OBVIOUS
  <2>1. CASE k < p
    BY <1>9, <2>1
  <2>2. CASE k >= p
    BY <1>9, <2>2
  <2> QED
    BY <1>1, <2>1, <2>2
<1> QED
  BY <1>3, <1>7, <1>8, <1>10, <1>11

-----------------------------------------------------------------------------
(* One lemma per action. *)

\* The variables' ranges that the steps below compute with.
LEMMA HandlersRanges ==
    ASSUME HandlersTypeOK
    PROVE  /\ handler_count \in Nat /\ i \in Nat
           /\ Cardinality(Reg) \in Nat
           /\ handler_count <= Cardinality(Reg) /\ i <= Cardinality(Reg)
  BY RegistrationsCount DEF HandlersTypeOK

\* At reset the table is empty and nobody is in a call.
LEMMA HandlersInitInductive == HandlersInit => HandlersInductive
<1> SUFFICES ASSUME HandlersInit PROVE HandlersInductive
  OBVIOUS
<1>1. Cardinality(Reg) \in Nat
  BY HandlersAssumption, FS_CardinalityType
<1>2. HandlersTypeOK
  <2>1. 0 \in 0 .. Cardinality(Reg) /\ {} \subseteq Reg \X Reg
    BY <1>1
  <2> QED
    BY <2>1 DEF HandlersInit, HandlersTypeOK
<1>3. Registered = {}
  BY DEF HandlersInit, Registered
<1>4. TableOneToOne
  BY <1>3, FS_EmptySet DEF HandlersInit, TableOneToOne
<1> QED
  BY <1>2, <1>4, HandlersAssumption DEF HandlersInit, HandlersInductive, RoomForChecked,
        WalkInTable, CalledLiesBehind, BehindIsCalled, OwnCtx

\* A second call past the test is what raced records.
LEMMA RegisterCheckStep ==
    ASSUME HandlersInductive, NEW r \in Reg, RegisterCheck(r)
    PROVE  HandlersInductive'
<1> USE HandlersAssumption DEF HandlersInductive, RegisterCheck
<1>1. HandlersTypeOK'
  BY DEF HandlersTypeOK
<1>2. Registered' = Registered
  BY DEF Registered, HandlersTypeOK
<1>3. TableOneToOne'
  BY <1>2 DEF TableOneToOne
<1>4. RoomForChecked'
  BY HandlersRanges DEF RoomForChecked, HandlersTypeOK
<1>5. WalkInTable' /\ CalledLiesBehind' /\ BehindIsCalled'
  BY <1>2 DEF WalkInTable, CalledLiesBehind, BehindIsCalled, OwnCtx, Index
<1> QED
  BY <1>1, <1>3, <1>4, <1>5

\* The new handler is not steady, and it comes behind the loop.
LEMMA RegisterStep ==
    ASSUME HandlersInductive, NEW r \in Reg, Register(r)
    PROVE  HandlersInductive'
<1> USE DEF HandlersInductive
<1>1. /\ handler_count \in Index
      /\ handler_count' = handler_count + 1
      /\ slots'[handler_count] = r
      /\ \A k \in 0 .. handler_count - 1 : slots'[k] = slots[k]
      /\ Registered' = Registered \cup {r}
      /\ r \notin Registered
      /\ HandlersTypeOK'
      /\ TableOneToOne'
  BY RegisterTable
<1>2. handler_count \in Nat /\ i \in Nat /\ MAX_HANDLERS \in Nat
  BY HandlersRanges, HandlersAssumption
<1>3. UNCHANGED <<i, fn, walk, called, steady, disturbed, raced>> /\ rpc[r] = "checked"
  BY DEF Register
<1>4. \A k \in 0 .. handler_count' - 1 : k = handler_count \/ k \in 0 .. handler_count - 1
  BY <1>1, <1>2
<1>5. r \notin steady
  BY <1>1 DEF WalkInTable
<1>6. RoomForChecked'
  <2>1. \A q \in Reg : rpc'[q] = "checked" => rpc[q] = "checked" /\ q # r
    BY DEF Register, HandlersTypeOK
  <2> QED
    BY <1>1, <1>2, <1>3, <2>1 DEF RoomForChecked
<1>7. WalkInTable'
  <2>1. \A k \in Index : slots[k] \in Reg => slots'[k] \in Reg
    BY DEF Register, HandlersTypeOK
  <2> QED
    BY <1>1, <1>3, <2>1 DEF WalkInTable, Index
<1>8. CalledLiesBehind'
  BY <1>1, <1>3, <1>4, <1>5 DEF CalledLiesBehind
<1>9. BehindIsCalled'
  <2>1. i \in 0 .. handler_count - 1 => slots'[i] = slots[i]
    BY <1>1
  <2>2. OwnCtx' = OwnCtx
    BY <1>3 DEF OwnCtx
  <2>3. walk' = "ctx" /\ ~disturbed' => i' < handler_count' /\ slots'[i'] = fn'
    <3>1. SUFFICES ASSUME walk = "ctx", ~disturbed
                   PROVE  i < handler_count + 1 /\ slots'[i] = fn
      BY <1>1, <1>3
    <3>2. i < handler_count /\ slots[i] = fn
      BY <3>1 DEF BehindIsCalled
    <3>3. i < handler_count + 1 /\ i \in 0 .. handler_count - 1
      BY <1>2, <3>2
    <3> QED
      BY <2>1, <3>2, <3>3
  <2>4. ASSUME ~disturbed', NEW k \in 0 .. handler_count' - 1, k < i', slots'[k] \in steady'
        PROVE  \E c \in Reg : <<slots'[k], c>> \in called'
    <3>1. k # handler_count
      BY <1>1, <1>3, <1>5, <2>4
    <3>2. k \in 0 .. handler_count - 1
      BY <1>4, <3>1
    <3>3. slots'[k] = slots[k]
      BY <1>1, <3>2
    <3>4. ~disturbed /\ k < i /\ slots[k] \in steady
      BY <1>3, <2>4, <3>3
    <3>5. \E c \in Reg : <<slots[k], c>> \in called
      BY <3>2, <3>4 DEF BehindIsCalled
    <3> QED
      BY <1>3, <3>3, <3>5
  <2>5. ~disturbed' => OwnCtx'
    <3> HIDE DEF HandlersInductive
    <3>1. ~disturbed' => ~disturbed
      BY <1>3
    <3>2. BehindIsCalled
      BY DEF HandlersInductive
    <3> QED
      BY <2>2, <3>1, <3>2 DEF BehindIsCalled
  <2> HIDE DEF HandlersInductive
  <2> QED
    BY <2>3, <2>4, <2>5 DEF BehindIsCalled
<1> QED
  BY <1>1, <1>6, <1>7, <1>8, <1>9

\* Removal moves a handler towards the slots the loop has passed, if at all.
LEMMA UnregisterStep ==
    ASSUME HandlersInductive, NEW r \in Reg, Unregister(r)
    PROVE  HandlersInductive'
<1> USE DEF HandlersInductive
<1>1. /\ Registered' = Registered \ {r}
      /\ HandlersTypeOK'
      /\ TableOneToOne'
      /\ \A k \in Index : slots[k] \in Reg => slots'[k] \in Reg
      /\ \A k \in 0 .. handler_count' - 1 :
            \E j \in 0 .. handler_count - 1 : j >= k /\ slots'[k] = slots[j]
  BY UnregisterTable
<1>2. handler_count \in Nat /\ i \in Nat /\ MAX_HANDLERS \in Nat
  BY HandlersRanges, HandlersAssumption
<1>3. /\ handler_count' = handler_count - 1
      /\ rpc' = [rpc EXCEPT ![r] = "out"]
      /\ steady' = steady \ {r}
      /\ disturbed' = (disturbed \/ walk # "idle")
      /\ UNCHANGED <<i, fn, walk, called, raced>>
  BY DEF Unregister
<1>4. RoomForChecked'
  <2>1. \A q \in Reg : rpc'[q] = "checked" => rpc[q] = "checked"
    BY <1>3 DEF HandlersTypeOK
  <2> QED
    BY <1>2, <1>3, <2>1 DEF RoomForChecked
<1>5. WalkInTable'
  BY <1>1, <1>3 DEF WalkInTable, Index
<1>6. CalledLiesBehind'
  <2>1. ASSUME NEW k \in 0 .. handler_count' - 1, NEW c \in Reg,
               slots'[k] \in steady', <<slots'[k], c>> \in called'
        PROVE  k < i'
    <3>1. PICK j \in 0 .. handler_count - 1 : j >= k /\ slots'[k] = slots[j]
      BY <1>1
    <3>2. j < i
      BY <1>3, <2>1, <3>1 DEF CalledLiesBehind
    <3> QED
      BY <1>2, <1>3, <3>1, <3>2
  <2>2. ASSUME walk' = "ctx", fn' \in steady', NEW k \in 0 .. handler_count' - 1,
               slots'[k] = fn'
        PROVE  k <= i'
    <3>1. PICK j \in 0 .. handler_count - 1 : j >= k /\ slots'[k] = slots[j]
      BY <1>1
    <3>2. j <= i
      BY <1>3, <2>2, <3>1 DEF CalledLiesBehind
    <3> QED
      BY <1>2, <1>3, <3>1, <3>2
  <2>3. ASSUME walk' = "ctx", fn' \in steady', NEW c \in Reg
        PROVE  <<fn', c>> \notin called'
    BY <1>3, <2>3 DEF CalledLiesBehind
  <2> QED
    BY <2>1, <2>2, <2>3 DEF CalledLiesBehind
<1>7. BehindIsCalled'
  \* Between deliveries nothing is steady; during one, disturbed is set.
  BY <1>3 DEF BehindIsCalled, WalkInTable, OwnCtx
<1> QED
  BY <1>1, <1>4, <1>5, <1>6, <1>7

\* A delivery begins with the handlers that are registered.
LEMMA BeginStep ==
    ASSUME HandlersInductive, Begin
    PROVE  HandlersInductive'
<1> USE DEF HandlersInductive, Begin
<1>1. HandlersTypeOK'
  <2>1. 0 \in 0 .. Cardinality(Reg) /\ {} \subseteq Reg \X Reg
    BY HandlersRanges
  <2> QED
    BY <2>1 DEF HandlersTypeOK
<1>2. Registered' = Registered /\ steady' = Registered
  BY DEF Registered
<1>3. TableOneToOne' /\ RoomForChecked'
  BY <1>2 DEF TableOneToOne, RoomForChecked
<1>4. WalkInTable' /\ CalledLiesBehind' /\ BehindIsCalled'
  BY <1>2 DEF WalkInTable, CalledLiesBehind, BehindIsCalled, OwnCtx
<1> QED
  BY <1>1, <1>3, <1>4

\* The handler of the slot the loop stands at is loaded; it is not behind.
LEMMA LoadHandlerStep ==
    ASSUME HandlersInductive, LoadHandler
    PROVE  HandlersInductive'
<1> USE DEF HandlersInductive, LoadHandler
<1>1. i \in 0 .. handler_count - 1 /\ i \in Index
  BY HandlersRanges DEF Index
<1>2. slots[i] \in Reg
  BY <1>1 DEF TableOneToOne, Registered
<1>3. HandlersTypeOK'
  BY <1>2 DEF HandlersTypeOK
<1>4. Registered' = Registered
  BY DEF Registered
<1>5. TableOneToOne' /\ RoomForChecked'
  BY <1>4 DEF TableOneToOne, RoomForChecked
<1>6. WalkInTable'
  BY <1>1, <1>2, <1>4 DEF WalkInTable, Index
<1>7. CalledLiesBehind'
  BY <1>1 DEF CalledLiesBehind, TableOneToOne
<1>8. BehindIsCalled'
  BY <1>1 DEF BehindIsCalled, OwnCtx
<1> QED
  BY <1>3, <1>5, <1>6, <1>7, <1>8

\* The ctx is loaded and the handler called; the loop goes past its slot.
LEMMA LoadCtxAndCallStep ==
    ASSUME HandlersInductive, LoadCtxAndCall
    PROVE  HandlersInductive'
<1> USE DEF HandlersInductive
<1>1. /\ walk = "ctx" /\ walk' = "loop"
      /\ called' = called \cup {<<fn, slots[i]>>}
      /\ fn' = EMPTY
      /\ i' = i + 1
      /\ UNCHANGED <<slots, handler_count, rpc, steady, disturbed, raced>>
  BY DEF LoadCtxAndCall
<1>2. fn \in Reg /\ i \in Index /\ slots[i] \in Reg
  BY <1>1 DEF WalkInTable
<1>3. i \in Nat /\ handler_count \in Nat
  BY HandlersRanges
<1>4. HandlersTypeOK'
  <2>1. i + 1 \in 0 .. Cardinality(Reg)
    BY <1>2, HandlersRanges DEF Index
  <2>2. called' \subseteq Reg \X Reg
    BY <1>1, <1>2 DEF HandlersTypeOK
  <2> QED
    BY <1>1, <2>1, <2>2 DEF HandlersTypeOK
<1>5. Registered' = Registered
  BY <1>1 DEF Registered
<1>6. TableOneToOne' /\ RoomForChecked'
  BY <1>1, <1>5 DEF TableOneToOne, RoomForChecked
<1>7. WalkInTable'
  BY <1>1, <1>5 DEF WalkInTable
<1>8. CalledLiesBehind'
  <2> SUFFICES ASSUME NEW k \in 0 .. handler_count - 1, NEW c \in Reg,
                      slots[k] \in steady, <<slots[k], c>> \in called'
               PROVE  k < i + 1
    BY <1>1 DEF CalledLiesBehind
  <2>1. CASE <<slots[k], c>> \in called
    BY <1>3, <2>1 DEF CalledLiesBehind
  <2>2. CASE <<slots[k], c>> = <<fn, slots[i]>>
    BY <1>1, <1>3, <2>2 DEF CalledLiesBehind
  <2> QED
    BY <1>1, <2>1, <2>2
<1>9. BehindIsCalled'
  <2> SUFFICES ASSUME ~disturbed PROVE BehindIsCalled'
    BY <1>1 DEF BehindIsCalled
  <2>1. slots[i] = fn
    BY <1>1 DEF BehindIsCalled
  <2>2. OwnCtx'
    BY <1>1, <2>1 DEF BehindIsCalled, OwnCtx
  <2>3. ASSUME NEW k \in 0 .. handler_count - 1, k < i + 1, slots[k] \in steady
        PROVE  \E c \in Reg : <<slots[k], c>> \in called'
    <3>1. CASE k < i
      BY <1>1, <2>3, <3>1 DEF BehindIsCalled
    <3>2. CASE k = i
      BY <1>1, <1>2, <2>1, <3>2
    <3> QED
      BY <1>3, <2>3, <3>1, <3>2, SMTT(30)
  <2> QED
    BY <1>1, <2>2, <2>3 DEF BehindIsCalled
<1> QED
  BY <1>4, <1>6, <1>7, <1>8, <1>9

\* The delivery is over and forgotten.
LEMMA EndLoopStep ==
    ASSUME HandlersInductive, EndLoop
    PROVE  HandlersInductive'
<1> USE DEF HandlersInductive, EndLoop
<1>1. HandlersTypeOK'
  <2>1. 0 \in 0 .. Cardinality(Reg) /\ {} \subseteq Reg \X Reg
    BY HandlersRanges
  <2> QED
    BY <2>1 DEF HandlersTypeOK
<1>2. Registered' = Registered
  BY DEF Registered
<1>3. TableOneToOne' /\ RoomForChecked'
  BY <1>2 DEF TableOneToOne, RoomForChecked
<1>4. WalkInTable' /\ CalledLiesBehind' /\ BehindIsCalled'
  BY DEF WalkInTable, CalledLiesBehind, BehindIsCalled, OwnCtx
<1> QED
  BY <1>1, <1>3, <1>4

-----------------------------------------------------------------------------

\* In every reachable state.
LEMMA HandlersAlways == HandlersSpec => []HandlersInductive
<1>1. HandlersInductive /\ [HandlersNext]_hvars => HandlersInductive'
  <2> SUFFICES ASSUME HandlersInductive, [HandlersNext]_hvars PROVE HandlersInductive'
    OBVIOUS
  <2>1. CASE UNCHANGED hvars
    <3>1. HandlersTypeOK'
      BY <2>1 DEF hvars, HandlersInductive, HandlersTypeOK
    <3>2. TableOneToOne' /\ RoomForChecked'
      BY <2>1 DEF hvars, HandlersInductive, TableOneToOne, RoomForChecked, Registered
    <3>3. WalkInTable' /\ CalledLiesBehind' /\ BehindIsCalled'
      BY <2>1 DEF hvars, HandlersInductive, WalkInTable, CalledLiesBehind, BehindIsCalled,
            OwnCtx, Registered
    <3> QED
      BY <3>1, <3>2, <3>3 DEF HandlersInductive
  <2>2. \A r \in Leaving : r \in Reg
    BY HandlersAssumption
  <2> QED
    BY <2>1, <2>2, RegisterCheckStep, RegisterStep, UnregisterStep, BeginStep,
       LoadHandlerStep, LoadCtxAndCallStep, EndLoopStep DEF HandlersNext
<1> QED
  BY <1>1, HandlersInitInductive, PTL DEF HandlersSpec

\* The slots in use hold every registered pair once and nothing else, at all
\* times, and there are no more than MAX_HANDLERS of them unless two calls
\* have passed the test together.
THEOREM HandlerTableExact == HandlersSpec => []HandlersInvariant
<1>1. HandlersInductive => HandlersInvariant
  <2> SUFFICES ASSUME HandlersInductive PROVE HandlersInvariant
    OBVIOUS
  <2>1. Registered = {r \in Reg : rpc[r] = "in"}
    BY DEF Registered
  <2>2. {slots[k] : k \in 0 .. handler_count - 1} = Registered
    BY DEF HandlersInductive, TableOneToOne
  <2> QED
    BY <2>1, <2>2 DEF HandlersInductive, HandlersInvariant, TableExact, TableOneToOne,
          WithinRow, RoomForChecked
<1> QED
  BY <1>1, HandlersAlways, PTL

\* A delivery during which nothing is removed calls every handler that was
\* registered before it, each with its own ctx.
THEOREM UndisturbedDeliveryComplete == HandlersSpec => []UndisturbedDelivery
<1>1. HandlersInductive => UndisturbedDelivery
  <2> SUFFICES ASSUME HandlersInductive PROVE UndisturbedDelivery
    OBVIOUS
  <2>1. OwnCtx
    BY DEF HandlersInductive, BehindIsCalled, OwnCtx
  <2>2. NoSteadySkipped
    <3> SUFFICES ASSUME i >= handler_count, ~disturbed, NEW r \in steady
                 PROVE  \E c \in Reg : <<r, c>> \in called
      BY DEF NoSteadySkipped
    <3>1. PICK k \in 0 .. handler_count - 1 : slots[k] = r
      BY DEF HandlersInductive, WalkInTable, TableOneToOne
    <3>2. k < i
      BY HandlersRanges DEF HandlersInductive
    <3> QED
      BY <3>1, <3>2 DEF HandlersInductive, BehindIsCalled
  <2> QED
    BY <2>1, <2>2 DEF UndisturbedDelivery
<1> QED
  BY <1>1, HandlersAlways, PTL

\* In one delivery no handler that stays registered is called twice, whatever
\* is added or removed under the loop.
THEOREM NoHandlerTwice == HandlersSpec => SteadyCalledOnce
<1> DEFINE Once == LoadCtxAndCall =>
                    (fn \in steady => ~ \E c \in Reg : <<fn, c>> \in called)
<1>1. HandlersInductive /\ [HandlersNext]_hvars => [Once]_hvars
  BY DEF HandlersInductive, CalledLiesBehind, LoadCtxAndCall
<1> QED
  BY <1>1, HandlersAlways, PTL DEF HandlersSpec, SteadyCalledOnce
=============================================================================
