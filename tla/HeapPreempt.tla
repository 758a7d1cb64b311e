----------------------------- MODULE HeapPreempt ---------------------------
(***************************************************************************)
(* kernel/memory/mem_alloc.c opened up: several callers are inside         *)
(* mem_alloc and mem_free at once, and a tick may land between any two     *)
(* accesses to the bitmap and the headers, since neither function disables *)
(* interrupts.  Every bit_set and bit_clear is a load and a store of the   *)
(* whole word.  "torn" records what the interleaving has done, and the     *)
(* properties say which of it they depend on.                              *)
(***************************************************************************)
EXTENDS Heap

CONSTANT Caller   \* the tasks that may be inside the heap's functions at once

\* The next access of a caller.
\*   word                 the test for a full word    (find_free_units)
\*   bit                  bit_get
\*   set, set_store       the two halves of bit_set, or the header and return
\*   clear, clear_store   the two halves of bit_clear, or the end of mem_free
Searching == {"word", "bit"}
Setting == {"set", "set_store"}
Clearing == {"clear", "clear_store"}

\*   crossed   find_free_units stepped over a full word inside a row
\*   choice    when it returned, a unit of the row was no longer free, or its
\*             block was not yet released
\*   word      a bit operation stored a word that had changed since its load
\*   reused    mem_alloc wrote a header where a mem_free was not done
\*   between   find_free_units ran while other calls' bits were being written
Damage == {"crossed", "choice", "word", "reused"}

VARIABLES
    header,   \* units of the header at a unit; 0: no magic there
    call,     \* the locals of each caller
    torn,     \* history, see above
    corrupt   \* history: a block was chosen that has an owner, or data was
              \* written over a header that is still read

hvars == <<heapvars, header, call, torn, corrupt>>

Call == [pc : {"idle"} \cup Searching \cup Setting \cup Clearing,
         n : Sizes \cup {0}, i : 0 .. NUM_UNITS,
         count : Nat, start : Units, old : SUBSET Units, changed : BOOLEAN]

Quiet == [pc |-> "idle", n |-> 0, i |-> 0, count |-> 0, start |-> 0,
          old |-> {}, changed |-> FALSE]

PreemptInit ==
    /\ HeapInit
    /\ header = [u \in Units |-> 0]
    /\ call = [c \in Caller |-> Quiet]
    /\ torn = {} /\ corrupt = FALSE

WordOf(u) == (u \div WORD) * WORD .. (u \div WORD + 1) * WORD - 1

\* The block a call is working on.
BlockOf(c) == [start |-> call[c].start, units |-> call[c].n]

In(labels) == {c \in Caller : call[c].pc \in labels}

\* Units chosen and not yet marked, and units unmarked by an unfinished call.
ToMark(c) == call[c].i .. call[c].start + call[c].n - 1
Unmarked(c) == call[c].start .. call[c].i - 1

\* The heap as the calls in progress will leave it or have found it: a block
\* counts from the end of the search that found it to the end of mem_free.
SettledBitmap ==
    bitmap \cup (UNION {ToMark(c) : c \in In(Setting)})
           \cup (UNION {Unmarked(c) : c \in In(Clearing)})
SettledBlocks == blocks \cup {BlockOf(c) : c \in In(Setting \cup Clearing)}

Whole == INSTANCE Heap WITH bitmap <- SettledBitmap, blocks <- SettledBlocks

\* A caller's step; the model stops where two owners share memory.
At(c, label) == call[c].pc = label /\ ~corrupt

\* Bound: after the first harm the calls in progress end and none begins.
MayBegin == ~corrupt /\ torn \cap Damage = {}

-----------------------------------------------------------------------------
(* mem_alloc: the search. *)

Alloc(c, n) ==
    /\ MayBegin /\ call[c].pc = "idle"
    /\ call' = [call EXCEPT ![c] = [Quiet EXCEPT !.pc = "word", !.n = n]]
    /\ UNCHANGED <<heapvars, header, torn, corrupt>>

\* Mutant: a full word is not stepped over.
SkipWordForever(c) ==
    /\ At(c, "word") /\ call[c].i < NUM_UNITS
    /\ FullWord(call[c].i \div WORD)
    /\ UNCHANGED hvars

\* The count is kept.
SkipWord(c) ==
    /\ At(c, "word") /\ call[c].i < NUM_UNITS
    /\ FullWord(call[c].i \div WORD)
    /\ call' = [call EXCEPT ![c].i = @ + WORD]
    /\ UNCHANGED <<heapvars, header, torn, corrupt>>

EnterWord(c) ==
    /\ At(c, "word") /\ call[c].i < NUM_UNITS
    /\ ~FullWord(call[c].i \div WORD)
    /\ call' = [call EXCEPT ![c].pc = "bit"]
    /\ UNCHANGED <<heapvars, header, torn, corrupt>>

\* The loops end: mem_alloc returns NULL.
GiveUp(c) ==
    /\ At(c, "word") /\ call[c].i = NUM_UNITS
    /\ call' = [call EXCEPT ![c] = Quiet]
    /\ UNCHANGED <<heapvars, header, torn, corrupt>>

\* The index of the next turn of the loops.
NextBit(k) ==
    [k EXCEPT !.i = @ + 1, !.pc = IF (k.i + 1) % WORD = 0 THEN "word" ELSE "bit"]

\* Mutant of UsedBit: a used unit does not end the row.
UsedBitKeepsCount(c) ==
    /\ At(c, "bit") /\ call[c].i \in bitmap
    /\ call' = [call EXCEPT ![c] = NextBit(call[c])]
    /\ UNCHANGED <<heapvars, header, torn, corrupt>>

UsedBit(c) ==
    /\ At(c, "bit") /\ call[c].i \in bitmap
    /\ call' = [call EXCEPT ![c] = NextBit([call[c] EXCEPT !.count = 0])]
    /\ UNCHANGED <<heapvars, header, torn, corrupt>>

\* Mutant of Counted: start moves with every free unit.
CountedFromHere(c) == [call[c] EXCEPT !.count = @ + 1, !.start = call[c].i]

\* The locals after a free unit.
Counted(c) ==
    [call[c] EXCEPT !.count = @ + 1,
                    !.start = IF call[c].count = 0 THEN call[c].i ELSE @]

FreeBit(c) ==
    /\ At(c, "bit") /\ call[c].i \notin bitmap
    /\ Counted(c).count < call[c].n
    /\ call' = [call EXCEPT ![c] = NextBit(Counted(c))]
    /\ UNCHANGED <<heapvars, header, torn, corrupt>>

\* What becomes of a search that returns the block b and has looked as far as
\* the unit last: it reaches over a full word, is stale or hits a block that is
\* being released, or other calls' bits were being written meanwhile.
Incidents(b, last, changed) ==
    LET crossed == last >= b.start + b.units
        counted == {u \in b.start .. last : crossed => ~FullWord(u \div WORD)}
        released == UNION {Extent(BlockOf(d)) : d \in In(Clearing)}
    IN  {x \in {"crossed", "choice", "between"} :
            CASE x = "crossed" -> crossed
              [] x = "choice"  -> counted \cap SettledBitmap # {} \/ Extent(b) \cap released # {}
              [] OTHER         -> changed \/ SettledBitmap # bitmap}

\* A block was chosen that is, or is about to be, somebody else's.
Taken(b) ==
    \E a \in blocks \cup {BlockOf(d) : d \in In(Setting)} :
        Extent(a) \cap Extent(b) # {}

\* The headers in a new block that a mem_free in progress still reads.
StillRead(b) == {call[d].start : d \in In(Clearing)} \cap Extent(b)

FirstMark(k) == k.start

Found(c) ==
    /\ At(c, "bit") /\ call[c].i \notin bitmap
    /\ Counted(c).count = call[c].n
    /\ call' = [call EXCEPT ![c] =
                  [Quiet EXCEPT !.pc = "set", !.n = call[c].n,
                                !.start = Counted(c).start, !.i = FirstMark(Counted(c))]]
    /\ LET b == [start |-> Counted(c).start, units |-> call[c].n] IN
       /\ latest' = {b}
       /\ corrupt' = Taken(b)
       /\ torn' = torn \cup Incidents(b, call[c].i, call[c].changed)
    /\ UNCHANGED <<bitmap, blocks, header>>

-----------------------------------------------------------------------------
(* The bit operations. *)

\* The load of a word.
LoadWord(c, store) ==
    call' = [call EXCEPT ![c].old = bitmap \cap WordOf(call[c].i), ![c].pc = store]

\* The store of a word.  A search that is under way may have looked at it.
StoreWord(c, word, next) ==
    LET u == call[c].i IN
    /\ bitmap' = (bitmap \ WordOf(u)) \cup word
    /\ torn' = IF bitmap \cap WordOf(u) # call[c].old THEN torn \cup {"word"} ELSE torn
    /\ call' = [d \in Caller |->
                 IF d = c THEN [call[c] EXCEPT !.i = @ + 1, !.old = {}, !.pc = next]
                 ELSE [call[d] EXCEPT !.changed = @ \/ d \in In(Searching)]]
    /\ UNCHANGED <<blocks, latest, header, corrupt>>

SetLoad(c) ==
    /\ At(c, "set") /\ call[c].i < call[c].start + call[c].n
    /\ LoadWord(c, "set_store")
    /\ UNCHANGED <<heapvars, header, torn, corrupt>>

SetStore(c) ==
    /\ At(c, "set_store")
    /\ StoreWord(c, call[c].old \cup {call[c].i}, "set")

\* The bits are set: the header, and return; the owner writes its data.
Return(c) ==
    /\ At(c, "set") /\ call[c].i = call[c].start + call[c].n
    /\ header' = [header EXCEPT ![call[c].start] = call[c].n]
    /\ blocks' = blocks \cup {BlockOf(c)}
    /\ call' = [call EXCEPT ![c] = Quiet]
    /\ torn' = IF StillRead(BlockOf(c)) = {} THEN torn ELSE torn \cup {"reused"}
    /\ corrupt' = (StillRead(BlockOf(c)) \ {call[c].start} # {})
    /\ UNCHANGED <<bitmap, latest>>

-----------------------------------------------------------------------------
(* mem_free. *)

\* The owner gives up its block; without the magic nothing happens.
Free(c, b) ==
    /\ MayBegin /\ call[c].pc = "idle"
    /\ blocks' = blocks \ {b}
    /\ IF header[b.start] = 0
       THEN /\ latest' = latest \ {b}
            /\ UNCHANGED call
       ELSE /\ call' = [call EXCEPT ![c] = [Quiet EXCEPT
                          !.pc = "clear", !.n = b.units, !.i = b.start, !.start = b.start]]
            /\ UNCHANGED latest
    /\ UNCHANGED <<bitmap, header, torn, corrupt>>

\* h->units is read again on every turn, after the first bit is clear.
ClearLoad(c) ==
    /\ At(c, "clear") /\ call[c].i - call[c].start < header[call[c].start]
    /\ LoadWord(c, "clear_store")
    /\ UNCHANGED <<heapvars, header, torn, corrupt>>

ClearStore(c) ==
    /\ At(c, "clear_store")
    /\ StoreWord(c, call[c].old \ {call[c].i}, "clear")

\* The bits are clear: the magic goes.
FreeEnd(c) ==
    /\ At(c, "clear") /\ call[c].i - call[c].start >= header[call[c].start]
    /\ header' = [header EXCEPT ![call[c].start] = 0]
    /\ call' = [call EXCEPT ![c] = Quiet]
    /\ latest' = latest \ {BlockOf(c)}
    /\ UNCHANGED <<bitmap, blocks, torn, corrupt>>

-----------------------------------------------------------------------------
(* Calls with interrupts disabled, as task_destroy_by_id's, and calls that no *)
(* tick hits: the operations of module Heap. *)

\* Searches under way have looked at bits that have changed since.
SearchesGoStale ==
    call' = [d \in Caller |-> [call[d] EXCEPT !.changed = @ \/ d \in In(Searching)]]

MaskedAlloc(n) ==
    /\ MayBegin
    /\ MemAlloc(n)
    /\ \E b \in latest' :
         /\ header' = [header EXCEPT ![b.start] = n]
         /\ torn' = torn \cup Incidents(b, Max(Run(b.start, n)), FALSE)
                         \cup {x \in {"reused"} : StillRead(b) # {}}
         /\ corrupt' = (Taken(b) \/ StillRead(b) \ {b.start} # {})
    /\ SearchesGoStale

MaskedFree(b) ==
    /\ MayBegin
    /\ MemFree(b)
    /\ header' = [header EXCEPT ![b.start] = 0]
    /\ SearchesGoStale
    /\ UNCHANGED <<torn, corrupt>>

-----------------------------------------------------------------------------

\* The steps of a call that has begun.
Step(c) ==
    \/ SkipWord(c) \/ EnterWord(c) \/ GiveUp(c) \/ UsedBit(c) \/ FreeBit(c)
    \/ Found(c) \/ SetLoad(c) \/ SetStore(c) \/ Return(c)
    \/ ClearLoad(c) \/ ClearStore(c) \/ FreeEnd(c)

PreemptNext ==
    \/ \E c \in Caller :
         \/ \E n \in Sizes : Alloc(c, n)
         \/ \E b \in blocks : Free(c, b)
         \/ Step(c)
    \/ \E n \in Sizes : MaskedAlloc(n)
    \/ \E b \in blocks : MaskedFree(b)

PreemptSpec == PreemptInit /\ [][PreemptNext]_hvars

-----------------------------------------------------------------------------

PreemptTypeOK ==
    /\ bitmap \subseteq Units /\ blocks \subseteq Block
    /\ Whole!HeapTypeOK
    /\ header \in [Units -> Sizes \cup {0}]
    /\ call \in [Caller -> Call]
    /\ torn \subseteq Damage \cup {"between"}

\* A held block has the header that mem_free will look for, unless mem_alloc
\* has written it where another mem_free was about to erase the magic.
HeadersKept ==
    ~corrupt /\ "reused" \notin torn => \A b \in blocks : header[b.start] = b.units

\* The bits are the blocks and the half-done calls: nothing in use is offered
\* again and nothing free is lost.  Stepping over a full word does no harm to
\* them as long as no block is hit.
BitsKept ==
    ~corrupt /\ torn \cap {"choice", "word", "reused"} = {} => Whole!ExactAccounting

\* Two owners never share memory unless the search stepped over a full word,
\* its result was stale, a store undid another one, or a header was reused.
CorruptOnlyIfTorn == corrupt => torn \cap Damage # {}

\* What holds of headers, bits and blocks wherever ticks land, each up to the
\* overlappings that break it.
HeapInvariant == PreemptTypeOK /\ HeadersKept /\ BitsKept /\ CorruptOnlyIfTorn

\* find_free_units returns the first start there is, and gives up only when
\* no row fits, if no bit was written while it ran.
SearchFindsFirst ==
    [][\A c \in In(Searching) :
         ~call[c].changed =>
           /\ call'[c].pc = "set" =>
                Starts(call[c].n) # {} /\ call'[c].start = Min(Starts(call[c].n))
           /\ call'[c].pc = "idle" => ~Fits(call[c].n)]_hvars

\* As long as no search has run while other calls' bits were being written
\* and nothing else was torn, mem_alloc and mem_free are the atomic
\* operations of module Heap, full words included.
AtomicHeapCalls ==
    /\ Whole!HeapInit
    /\ [][torn' \subseteq {"crossed"} => [Whole!HeapNext]_(Whole!heapvars)]_hvars

\* A call returns if its task gets the processor again and again, however often
\* others change the bitmap under its search and whether or not they finish.
\* The premise is each caller's own: a task that is killed inside a call, or has
\* unlinked itself before it (task_destroy_current), may never go on.
EveryCallReturns ==
    \A c \in Caller :
        WF_hvars(Step(c)) =>
            (call[c].pc # "idle" ~> call[c].pc = "idle" \/ corrupt)
=============================================================================
