-------------------------------- MODULE Heap -------------------------------
(***************************************************************************)
(* The kernel heap of kernel/memory/mem_alloc.c, one call at a time (module*)
(* HeapPreempt opens the calls up): a bitmap of allocation units in words, *)
(* a first-fit search that skips words without a free bit, and blocks that *)
(* carry their length in a header.  Sizes are counted in units (mem_alloc  *)
(* rounds bytes and header up before it looks at the bitmap).              *)
(***************************************************************************)
EXTENDS Naturals, FiniteSets, FiniteSetsExt

CONSTANTS
    WORD,           \* bits of a bitmap word (32)
    BITMAP_WORDS,   \* words of the bitmap
    Sizes           \* the requests, in units

ASSUME HeapAssumption ==
    /\ WORD \in Nat \ {0} /\ BITMAP_WORDS \in Nat \ {0}
    /\ Sizes \subseteq Nat \ {0}

\* The heap size is a multiple of 32 units, so every bit of every word counts.
NUM_UNITS == WORD * BITMAP_WORDS
Units == 0 .. NUM_UNITS - 1

VARIABLES
    bitmap,   \* the units whose bit is set
    blocks,   \* the blocks their owners hold: first unit and header->units
    latest    \* the block mem_alloc returned last, {} at first

heapvars == <<bitmap, blocks, latest>>

Block == [start : Units, units : Sizes]

HeapTypeOK ==
    /\ bitmap \subseteq Units
    /\ blocks \subseteq Block
    /\ latest \subseteq blocks /\ \A a, b \in latest : a = b

\* mem_init.
HeapInit == bitmap = {} /\ blocks = {} /\ latest = {}

Extent(b) == b.start .. b.start + b.units - 1

-----------------------------------------------------------------------------
(* find_free_units. *)

FullWord(w) == w * WORD .. (w + 1) * WORD - 1 \subseteq bitmap

\* The indices that the inner loop looks at: those of full words are skipped.
Visited == {i \in Units : ~FullWord(i \div WORD)}

\* The n visited indices from s on.  They may lie on both sides of a full
\* word: skipping it leaves the count of free units as it is.
Run(s, n) ==
    LET ahead == {i \in Visited : s <= i}
    IN  {i \in ahead : Cardinality({j \in ahead : j < i}) < n}

\* Where find_free_units can stop; it returns the first such start, or -1.
Starts(n) ==
    {s \in Visited :
        LET run == Run(s, n) IN Cardinality(run) = n /\ run \cap bitmap = {}}

-----------------------------------------------------------------------------

Overlaps(a, b) == a # b /\ Extent(a) \cap Extent(b) # {}

\* No two blocks share a unit.  The model stops where this is false: one
\* owner's data is then the other's header.
Disjoint == \A a, b \in blocks : ~Overlaps(a, b)

\* mem_alloc(n) when the search succeeds; otherwise it returns NULL and
\* changes nothing.
MemAlloc(n) ==
    /\ Disjoint
    /\ Starts(n) # {}
    /\ LET b == [start |-> Min(Starts(n)), units |-> n] IN
       /\ bitmap' = bitmap \cup Extent(b)
       /\ blocks' = blocks \cup {b}
       /\ latest' = {b}

\* Mutant of mem_free: the unit of the header stays marked.
MemFreeKeepsHeader(b) ==
    /\ Disjoint
    /\ bitmap' = bitmap \ (Extent(b) \ {b.start})
    /\ blocks' = blocks \ {b}
    /\ latest' = latest \ {b}

\* mem_free of a block its owner holds: the magic is there.
MemFree(b) ==
    /\ Disjoint
    /\ bitmap' = bitmap \ Extent(b)
    /\ blocks' = blocks \ {b}
    /\ latest' = latest \ {b}

HeapNext ==
    \/ \E n \in Sizes : MemAlloc(n)
    \/ \E b \in blocks : MemFree(b)

HeapSpec == HeapInit /\ [][HeapNext]_heapvars

-----------------------------------------------------------------------------

\* The bitmap marks exactly the units of the blocks in use: nothing leaks
\* and nothing in use is offered again.
ExactAccounting == bitmap = UNION {Extent(b) : b \in blocks}

\* A run of n free units in a row.
Fits(n) == \E s \in Units : s + n <= NUM_UNITS /\ s .. s + n - 1 \cap bitmap = {}
=============================================================================
