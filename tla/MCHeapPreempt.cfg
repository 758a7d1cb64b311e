CONSTANTS
    WORD = 2
    BITMAP_WORDS = 3
    Sizes = {1, 2}
    Caller = {c1}
    c1 = c1
SPECIFICATION PreemptSpec
INVARIANTS HeapInvariant
PROPERTIES SearchFindsFirst AtomicHeapCalls EveryCallReturns
\* The model stops where two owners share memory.
CHECK_DEADLOCK FALSE
