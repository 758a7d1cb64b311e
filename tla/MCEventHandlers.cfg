CONSTANTS
    Reg = {r1, r2, r3, r4}
    MAX_HANDLERS = 3
    Leaving = {r1, r2, r3, r4}
    EMPTY = EMPTY
SYMMETRY RegSymmetry
SPECIFICATION HandlersSpec
INVARIANTS HandlersInvariant UndisturbedDelivery
PROPERTIES SteadyCalledOnce
