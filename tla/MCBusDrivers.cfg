CONSTANTS
    Caller = {t1, t2}
    Registration = {r1, r2, r3}
    Ids = {0, 1, 4}
    Enabled <- MCEnabled
    NULL = NULL
SPECIFICATION Spec
INVARIANTS BusInvariant
PROPERTIES CalledWithOwnContext
SYMMETRY BusSymmetry
