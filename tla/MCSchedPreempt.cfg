CONSTANTS
    Task = {t1, t2, t3, t4}
    NULL = NULL
    IdModulus = 6
    CreateIds = {1, 2, 3, 4, 5}
    StopIds = {1, 2, 3, 4, 5}
    MaxTorn = 1
    Calls = {"create", "kill", "exit"}
SPECIFICATION PSpec
SYMMETRY TaskSymmetry
INVARIANTS PreemptInvariant RingWholeUnlessTorn IdsClashOnlyIfTorn ExitsFinishUnlessTorn
PROPERTIES AtomicCalls
\* The processor stops for good in "lost".
CHECK_DEADLOCK FALSE
