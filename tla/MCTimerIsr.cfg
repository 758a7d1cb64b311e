CONSTANTS
    CountModulus = 5
    Period = 2
    NewPeriods = {1}
    MaxTime = 11
    Task = {idle, t1}
    Idle = idle
    NULL = NULL
SPECIFICATION Spec
INVARIANTS TickWhenDue CyclesAccounted ContextKept
\* The processor stops for good in "lost".
CHECK_DEADLOCK FALSE
