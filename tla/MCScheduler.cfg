CONSTANTS
    Task = {t1, t2, t3, t4}
    NULL = NULL
    IdModulus = 3
    CreateIds = {0, 1, 2}
    StopIds = {0, 1, 2}
SPECIFICATION FairSpec
INVARIANTS TypeOK RingIntact HeadIsCurrent LostOnlyWhenAlone
PROPERTIES RoundRobinImplemented EveryTaskRuns
\* The processor stops for good in "lost".
CHECK_DEADLOCK FALSE
