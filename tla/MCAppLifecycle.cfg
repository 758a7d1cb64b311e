CONSTANTS
    App = {a1, a2, a3}
    BOOT = BOOT
    NULL = NULL
    Happens = {"kill", "task_fail", "tick_before_priv", "lost_exit"}
SPECIFICATION AppSpec
INVARIANTS AppInvariant LeaksOnlyAfterIncident
PROPERTIES EndedAppsAreFreed
\* Leaked structures can use up the heap.
CHECK_DEADLOCK FALSE
