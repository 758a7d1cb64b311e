CONSTANTS
    Caller = {t1, t2}
    Dev = {ram1, ram2, uart, screen}
    Storage = {ram1, ram2}
    Console = {uart, screen}
    Allocated = {ram1, screen}
    MaxDevices = 3
    MaxStorage = 1
    Rounds = 2
    NULL = NULL
SPECIFICATION Spec
INVARIANTS RegistryInvariant AddedThenRemoved ActiveConsoleValid
PROPERTIES FirstConsoleStays
SYMMETRY CallerSymmetry
CONSTRAINT FewIncidents
CHECK_DEADLOCK FALSE
