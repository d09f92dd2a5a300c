SPECIFICATION MCSpec
CONSTANTS
    p1 = p1
    p2 = p2
    t1 = t1
    NoProcess = NoProcess
    Processes <- MCProcesses
    Toasts <- MCToasts
    MaxFaults = 2
    MaxCrowd = 2
    Icons = {i1, i2, i3}
    NoIcon = NoIcon
    MaxTroubles = 1
    MaxCommands = 1
INVARIANTS
    OneDatabase
    IconsOwned
    AcceptedKept
PROPERTIES
    GuardCallsReturn
    NeverStranded
\* Every process may end.
CHECK_DEADLOCK FALSE
