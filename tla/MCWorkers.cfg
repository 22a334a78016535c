CONSTANTS
    LastRun = 3
    Forks = {"f1"}
    MaxFaults = 1
SPECIFICATION MCSpec
INVARIANTS
    TypesOK
    WorkspaceIsKept
    CommandsAreKept
    NativeTurnsAreKept
    LocalWorkStops
    PiIsKept
    MachineIsSafe
    OperatorsAreTold
CHECK_DEADLOCK FALSE
