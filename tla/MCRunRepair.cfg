CONSTANTS
    Vms = {v1}
    Pending = Pending
    None = None
    Deliveries = {d1}
    Reconcilers = {r1}
    MaxClock = 3
    MaxFaults = 1
    QuarantineAfter = 1
    StoreErrors = {"worker"}
SPECIFICATION FairSpec
PROPERTIES
    RepairIsTrue
    HeartbeatDefeatsFailure
    RunsSettle
CHECK_DEADLOCK FALSE
