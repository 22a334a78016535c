CONSTANTS
    Vms = {v1, v2}
    Pending = Pending
    None = None
    Deliveries = {d1, d2}
    Reconcilers = {}
    MaxClock = 3
    MaxFaults = 2
    QuarantineAfter = 1
    StoreErrors = {"dispatcher", "worker"}
SPECIFICATION Spec
SYMMETRY DispatchSymmetry
INVARIANTS
    TypeOK
    OnlyAttachedWorkerExecutes
PROPERTIES
    RefinesContract
CHECK_DEADLOCK FALSE
