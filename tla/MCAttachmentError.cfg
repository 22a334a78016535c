CONSTANTS
    Vms = {v1}
    Pending = Pending
    None = None
    Deliveries = {d1, d2}
    Reconcilers = {}
    MaxClock = 2
    MaxFaults = 1
    QuarantineAfter = 1
    StoreErrors = {"dispatcher"}
SPECIFICATION Spec
PROPERTY AttachedHostNotStopped
CHECK_DEADLOCK FALSE
