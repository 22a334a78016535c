CONSTANTS
    Messages = {m1}
    Cancels = {c1}
    Jobs = {j1}
    Deletable = FALSE
    Hosted = TRUE
    HostManaged = TRUE
    MaxFaults = 0
SPECIFICATION FairSpec
PROPERTIES CancelledTurnsEnd
