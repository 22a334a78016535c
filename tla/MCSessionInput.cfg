CONSTANTS
    FirstKey = m1
    SecondKey = m2
    CancelKey = c1
    Job1 = j1
    Job2 = j2
    Messages <- BothKeys
    Cancels = {c1}
    Jobs <- BothJobs
    Deletable = TRUE
    Hosted = FALSE
    HostManaged = FALSE
    MaxFaults = 2
SPECIFICATION MCSpec
INVARIANTS
    TypeOK
    SessionIsOne
PROPERTIES
    TurnsHappenOnce
