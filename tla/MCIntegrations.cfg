CONSTANTS
    Procs = {p1, p2}
    Connections = {c1, c2}
    OneConnection = {c1}
    Names = {n}
    Accounts = {x}
    Free = Free
    MaxCredentials = 2
    MaxFaults = 1
    Occurrences = {o1, o2}
    OneOccurrence = {o1}
    Pushes = {o2}
SPECIFICATION MCSpec
INVARIANTS
    TypesOK
    ConnectionsAreWhole
    EventsAreAnswered
PROPERTIES
    CandidateYields
    IntegrationsSettle
CHECK_DEADLOCK FALSE
