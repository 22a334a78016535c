CONSTANTS
    Jobs = {j1, j2}
    Last = 2
    MaxFaults = 2
    Releases = {a, b}
    None = None
    FirstKey = m1
    SecondKey = m2
    Worker = w1
SPECIFICATION MCSpec
INVARIANTS
    TypesOK
    FenceIsTrue
    SelectionsAreSound
PROPERTIES
    ServicesSettle
    SessionsSettle
CHECK_DEADLOCK FALSE
