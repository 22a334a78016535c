CONSTANTS
    Commands = {1, 2}
    Supervisors = {s1, s2}
    PageLimit = 1
    Patience = 1
    MaxTime = 1
SPECIFICATION FairSpec
INVARIANTS
    TypeOK
    ResponsesAreTrue
PROPERTIES
    RefinesContract
    NoStartAfterGivingUp
    CommandsLeaveTheQueue
CHECK_DEADLOCK FALSE
