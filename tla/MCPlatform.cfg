CONSTANTS
    Invokers = {"i1", "i2"}
    LastSlot = 2
    LastGen = 2
    Profiles <- ScheduleProfiles
SPECIFICATION MCSpec
INVARIANTS
    TypesOK
    RequestsAreBounded
    PublishingIsSafe
    LocalServiceIsSafe
    DeliveriesAreTrue
    SessionsAreMadeWhole
    VaultsAreSound
    OccurrencesAreTrue
CHECK_DEADLOCK FALSE
