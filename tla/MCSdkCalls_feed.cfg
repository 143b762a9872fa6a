SPECIFICATION FairSpec
CONSTANTS
    Limit = 2
    Window = 5
    MaxJobs = 2
    MaxPosted = 1
INVARIANTS TypeOK NoSilentLoss BuffersReturned
PROPERTIES JobsServed EventsReach
CHECK_DEADLOCK FALSE
