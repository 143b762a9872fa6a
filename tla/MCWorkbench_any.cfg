SPECIFICATION FairSpec
CONSTANTS
    Capacity = 2
    MaxPending = 4
    MaxFeeds = 1
INVARIANTS TypeOK PendingAccounting ExclusiveBusiness ClosingHasStop SafeClose LoadedHonest
PROPERTIES RepliesComing CloseAnswered ResetEnds
CHECK_DEADLOCK FALSE
