SPECIFICATION Spec
CONSTANTS
    Capacity = 2
    MaxPending = 4
    MaxFeeds = 1
PROPERTY CloseStopCloses
CHECK_DEADLOCK FALSE
