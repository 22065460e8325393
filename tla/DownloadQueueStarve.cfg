CONSTANTS
    a = a
    b = b
    Nobody = Nobody
    Downloads = {1}
    Callers = {a}
    Requests = {"restart"}
    Events = {"monitor"}
    AutoItems = {1}
    InitRows <- Mixed
    Limits = {1}
    MaxRequests = 1
    MaxCrashes = 0
SPECIFICATION FairSpec
PROPERTY
    QueuedIsStarted
CHECK_DEADLOCK FALSE
