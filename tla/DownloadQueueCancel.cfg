CONSTANTS
    a = a
    b = b
    Nobody = Nobody
    Downloads = {1, 2}
    Callers = {a, b}
    Requests = {"add", "cancel"}
    Events = {}
    AutoItems = {1}
    InitRows <- Mixed
    Limits = {2}
    MaxRequests = 2
    MaxCrashes = 0
SPECIFICATION Spec
PROPERTY
    CancelledIsFinal
CHECK_DEADLOCK FALSE
