CONSTANTS
    a = a
    b = b
    Nobody = Nobody
    Downloads = {1, 2, 3, 4}
    Callers = {a, b}
    Requests = {"add", "pause", "cancel", "restart", "resume", "max", "priority", "test"}
    Events = {"engine", "storage", "stall", "monitor", "finish"}
    AutoItems = {1}
    InitRows <- Stories
    Limits = {1, 2}
    MaxRequests = 3
    MaxCrashes = 1
SPECIFICATION MCSpec
ACTION_CONSTRAINT OneStory
INVARIANTS
    OneStartPerDownload
    
    DownloadingIsMonitored
SYMMETRY MCSymmetry
CHECK_DEADLOCK FALSE
