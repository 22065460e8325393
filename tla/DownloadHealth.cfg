CONSTANTS
    a = a
    Nobody = Nobody
    Downloads = {1, 2}
    Callers = {a}
    Requests = {"resume", "pause", "max", "priority", "test"}
    Events = {"slow", "finish", "storage"}
    AutoItems = {}
    InitRows <- MCRows
    Limits = {1, 2}
    MaxRequests = 2
    MaxCrashes = 1
SPECIFICATION MCSpec
INVARIANTS
    
    OneStartPerDownload
    DownloadingIsMonitored
CHECK_DEADLOCK FALSE
PROPERTIES
    RequestsReturn
    SupervisedIsTested
