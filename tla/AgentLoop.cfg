CONSTANTS
    t1 = t1
    c2 = c2
    Calls = {t1, c2}
    Turns = {t1}
    Offers <- MCOffers
    Asked = {"search", "queue", "lookup"}
    FailureThreshold = 2
    MaxBackoff = 2
    MaxIterations = 3
    MaxBatch = 2
SPECIFICATION AFairSpec
INVARIANTS
    ClosedIsFresh
    
    NotFromMemory
PROPERTIES
    TurnsEnd
