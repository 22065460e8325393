CONSTANTS
    t1 = t1
    t2 = t2
    t3 = t3
    t4 = t4
    t5 = t5
    old = old
    fresh = fresh
    other = other
    web = web
    x = x
    y = y
    Nobody = Nobody
    Sessions = {old, fresh, other, web}
    Turns = {t1, t2, t3, t4, t5}
    SessionOf <- MCSessionOf
    Delegated = {old, fresh, other}
    Stoppers = {x, y}
    Interruptible = {web}
    Existing = {old}
    MaxActive = 2
    MaxHandles = 1
SPECIFICATION DSpec
INVARIANTS
    
    RunningTurnsAreAdmitted
    HandlesWithinQuota
    
CONSTRAINT OneOrTheOther
SYMMETRY MCSymmetry
CHECK_DEADLOCK FALSE
