CONSTANTS
    i = i
    u = 1
    m1 = m1
    m2 = m2
    s1 = s1
    s2 = s2
    Shows = {i}
    Units = {1}
    ShowOf <- MCShowOf
    Magnets = {m1, m2}
    Seekers = {"job", "event", "check"}
    Syncs = {s1, s2}
    MaxEdits = 2
    MaxEvents = 1
    MaxTroubles = 1
SPECIFICATION MCSpec

    
    
PROPERTIES
    KeptTrying
    ClosedWhenPresent
    ClosedWhenUnwanted
CHECK_DEADLOCK FALSE
