SPECIFICATION MCSpec
CONSTANTS
    t1 = t1
    t2 = t2
    f1 = f1
    f2 = f2
    g = g
    s1 = s1
    s2 = s2
    s3 = s3
    Main = Main
    Torrents = {t1, t2}
    Payloads = {f1, f2, g, s1, s2, s3}
    FilesOf <- MCFilesOf
    Linkable = {f1, f2, s1, s3}
    Rows <- MCRows
    Budget = 2
    MaxSlots = 5
    MaxTroubles = 2
INVARIANTS
    RecordedIsWhole
    
PROPERTIES
    PayloadKept
    
    ImportedUnlessCrowded
CHECK_DEADLOCK FALSE
