CONSTANTS
    reminder = reminder
    check = check
    x = x
    y = y
    p = p
    q = q
    b1 = b1
    b2 = b2
    done = done
    telegram = telegram
    Nothing = Nothing
    NoRow = NoRow
    Tasks = {reminder, check}
    Kind <- MCKind
    MaxRuns <- MCMaxRuns
    Ticks = {x, y}
    MaxNotices = 3
    Notices <- MCNotices
    Keyed = {done}
    Callers = {x, y, p, q}
    Bridges = {b1, b2}
    KeyOf <- MCKeyOf
    TargetOf <- MCKeyOf
    MaxTroubles = 1
SPECIFICATION MCSpec
INVARIANTS
    RepeatIsExcused
    NoNoticeMissed
    ToldNoMoreThanAsked
    CountMatchesRuns

    
CHECK_DEADLOCK FALSE
