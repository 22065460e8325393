CONSTANTS
    m = m
    w = w
    s = s
    Names = {m, w}
    Criticality <- MCCriticality
    Shots = {s}
    MAX_RESTARTS = 1
    MaxSpawns = 3
SPECIFICATION FairSpec
INVARIANTS
    NoSilentDeath
    OrphansAreRestarts
PROPERTIES
    ShutdownReturns
    NothingStartsInShutdown
CHECK_DEADLOCK FALSE
