CONSTANTS
    c1 = c1
    c2 = c2
    c3 = c3
    key = key
    Nobody = Nobody
    Scopes <- MCScopes
    ScopeOf <- MCScopeOf
    Fingerprint <- MCFingerprint
    Commands = {c1, c2, c3}
    Keyed = {c1, c2, c3}
    MaxCrashes = 1
SPECIFICATION FairSpec
INVARIANTS
    AtMostOnce
    FinalClaimHasReceipt
    AnswersAreTrue
PROPERTIES
    ImplementsOnce
    CommandsAnswered
