CONSTANTS
    t1 = t1
    c2 = c2
    Calls = {t1, c2}
    Turns = {t1}
    Offers <- MCOffers
    Asked = {"search", "queue", "lookup", "queue<|channel|>"}
    FailureThreshold = 2
    MaxBackoff = 2
    MaxIterations = 4
    MaxBatch = 1
SPECIFICATION ASpec
INVARIANT
    NeverContradictsReceipt
