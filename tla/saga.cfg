SPECIFICATION Spec
CONSTANTS
    a = a b = b c = c d = d
    Admins = {a, b}
    Clerks = {c}
    Returns = {1}
    Existing = {1}
    Creators = {}
    Nobody = Nobody Ghost = Ghost Saga = Saga
    Intake = TRUE
    SlowCalls = TRUE
    MaxFaults = 1
SYMMETRY AdminSymmetry
INVARIANTS
    SagaTypeOK
    StockUndoneOnce
    PassedIsCancelled
    PassedOutOfStock
    CompletedProved
