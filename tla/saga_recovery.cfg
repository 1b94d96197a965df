SPECIFICATION FairSpec
CONSTANTS
    a = a b = b c = c d = d
    Admins = {a, b}
    Clerks = {}
    Returns = {1, 2}
    Existing = {1}
    Creators = {d}
    Nobody = Nobody Ghost = Ghost Saga = Saga
    Intake = FALSE
    SlowCalls = FALSE
    MaxFaults = 2
CHECK_DEADLOCK FALSE
INVARIANTS
    PassedIsCancelled
    ExistingGone
PROPERTIES
    ChainRecovers
