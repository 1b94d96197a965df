SPECIFICATION FairSpec
CONSTANTS
    a = a b = b c = c d = d
    Admins = {a}
    Clerks = {}
    Returns = {1}
    Existing = {1}
    Creators = {}
    Nobody = Nobody Ghost = Ghost Saga = Saga
    Intake = FALSE
    SlowCalls = FALSE
    MaxFaults = 1
CHECK_DEADLOCK FALSE
PROPERTIES
    DeletionRecovers
