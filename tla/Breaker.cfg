SPECIFICATION FairSpec
CONSTANTS
    Message = {m1, m2, m3}
    Calls = 2
    MaxFailures = 3
    MaxDeliver = 5
    MaxOutages = 2
    None = None
PROPERTIES
    CalmAfterOutage
CHECK_DEADLOCK FALSE
