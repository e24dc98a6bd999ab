SPECIFICATION FairSpec
CONSTANTS
    a1 = a1
    a2 = a2
    a3 = a3
    c1 = c1
    c2 = c2
    Article = {a1, a2, a3}
    Cluster = {c1, c2}
    ClusterOf <- Stories
    Old = {a1}
    MaxSockets = 2
    MaxFetches = 2
    MaxClusters = 1
    MaxDeliver = 2
    FaultKind = {"drop", "slow", "http", "refused", "crash"}
    MaxFaults = 1
    None = None
INVARIANTS
    TypeOK
    CountsAreGrounded
    FirstCardIsCurrent
    HubForgets
PROPERTIES
    GoneIsForgotten
    BrowserComesBack
    EveryEventSettles
    EventReachesBrowser
CHECK_DEADLOCK FALSE
