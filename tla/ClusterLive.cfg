SPECIFICATION FairSpec
CONSTANTS
    Article = {a1, a2}
    Stored = {a1, a2}
    Unusable = {}
    Worker = {w1, w2}
    MaxDeliver = 2
    ActiveLimit = 100
    FaultKind = {"fail", "crash", "slow"}
    MaxFaults = 1
    ClockTies = FALSE
    None = None
INVARIANTS
    CacheTracksDb
    EventsMatchDb
    EventsNotAheadOfCache
    AckedWasAnnounced
PROPERTIES
    EveryMessageSettles
