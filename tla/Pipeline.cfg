SPECIFICATION Spec
CONSTANTS
    Article = {a1, a2, a3}
    Message = {a1, a2, a3}
    UrlHash <- Itself
    Near <- Self
    Alike <- Everything
    Unusable = {}
    DedupWorker = {w1}
    ClusterWorker = {v1, v2}
    MaxDeliver = 2
    TimelineLimit = 100
    ActiveLimit = 100
    ClockTies = FALSE
    DedupFault = {}
    ClusterFault = {}
    MaxFaults = 1
    KeyLoss = FALSE
    None = None
SYMMETRY Symmetry
INVARIANTS
    NothingVanishes
    CountedOnceEndToEnd
PROPERTIES
    ImplementsNewsroom
