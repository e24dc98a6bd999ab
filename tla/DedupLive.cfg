SPECIFICATION FairSpec
CONSTANTS
    a1 = a1
    a2 = a2
    a3 = a3
    m1 = m1
    m2 = m2
    m3 = m3
    Article = {a1, a2}
    Message = {m1, m2}
    UrlHash <- OneOfEach
    Near <- Everything
    Alike <- Everything
    Worker = {w1, w2}
    MaxDeliver = 2
    TimelineLimit = 100
    FaultKind = {"crash", "slow"}
    MaxFaults = 1
    None = None
INVARIANTS
    OriginalsSurvive
    Accounted
PROPERTIES
    EventuallyDecided
    EveryMessageSettles
