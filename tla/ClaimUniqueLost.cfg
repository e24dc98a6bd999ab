SPECIFICATION Spec
CONSTANTS
    a1 = a1
    a2 = a2
    a3 = a3
    m1 = m1
    m2 = m2
    m3 = m3
    Article = {a1}
    Message = {m1}
    UrlHash <- OneOfEach
    Near <- Self
    Alike <- Self
    Worker = {w1}
    MaxDeliver = 5
    TimelineLimit = 100
    FaultKind = {"crash"}
    MaxFaults = 1
    None = None
INVARIANTS
    StoredIsAnnounced
