SPECIFICATION Spec
CONSTANTS
    a1 = a1
    a2 = a2
    a3 = a3
    m1 = m1
    m2 = m2
    m3 = m3
    Article = {a1, a2, a3}
    Message = {a1, a2, a3}
    UrlHash <- Itself
    Near <- Self
    Alike <- Everything
    Worker = {w1, w2}
    MaxDeliver = 2
    TimelineLimit = 100
    FaultKind = {"fail", "crash", "slow", "embed"}
    MaxFaults = 1
    None = None
SYMMETRY Symmetry
INVARIANTS
    TypeOK
    UniqueIsStored
    ClonesBoundedByReplicas
