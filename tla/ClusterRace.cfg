SPECIFICATION Spec
CONSTANTS
    Article = {a1, a2, a3, a4, a5}
    Stored = {a1, a2, a3}
    Unusable = {a4}
    Worker = {w1, w2}
    MaxDeliver = 2
    ActiveLimit = 100
    FaultKind = {}
    MaxFaults = 1
    ClockTies = FALSE
    None = None
SYMMETRY Symmetry
INVARIANTS
    TypeOK
    LagIsTransient
    DroppedByRivals
