SPECIFICATION Spec
CONSTANTS
    f1 = f1
    f2 = f2
    i1 = i1
    i2 = i2
    i3 = i3
    k1 = k1
    k2 = k2
    Feed = {f1, f2}
    Item = {i1, i2, i3}
    Key = {k1, k2}
    KeyOf <- Keys
    Linked = {i1, i2, i3}
    Tagged = {f1, f2}
    MaxItems = 2
    SeenMax = 2
    PollLimit = 50
    Concurrency = 10
    ErrorLimit = 2
    FaultKind = {"fetch", "late", "db", "crash", "seed"}
    MaxFaults = 1
    None = None
SYMMETRY FeedSymmetry
INVARIANTS
    TypeOK
    StoredVersionIsPublished
    PublishedOncePerProcess
PROPERTIES
    VersionNeverGoesBack
