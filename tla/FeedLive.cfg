SPECIFICATION FairSpec
CONSTANTS
    f1 = f1
    f2 = f2
    i1 = i1
    i2 = i2
    i3 = i3
    k1 = k1
    k2 = k2
    Feed = {f1, f2}
    Item = {i1, i2}
    Key = {k1, k2}
    KeyOf <- Keys
    Linked = {i1, i2}
    Tagged = {f1}
    MaxItems = 20
    SeenMax = 1
    PollLimit = 1
    Concurrency = 1
    ErrorLimit = 2
    FaultKind = {"fetch", "db", "crash", "seed"}
    MaxFaults = 2
    None = None
PROPERTIES
    EveryItemPublished
