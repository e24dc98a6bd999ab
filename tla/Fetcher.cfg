SPECIFICATION FairSpec
CONSTANTS
    p1 = p1
    p2 = p2
    p3 = p3
    p4 = p4
    d1 = d1
    i1 = i1
    i2 = i2
    c1 = c1
    Worker = {w1}
    Page = {p1, p2, p3, p4}
    Domain = {d1}
    DomainOf <- OneDomain
    Thin = {p4}
    Unparsable = {p3}
    Invalid = {p2}
    Item = {i1, i2}
    PageOf <- PageOfItem
    Command = {c1}
    FeedDomain <- FeedInDomain
    Entries <- FeedEntries
    Malformed = {i2}
    MaxEntries = 5
    DomainLimit = 2
    ExtractLimit = 2
    MaxDeliver = 2
    FaultKind = {"fetch", "parse", "extract", "publish", "late", "crash", "slow"}
    MaxFaults = 1
    None = None
INVARIANTS
    TypeOK
    PolitePerDomain
    AckedIsWorkedOff
    OncePerDelivery
PROPERTIES
    EveryRequestSettles
    EveryPageArrives
