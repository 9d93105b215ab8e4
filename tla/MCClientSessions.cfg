SPECIFICATION FairSpec
CONSTANTS
    w1 = w1
    w2 = w2
    r1 = r1
    r2 = r2
    r3 = r3
    r4 = r4
    p1 = p1
    p2 = p2
    Wsi = {w1, w2}
    Req = {r1, r2, r3}
    Pattern = {p1}
    None = None
    TotalReqMax = 1
    MaxAsyncReqs = 1
    QLenMax = 7
    StaleAge = 2
    MaxEvents = 1
INVARIANTS
    QLenExact
    OutstandingBounded
    NoOrphans
    NoLostCheck
    AtMostOneReply
    ShareUpToDate
PROPERTIES
    
    ImplementsService
    CallsEnd
