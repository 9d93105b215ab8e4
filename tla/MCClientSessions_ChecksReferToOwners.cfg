SPECIFICATION Spec
CONSTANTS
    w1 = w1
    w2 = w2
    r1 = r1
    r2 = r2
    r3 = r3
    r4 = r4
    p1 = p1
    p2 = p2
    Pattern = {p1}
    None = None
    QLenMax = 7
    MaxAsyncReqs = 2
    Wsi = {w1, w2}
    Req = {r1, r2, r3}
    TotalReqMax = 3
    StaleAge = 1
    MaxEvents = 1
INVARIANT ChecksReferToOwners
