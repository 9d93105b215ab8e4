SPECIFICATION Spec
CONSTANTS
    c1 = c1  c2 = c2  c3 = c3  s1 = s1  s2 = s2
    NumObj = 3
    Sig = {s1}
    Matching <- All
    Caller = {c1}
    MaxCalls = 1
    MaxId = 4
    MaxQueue = 2
    None = None
PROPERTIES StubForEachListed
CHECK_DEADLOCK FALSE
