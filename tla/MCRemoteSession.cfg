SPECIFICATION Spec
CONSTANTS
    c1 = c1  c2 = c2  c3 = c3  s1 = s1  s2 = s2
    NumObj = 2
    Sig = {s1, s2}
    Matching <- All
    Caller = {c1, c2}
    MaxCalls = 1
    MaxId = 4
    MaxQueue = 3
    None = None
INVARIANTS HandshakeFirst SlotPerCall StubsCatchUp
PROPERTIES ResultsReachCallers ListMerged
CHECK_DEADLOCK FALSE
SYMMETRY Symmetry
