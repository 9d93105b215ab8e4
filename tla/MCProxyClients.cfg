SPECIFICATION Spec
CONSTANTS
    a1 = a1
    a2 = a2
    w1 = w1
    w2 = w2
    w3 = w3
    Addr = {a1, a2}
    Wsi = {w1, w2}
    None = None
    Configured <- OneConfigured
    MaxClients = 3
    MaxCount = 1
INVARIANTS
    IndexOrder
    OneClientPerAddress
    
    
PROPERTIES
    TeardownFinal
CHECK_DEADLOCK FALSE
